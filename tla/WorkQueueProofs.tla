-------------------------- MODULE WorkQueueProofs --------------------------
(***************************************************************************)
(* Proofs about WorkQueue for any number of items and processes and any    *)
(* buffer, batch size and degree of parallelism.                           *)
(***************************************************************************)
EXTENDS WorkQueue, FiniteSetTheorems, TLAPS

(***************************************************************************)
(* The arithmetic of the batches.                                          *)
(***************************************************************************)

\* n items fill BatchCount(n) batches, the last one at least in part.
LEMMA BatchCountBounds ==
  ASSUME NEW n \in Nat
  PROVE  /\ BatchCount(n) \in Nat
         /\ n <= BatchCount(n) * BatchSize
         /\ n > 0 => BatchCount(n) > 0 /\ (BatchCount(n) - 1) * BatchSize < n
<1> DEFINE q == n \div BatchSize
           r == n % BatchSize
<1>1. BatchSize \in Nat /\ BatchSize > 0
  BY WorkQueueAssumption
<1>2. q \in Nat /\ r \in 0..(BatchSize - 1) /\ n = BatchSize * q + r
  BY <1>1, Z3
<1>3. CASE r = 0
  <2>1. BatchCount(n) = q /\ n = q * BatchSize
    BY <1>1, <1>2, <1>3, Z3 DEF BatchCount
  <2>2. n > 0 => q > 0
    BY <1>1, <1>2, <2>1, Z3
  <2>3. (q - 1) * BatchSize = q * BatchSize - BatchSize
    BY <1>1, <1>2, Z3
  <2> QED
    BY <1>1, <1>2, <2>1, <2>2, <2>3, Z3
<1>4. CASE r # 0
  <2>1. BatchCount(n) = q + 1
    BY <1>2, <1>4, Z3 DEF BatchCount
  <2>2. (q + 1) * BatchSize = BatchSize * q + BatchSize
    BY <1>1, <1>2, Z3
  <2>3. ((q + 1) - 1) * BatchSize = BatchSize * q
    BY <1>1, <1>2, Z3
  <2> QED
    BY <1>1, <1>2, <1>4, <2>1, <2>2, <2>3, Z3
<1> QED
  BY <1>3, <1>4

\* No batch has more than BatchSize items.
LEMMA LastBound ==
  ASSUME NEW n \in Nat, NEW b \in Nat
  PROVE  /\ First(b) \in Nat /\ Last(n, b) \in Nat
         /\ Last(n, b) <= b * BatchSize + BatchSize
<1>1. BatchSize \in Nat /\ b * BatchSize \in Nat
  BY WorkQueueAssumption
<1>2. (b + 1) * BatchSize = b * BatchSize + BatchSize
  BY <1>1, Z3
<1>3. BatchCount(n) \in Nat /\ n <= BatchCount(n) * BatchSize
  BY BatchCountBounds
<1>4. CASE b = BatchCount(n) - 1
  <2>1. Last(n, b) = n /\ BatchCount(n) = b + 1
    BY <1>3, <1>4, Z3 DEF Last
  <2> QED
    BY <1>1, <1>2, <1>3, <2>1, Z3 DEF First
<1>5. CASE b # BatchCount(n) - 1
  BY <1>1, <1>2, <1>5, Z3 DEF First, Last
<1> QED
  BY <1>4, <1>5

\* The batches before BatchCount(n) lie within the n items, and are not empty.
LEMMA BatchWithin ==
  ASSUME NEW n \in Nat, NEW b \in Nat, b < BatchCount(n), n > 0
  PROVE  First(b) > 0 /\ First(b) <= Last(n, b) /\ Last(n, b) <= n
<1> DEFINE c == BatchCount(n)
<1>1. BatchSize \in Nat /\ BatchSize > 0 /\ b * BatchSize \in Nat
  BY WorkQueueAssumption
<1>2. c \in Nat /\ (c - 1) * BatchSize < n
  BY BatchCountBounds
<1>3. (b + 1) * BatchSize = b * BatchSize + BatchSize
  BY <1>1, Z3
<1>4. CASE b = c - 1
  BY <1>1, <1>2, <1>4, Z3 DEF First, Last
<1>5. CASE b # c - 1
  <2>1. b + 1 <= c - 1
    BY <1>2, <1>5, Z3
  <2>2. (b + 1) * BatchSize <= (c - 1) * BatchSize
    BY <1>1, <1>2, <2>1, Z3
  <2> QED
    BY <1>1, <1>2, <1>3, <1>5, <2>2, Z3 DEF First, Last
<1> QED
  BY <1>4, <1>5

(***************************************************************************)
(* Types.                                                                  *)
(***************************************************************************)

\* Only the batches that the items fill are ever begun.
BatchInv ==
  \A p \in Processes :
    /\ loop[p] = "processing" => Len(items[p]) > 0
    /\ \A b \in Batches : batch[p][b] # "over" =>
         loop[p] = "processing" /\ b < BatchCount(Len(items[p]))

\* The broker's part of TypeOK, kept by what the channels do to it.
BrokerTypeOK ==
  /\ posted \subseteq Items /\ acked \subseteq Items /\ ready \subseteq Items
  /\ declared \in BOOLEAN
  /\ unacked \in [Processes -> SUBSET Items]

LEMMA BrokerTypes ==
  ASSUME BrokerTypeOK, NEW p \in Processes
  PROVE  /\ \A i \in Items : BasicAck(p, i) \/ BasicNack(p, i) => BrokerTypeOK'
         /\ CloseChannel(p) => BrokerTypeOK'
         /\ UNCHANGED brokerVars => BrokerTypeOK'
<1> USE DEF BrokerTypeOK
<1>1. ASSUME NEW i \in Items, BasicAck(p, i) PROVE BrokerTypeOK'
  <2>1. CASE HasChannel(p) /\ i \in unacked[p]
    BY <1>1, <2>1 DEF BasicAck
  <2>2. CASE ~(HasChannel(p) /\ i \in unacked[p])
    BY <1>1, <2>2 DEF BasicAck
  <2> QED
    BY <2>1, <2>2
<1>2. ASSUME NEW i \in Items, BasicNack(p, i) PROVE BrokerTypeOK'
  <2>1. CASE HasChannel(p) /\ i \in unacked[p]
    BY <1>2, <2>1 DEF BasicNack
  <2>2. CASE ~(HasChannel(p) /\ i \in unacked[p])
    BY <1>2, <2>2 DEF BasicNack
  <2> QED
    BY <2>1, <2>2
<1>3. ASSUME CloseChannel(p) PROVE BrokerTypeOK'
  BY <1>3 DEF CloseChannel
<1>4. ASSUME UNCHANGED brokerVars PROVE BrokerTypeOK'
  BY <1>4 DEF brokerVars
<1> QED
  BY <1>1, <1>2, <1>3, <1>4

LEMMA TypeInit == Init => TypeOK /\ BatchInv
<1> SUFFICES ASSUME Init PROVE TypeOK /\ BatchInv
  OBVIOUS
<1>1. 0 \in 0..BatchSize /\ MaxCount \in Nat /\ 0 <= BufferSize
  BY WorkQueueAssumption DEF MaxCount
<1>2. \A p \in Processes : buffer[p] = <<>> /\ items[p] = <<>>
  BY DEF Init
<1>3. \A p \in Processes : Len(buffer[p]) <= BufferSize /\ Len(items[p]) <= MaxCount
  BY <1>1, <1>2
<1>4. buffer \in [Processes -> Seq(Items)] /\ items \in [Processes -> Seq(Items)]
  BY DEF Init
<1>5. sent \in [Processes -> [Batches -> 0..BatchSize]]
  <2>1. [b \in Batches |-> 0] \in [Batches -> 0..BatchSize]
    BY <1>1
  <2> QED
    BY <2>1 DEF Init
<1>6. batch \in [Processes -> [Batches -> {"handling", "acking", "aborted", "over"}]]
  BY DEF Init
<1>7. /\ unacked \in [Processes -> SUBSET Items]
      /\ done \in [Processes -> SUBSET Items]
      /\ arriving \in [Processes -> Items \union {NoItem}]
      /\ life \in [Processes -> {"down", "consuming", "running", "stopping", "closed"}]
      /\ loop \in [Processes -> {"waiting", "collecting", "processing", "ended"}]
  BY DEF Init
<1>8. /\ posted \subseteq Items /\ acked \subseteq Items /\ ready \subseteq Items
      /\ declared \in BOOLEAN
      /\ stops \in 0..MaxStops /\ restarts \in 0..MaxRestarts /\ failures \in 0..MaxFailures
  <2>1. posted = {} /\ acked = {} /\ ready = {} /\ declared = FALSE
    BY Zenon DEF Init
  <2>2. stops = 0 /\ restarts = 0 /\ failures = 0
    BY DEF Init
  <2>3. stops \in 0..MaxStops /\ restarts \in 0..MaxRestarts /\ failures \in 0..MaxFailures
    BY ONLY WorkQueueAssumption, <2>2
  <2> QED
    BY <2>1, <2>3, Zenon
<1>9. BatchInv
  BY DEF Init, BatchInv
<1> QED
  BY <1>3, <1>4, <1>5, <1>6, <1>7, <1>8, <1>9 DEF TypeOK

\* SendAck finds an item.
LEMMA NextIsItem ==
  ASSUME TypeOK, BatchInv, NEW p \in Processes, NEW b \in Batches, SendAck(p, b)
  PROVE  NextToSettle(p, b) \in Items
<1> DEFINE n == Len(items[p])
<1>1. b \in Nat /\ n \in Nat /\ sent[p][b] \in 0..BatchSize /\ BatchSize \in Nat
  BY WorkQueueAssumption DEF TypeOK, Batches
<1>2. First(b) + sent[p][b] <= Last(n, b) /\ b < BatchCount(n) /\ n > 0
  BY DEF SendAck, BatchInv
<1>3. First(b) \in Nat /\ Last(n, b) \in Nat /\ First(b) > 0 /\ Last(n, b) <= n
  BY <1>1, <1>2, LastBound, BatchWithin
<1>4. First(b) + sent[p][b] \in 1..n
  BY ONLY <1>1, <1>2, <1>3
<1> QED
  BY <1>4 DEF NextToSettle, TypeOK

LEMMA TypeNext == TypeOK /\ BatchInv /\ [Next]_vars => TypeOK'
<1> USE WorkQueueAssumption
<1>2. TypeOK /\ BatchInv /\ [Next]_vars => TypeOK'
  <2> SUFFICES ASSUME TypeOK, BatchInv, [Next]_vars PROVE TypeOK'
    OBVIOUS
  <2>0. MaxCount \in Nat /\ BatchSize \in Nat
    BY DEF MaxCount
  <2> USE DEF TypeOK, brokerVars, dispatcherVars, counters
  <2>e. BrokerTypeOK
    BY DEF BrokerTypeOK
  <2>1. ASSUME NEW i \in Items, Post(i) PROVE TypeOK'
    BY <2>1 DEF Post
  <2>2. CASE BrokerRestart
    BY <2>2 DEF BrokerRestart
  <2>3. ASSUME NEW p \in Processes, Observe(p) \/ Subscribe(p) \/ Stop(p) \/ Close(p)
        PROVE  TypeOK'
    <3>1. CASE Observe(p)
      BY <3>1 DEF Observe
    <3>2. CASE Subscribe(p)
      BY <3>2 DEF Subscribe
    <3>3. CASE Stop(p)
      BY <3>3 DEF Stop
    <3>4. CASE Close(p)
      BY <3>4 DEF Close, CloseChannel
    <3> QED
      BY <2>3, <3>1, <3>2, <3>3, <3>4
  <2>4. ASSUME NEW p \in Processes, Exit(p) PROVE TypeOK'
    <3>0. UNCHANGED brokerVars \/ CloseChannel(p)
      BY ONLY <2>4 DEF Exit, brokerVars
    <3>1. BrokerTypeOK'
      BY <2>e, <3>0, BrokerTypes
    <3>4. stops' \in 0..MaxStops
      BY <2>4 DEF Exit
    <3>2. \A q \in Processes : Len(buffer'[q]) <= BufferSize /\ Len(items'[q]) <= MaxCount
      BY <2>0, <2>4 DEF Exit
    <3>3. buffer' \in [Processes -> Seq(Items)] /\ items' \in [Processes -> Seq(Items)]
      BY <2>4 DEF Exit
    <3> QED
      BY <2>4, <3>1, <3>2, <3>3, <3>4 DEF Exit, BrokerTypeOK
  <2>5. ASSUME NEW p \in Processes, NEW i \in Items, Deliver(p, i) PROVE TypeOK'
    BY <2>5 DEF Deliver
  <2>6. ASSUME NEW p \in Processes, OnNext(p) PROVE TypeOK'
    <3>1. CASE Len(buffer[p]) < BufferSize
      <4>1. /\ Append(buffer[p], arriving[p]) \in Seq(Items)
            /\ Len(Append(buffer[p], arriving[p])) = Len(buffer[p]) + 1
        BY <2>6 DEF OnNext
      <4>2. buffer' = [buffer EXCEPT ![p] = Append(buffer[p], arriving[p])]
        BY <2>6, <3>1 DEF OnNext
      <4>3. \A q \in Processes : Len(buffer'[q]) <= BufferSize
        BY <3>1, <4>1, <4>2
      <4>4. buffer' \in [Processes -> Seq(Items)]
        BY <4>1, <4>2
      <4> QED
        BY <2>6, <3>1, <4>3, <4>4 DEF OnNext
    <3>2. CASE ~(Len(buffer[p]) < BufferSize)
      <4>1. arriving[p] \in Items /\ BasicNack(p, arriving[p])
        BY <2>6, <3>2 DEF OnNext
      <4>2. BrokerTypeOK'
        BY <2>e, <4>1, BrokerTypes
      <4> QED
        BY <2>6, <3>2, <4>2 DEF OnNext, BrokerTypeOK
    <3> QED
      BY <3>1, <3>2
  <2>7. ASSUME NEW p \in Processes, RunAsync(p) PROVE TypeOK'
    <3>1. CASE BeginBatch(p)
      BY <3>1 DEF BeginBatch
    <3>2. CASE Collect(p)
      <4>1. /\ Head(buffer[p]) \in Items
            /\ Tail(buffer[p]) \in Seq(Items)
            /\ Len(Tail(buffer[p])) = Len(buffer[p]) - 1
        BY <3>2 DEF Collect
      <4>2. /\ Append(items[p], Head(buffer[p])) \in Seq(Items)
            /\ Len(Append(items[p], Head(buffer[p]))) = Len(items[p]) + 1
        BY <4>1
      <4>3. \A q \in Processes : Len(buffer'[q]) <= BufferSize /\ Len(items'[q]) <= MaxCount
        BY <2>0, <3>2, <4>1, <4>2 DEF Collect
      <4>4. buffer' \in [Processes -> Seq(Items)] /\ items' \in [Processes -> Seq(Items)]
        BY <3>2, <4>1, <4>2 DEF Collect
      <4> QED
        BY <3>2, <4>3, <4>4 DEF Collect
    <3>3. CASE Cancel(p)
      BY <3>3 DEF Cancel
    <3>4. CASE Dispatch(p)
      BY <3>4 DEF Dispatch
    <3>5. CASE Finish(p)
      <4>1. \A q \in Processes : Len(items'[q]) <= MaxCount
        BY <2>0, <3>5 DEF Finish
      <4>2. 0 \in 0..BatchSize
        BY <2>0
      <4> QED
        BY <3>5, <4>1, <4>2 DEF Finish
    <3> QED
      BY <2>7, <3>1, <3>2, <3>3, <3>4, <3>5 DEF RunAsync
  <2>8. ASSUME NEW p \in Processes, NEW b \in Batches, ProcessBatch(p, b) PROVE TypeOK'
    <3>1. ASSUME NEW i \in Items, MarkDone(p, b, i) PROVE TypeOK'
      BY <3>1 DEF MarkDone
    <3>2. CASE Return(p, b)
      BY <3>2 DEF Return
    <3>3. CASE Abort(p, b)
      BY <3>3 DEF Abort
    <3>4. CASE SendAck(p, b)
      <4>1. b \in Nat /\ Len(items[p]) \in Nat /\ sent[p][b] \in 0..BatchSize
        BY DEF Batches
      <4>a. First(b) + sent[p][b] <= Last(Len(items[p]), b)
        BY <3>4 DEF SendAck
      <4>b. /\ First(b) \in Nat /\ Last(Len(items[p]), b) \in Nat
            /\ Last(Len(items[p]), b) <= b * BatchSize + BatchSize
        BY <4>1, LastBound
      <4>e. b * BatchSize \in Nat
        BY <2>0, <4>1
      <4>2. First(b) + sent[p][b] <= b * BatchSize + BatchSize
        BY ONLY <2>0, <4>1, <4>a, <4>b, <4>e
      <4>3. sent[p][b] + 1 \in 0..BatchSize
        BY ONLY <2>0, <4>1, <4>2, <4>e DEF First
      <4>4. sent' \in [Processes -> [Batches -> 0..BatchSize]]
        BY <3>4, <4>3 DEF SendAck
      <4>5. BrokerTypeOK'
        <5>1. NextToSettle(p, b) \in Items
          BY <3>4, NextIsItem
        <5> QED
          BY <2>e, <3>4, <5>1, BrokerTypes DEF SendAck
      <4> QED
        BY <3>4, <4>4, <4>5 DEF SendAck, BrokerTypeOK
    <3> QED
      BY <2>8, <3>1, <3>2, <3>3, <3>4 DEF ProcessBatch
  <2>9. CASE UNCHANGED vars
    BY <2>9 DEF vars
  <2> QED
    BY <2>1, <2>2, <2>3, <2>4, <2>5, <2>6, <2>7, <2>8, <2>9 DEF Next, Process
<1> QED
  BY <1>2

LEMMA BatchInvNext == TypeOK /\ BatchInv /\ [Next]_vars => BatchInv'
<1> SUFFICES ASSUME TypeOK, BatchInv, [Next]_vars PROVE BatchInv'
  OBVIOUS
<1> USE DEF BatchInv, brokerVars, dispatcherVars, counters
<1>0. loop \in [Processes -> {"waiting", "collecting", "processing", "ended"}]
      /\ items \in [Processes -> Seq(Items)]
      /\ batch \in [Processes -> [Batches -> {"handling", "acking", "aborted", "over"}]]
  BY DEF TypeOK
<1>1. ASSUME UNCHANGED <<loop, items, batch>> PROVE BatchInv'
  BY <1>1
<1>2. ASSUME NEW p \in Processes, Exit(p) PROVE BatchInv'
  BY <1>0, <1>2 DEF Exit
<1>3. ASSUME NEW p \in Processes, BeginBatch(p) PROVE BatchInv'
  BY <1>0, <1>3 DEF BeginBatch
<1>4. ASSUME NEW p \in Processes, Collect(p) PROVE BatchInv'
  BY <1>0, <1>4 DEF Collect
<1>5. ASSUME NEW p \in Processes, Cancel(p) PROVE BatchInv'
  BY <1>0, <1>5 DEF Cancel
<1>6. ASSUME NEW p \in Processes, Dispatch(p) PROVE BatchInv'
  BY <1>0, <1>6 DEF Dispatch
<1>7. ASSUME NEW p \in Processes, Finish(p) PROVE BatchInv'
  BY <1>0, <1>7 DEF Finish
<1>8. ASSUME NEW p \in Processes, NEW b \in Batches, Return(p, b) \/ Abort(p, b)
      PROVE  BatchInv'
  <2>1. PICK c \in {"acking", "aborted"} :
          /\ batch[p][b] = "handling"
          /\ batch' = [batch EXCEPT ![p][b] = c]
          /\ UNCHANGED <<loop, items>>
    BY <1>8 DEF Return, Abort
  <2>2. \A q \in Processes : \A d \in Batches :
          batch'[q][d] # "over" => batch[q][d] # "over"
    BY <1>0, <2>1
  <2> QED
    BY <2>1, <2>2
<1>9. ASSUME NEW p \in Processes, NEW b \in Batches, NEW i \in Items, MarkDone(p, b, i)
      PROVE  BatchInv'
  BY <1>1, <1>9 DEF MarkDone
<1>10. ASSUME NEW p \in Processes, NEW b \in Batches, SendAck(p, b) PROVE BatchInv'
  BY <1>1, <1>10 DEF SendAck
<1>11. ASSUME NEW p \in Processes, Observe(p) \/ Subscribe(p) \/ Stop(p) \/ Close(p) \/ OnNext(p)
       PROVE  BatchInv'
  BY <1>1, <1>11 DEF Observe, Subscribe, Stop, Close, OnNext
<1>12. ASSUME NEW p \in Processes, NEW i \in Items, Deliver(p, i) PROVE BatchInv'
  BY <1>1, <1>12 DEF Deliver
<1>13. CASE BrokerRestart \/ (\E i \in Items : Post(i)) \/ UNCHANGED vars
  BY <1>1, <1>13 DEF BrokerRestart, Post, vars
<1> QED
  BY <1>2, <1>3, <1>4, <1>5, <1>6, <1>7, <1>8, <1>9, <1>10, <1>11, <1>12, <1>13
     DEF Next, Process, RunAsync, ProcessBatch

\* For all sizes neither the buffer nor the array of items read overflows, and
\* SendAck stays within its batch.
THEOREM TypeCorrect == Spec => []TypeOK
<1>1. Spec => [](TypeOK /\ BatchInv)
  BY TypeInit, TypeNext, BatchInvNext, PTL DEF Spec
<1> QED
  BY <1>1, PTL

(***************************************************************************)
(* The batches.                                                            *)
(***************************************************************************)

\* As many batches as may run in parallel are enough.
LEMMA BatchCountLimit ==
  ASSUME NEW n \in Nat, 0 < n, n <= MaxCount
  PROVE  BatchCount(n) <= DegreeOfParallelism
<1> DEFINE c == BatchCount(n)
<1>1. BatchSize \in Nat /\ BatchSize > 0 /\ DegreeOfParallelism \in Nat
  BY WorkQueueAssumption
<1>2. c \in Nat /\ (c - 1) * BatchSize < n
  BY BatchCountBounds
<1>3. n <= BatchSize * DegreeOfParallelism
  BY DEF MaxCount
<1>4. SUFFICES ASSUME DegreeOfParallelism <= c - 1 PROVE FALSE
  BY <1>1, <1>2
<1>5. DegreeOfParallelism * BatchSize <= (c - 1) * BatchSize
  BY <1>1, <1>2, <1>4, Z3
<1> QED
  BY <1>1, <1>2, <1>3, <1>5, Z3

\* Every position is in the batch its index, divided by BatchSize, says.
LEMMA BatchOf ==
  ASSUME NEW n \in Nat, NEW k \in 1..n
  PROVE  \E b \in 0..(BatchCount(n) - 1) : k \in First(b)..Last(n, b)
<1> DEFINE c == BatchCount(n)
           b == (k - 1) \div BatchSize
<1>1. BatchSize \in Nat /\ BatchSize > 0 /\ k \in Nat /\ k > 0 /\ k <= n
  BY WorkQueueAssumption
<1>2. b \in Nat /\ b * BatchSize <= k - 1 /\ k - 1 < b * BatchSize + BatchSize
  <2> DEFINE m == k - 1
             r == m % BatchSize
  <2>0. m \in Nat
    BY <1>1
  <2> HIDE DEF m
  <2>1. m \div BatchSize \in Nat /\ r \in 0..(BatchSize - 1)
        /\ m = BatchSize * (m \div BatchSize) + r
    BY <1>1, <2>0, Z3
  <2> USE DEF m
  <2> QED
    BY <1>1, <2>1, Z3
<1>3. c \in Nat /\ n <= c * BatchSize
  BY BatchCountBounds
<1> HIDE DEF b
<1>4. (b + 1) * BatchSize = b * BatchSize + BatchSize /\ b * BatchSize \in Nat
  BY <1>1, <1>2, Z3
<1>5. b < c
  <2>1. SUFFICES ASSUME c <= b PROVE FALSE
    BY <1>2, <1>3
  <2>2. c * BatchSize <= b * BatchSize
    BY <1>1, <1>2, <1>3, <2>1, Z3
  <2> QED
    BY <1>1, <1>2, <1>3, <2>2, Z3
<1>6. First(b) \in Nat /\ First(b) <= k
  BY <1>1, <1>2, <1>4 DEF First
<1>7. k <= Last(n, b) /\ Last(n, b) \in Nat
  <2>1. CASE b = c - 1
    BY <1>1, <2>1 DEF Last
  <2>2. CASE b # c - 1
    <3>1. Last(n, b) = (b + 1) * BatchSize
      BY <2>2 DEF Last
    <3> QED
      BY <1>1, <1>2, <1>4, <3>1
  <2> QED
    BY <2>1, <2>2
<1>8. b \in 0..(c - 1)
  BY <1>2, <1>3, <1>5
<1> QED
  BY <1>1, <1>6, <1>7, <1>8

\* An earlier batch ends before a later one begins.
LEMMA BatchOrder ==
  ASSUME NEW n \in Nat, NEW b \in Nat, NEW c \in Nat, b < c, c < BatchCount(n)
  PROVE  Last(n, b) < First(c)
<1>1. BatchSize \in Nat /\ BatchCount(n) \in Nat
  BY WorkQueueAssumption, BatchCountBounds
<1>2. Last(n, b) = (b + 1) * BatchSize
  BY <1>1 DEF Last
<1>3. (b + 1) * BatchSize <= c * BatchSize
  BY <1>1, Z3
<1>4. (b + 1) * BatchSize \in Nat /\ c * BatchSize \in Nat
  BY <1>1
<1> QED
  BY <1>2, <1>3, <1>4 DEF First

LEMMA Partition == TypeOK /\ BatchInv => BatchesPartition
<1> SUFFICES ASSUME TypeOK, BatchInv, NEW p \in Processes, loop[p] = "processing"
             PROVE  LET n == Len(items[p])
                        Slice(b) == First(b)..Last(n, b)
                        used == 0..(BatchCount(n) - 1)
                    IN  /\ BatchCount(n) <= DegreeOfParallelism
                        /\ \A b \in used : Cardinality(Slice(b)) \in 1..BatchSize
                        /\ UNION {Slice(b) : b \in used} = 1..n
                        /\ \A b, c \in used : b # c => Slice(b) \intersect Slice(c) = {}
  BY DEF BatchesPartition
<1> DEFINE n == Len(items[p])
           Slice(b) == First(b)..Last(n, b)
           used == 0..(BatchCount(n) - 1)
<1>1. n \in Nat /\ n > 0 /\ n <= MaxCount
  BY DEF TypeOK, BatchInv
<1> HIDE DEF n
<1>2. BatchCount(n) \in Nat /\ BatchSize \in Nat
  BY <1>1, BatchCountBounds, WorkQueueAssumption
<1>3. \A b \in used : /\ b \in Nat /\ First(b) \in Nat /\ Last(n, b) \in Nat
                      /\ First(b) > 0 /\ First(b) <= Last(n, b) /\ Last(n, b) <= n
                      /\ Last(n, b) <= b * BatchSize + BatchSize
  <2> SUFFICES ASSUME NEW b \in used
               PROVE  /\ b \in Nat /\ First(b) \in Nat /\ Last(n, b) \in Nat
                      /\ First(b) > 0 /\ First(b) <= Last(n, b) /\ Last(n, b) <= n
                      /\ Last(n, b) <= b * BatchSize + BatchSize
    OBVIOUS
  <2>1. b \in Nat /\ b < BatchCount(n)
    BY <1>2
  <2> QED
    BY <1>1, <2>1, LastBound, BatchWithin
<1>4. BatchCount(n) <= DegreeOfParallelism
  BY <1>1, BatchCountLimit
<1>5. ASSUME NEW b \in used PROVE Cardinality(Slice(b)) \in 1..BatchSize
  <2>1. Cardinality(Slice(b)) = Last(n, b) - First(b) + 1
    BY <1>3, FS_Interval
  <2>2. b * BatchSize \in Nat
    BY <1>2, <1>3
  <2> QED
    BY <1>2, <1>3, <2>1, <2>2 DEF First
<1>6. UNION {Slice(b) : b \in used} = 1..n
  <2>1. ASSUME NEW b \in used, NEW k \in Slice(b) PROVE k \in 1..n
    BY <1>1, <1>3
  <2>2. ASSUME NEW k \in 1..n PROVE \E b \in used : k \in Slice(b)
    BY <1>1, BatchOf
  <2> HIDE DEF Slice, used
  <2> QED
    BY <2>1, <2>2
<1>7. ASSUME NEW b \in used, NEW c \in used, b # c
      PROVE  Slice(b) \intersect Slice(c) = {}
  <2>0. b < BatchCount(n) /\ c < BatchCount(n)
    BY <1>2
  <2>1. CASE b < c
    BY <1>1, <1>3, <2>0, <2>1, BatchOrder
  <2>2. CASE c < b
    BY <1>1, <1>3, <2>0, <2>2, BatchOrder
  <2> QED
    BY <1>3, <1>7, <2>1, <2>2
<1> QED
  BY <1>4, <1>5, <1>6, <1>7 DEF n

\* For all sizes, the batches share out what was read: none is empty or too large,
\* nothing is left over and nothing is handled twice.
THEOREM BatchesPartitionItems == Spec => []BatchesPartition
<1>1. Spec => [](TypeOK /\ BatchInv)
  BY TypeInit, TypeNext, BatchInvNext, PTL DEF Spec
<1> QED
  BY <1>1, Partition, PTL

(***************************************************************************)
(* The queue implements DurableQueue, while the broker keeps its messages. *)
(***************************************************************************)

\* An item is in one place: ready, with one process, or acknowledged.
OnePlace ==
  /\ ready \union acked \subseteq posted
  /\ ready \intersect acked = {}
  /\ \A p \in Processes :
       /\ unacked[p] \subseteq posted
       /\ unacked[p] \intersect (ready \union acked) = {}
       /\ \A q \in Processes : p # q => unacked[p] \intersect unacked[q] = {}

Marked == UNION {done[p] : p \in Processes}

\* What a step of the channels does to the places of the items.
LEMMA ChannelSteps ==
  ASSUME TypeOK, OnePlace, NEW p \in Processes
  PROVE  /\ CloseChannel(p) => OnePlace' /\ InQueue' = InQueue /\ acked' = acked
         /\ \A i \in Items : BasicNack(p, i) =>
              OnePlace' /\ InQueue' = InQueue /\ acked' = acked
         /\ \A i \in Items : BasicAck(p, i) =>
              /\ OnePlace'
              /\ \/ InQueue' = InQueue /\ acked' = acked
                 \/ i \in InQueue /\ InQueue' = InQueue \ {i} /\ acked' = acked \union {i}
<1>0. unacked \in [Processes -> SUBSET Items]
  BY DEF TypeOK
<1>1. ASSUME CloseChannel(p)
      PROVE  OnePlace' /\ InQueue' = InQueue /\ acked' = acked
  <2>1. \A q \in Processes : unacked'[q] = IF q = p THEN {} ELSE unacked[q]
    BY <1>0, <1>1 DEF CloseChannel
  <2>2. ready' = ready \union unacked[p] /\ acked' = acked /\ posted' = posted
    BY <1>1 DEF CloseChannel
  <2> QED
    BY <2>1, <2>2 DEF OnePlace, InQueue
<1>2. ASSUME NEW i \in Items, BasicNack(p, i)
      PROVE  OnePlace' /\ InQueue' = InQueue /\ acked' = acked
  <2>1. CASE HasChannel(p) /\ i \in unacked[p]
    <3>1. \A q \in Processes : unacked'[q] = IF q = p THEN unacked[p] \ {i} ELSE unacked[q]
      BY <1>0, <1>2, <2>1 DEF BasicNack
    <3>2. ready' = ready \union {i} /\ acked' = acked /\ posted' = posted
      BY <1>2, <2>1 DEF BasicNack
    <3> QED
      BY <2>1, <3>1, <3>2 DEF OnePlace, InQueue
  <2>2. CASE ~(HasChannel(p) /\ i \in unacked[p])
    <3>1. UNCHANGED <<posted, ready, unacked, acked>>
      BY <1>2, <2>2 DEF BasicNack
    <3> QED
      BY <3>1 DEF OnePlace, InQueue
  <2> QED
    BY <2>1, <2>2
<1>3. ASSUME NEW i \in Items, BasicAck(p, i)
      PROVE  /\ OnePlace'
             /\ \/ InQueue' = InQueue /\ acked' = acked
                \/ i \in InQueue /\ InQueue' = InQueue \ {i} /\ acked' = acked \union {i}
  <2>1. CASE HasChannel(p) /\ i \in unacked[p]
    <3>1. \A q \in Processes : unacked'[q] = IF q = p THEN unacked[p] \ {i} ELSE unacked[q]
      BY <1>0, <1>3, <2>1 DEF BasicAck
    <3>2. acked' = acked \union {i} /\ ready' = ready /\ posted' = posted
      BY <1>3, <2>1 DEF BasicAck
    <3>3. OnePlace'
      BY <2>1, <3>1, <3>2 DEF OnePlace
    <3>4. i \in InQueue /\ InQueue' = InQueue \ {i}
      BY <2>1, <3>1, <3>2 DEF OnePlace, InQueue
    <3> QED
      BY <3>2, <3>3, <3>4
  <2>2. CASE ~(HasChannel(p) /\ i \in unacked[p])
    <3>1. UNCHANGED <<posted, ready, unacked, acked>>
      BY <1>3, <2>2 DEF BasicAck
    <3> QED
      BY <3>1 DEF OnePlace, InQueue
  <2> QED
    BY <2>1, <2>2
<1> QED
  BY <1>1, <1>2, <1>3

LEMMA QueueStep ==
  ASSUME MaxRestarts = 0, TypeOK, TypeOK', BatchInv, OnePlace, [Next]_vars
  PROVE  OnePlace' /\ [Queue!Next]_(Queue!vars)
<1> USE DEF brokerVars, dispatcherVars, counters
<1>0. unacked \in [Processes -> SUBSET Items] /\ Marked' \in SUBSET Items
  BY DEF TypeOK, Marked
<1>1. ASSUME UNCHANGED <<posted, ready, unacked, acked>>
      PROVE  OnePlace' /\ [Queue!Next]_(Queue!vars)
  <2>1. OnePlace' /\ InQueue' = InQueue
    BY <1>1 DEF OnePlace, InQueue
  <2>2. Queue!Mark
    BY <1>0, <1>1, <2>1 DEF Queue!Mark, Marked
  <2> QED
    BY <2>1, <2>2 DEF Queue!Next
<1>2. ASSUME OnePlace', InQueue' = InQueue, acked' = acked
      PROVE  OnePlace' /\ [Queue!Next]_(Queue!vars)
  BY <1>0, <1>2 DEF Queue!Next, Queue!Mark, Marked
<1>3. CASE BrokerRestart
  BY <1>3 DEF BrokerRestart, TypeOK
<1>4. ASSUME NEW i \in Items, Post(i) PROVE OnePlace' /\ [Queue!Next]_(Queue!vars)
  <2>1. OnePlace'
    BY <1>4 DEF Post, OnePlace
  <2>2. CASE declared
    <3>1. InQueue' = InQueue \union {i} /\ i \notin InQueue \union acked
      BY <1>4, <2>2 DEF Post, OnePlace, InQueue
    <3>2. Queue!Enqueue(i)
      BY <1>4, <3>1 DEF Post, Queue!Enqueue
    <3> QED
      BY <2>1, <3>2 DEF Queue!Next
  <2>3. CASE ~declared
    <3>1. InQueue' = InQueue /\ acked' = acked
      BY <1>4, <2>3 DEF Post, InQueue
    <3> QED
      BY <1>2, <2>1, <3>1
  <2> QED
    BY <2>2, <2>3
<1>5. ASSUME NEW p \in Processes, Process(p)
      PROVE  OnePlace' /\ [Queue!Next]_(Queue!vars)
  <2>1. CASE Observe(p) \/ Subscribe(p) \/ Stop(p) \/ RunAsync(p)
    <3>1. UNCHANGED <<posted, ready, unacked, acked>>
      BY <2>1 DEF Observe, Subscribe, Stop, RunAsync, BeginBatch, Collect, Cancel,
                  Dispatch, Finish
    <3> QED
      BY <1>1, <3>1
  <2>2. CASE Close(p)
    BY <1>2, <2>2, ChannelSteps DEF Close
  <2>3. CASE Exit(p)
    <3>1. UNCHANGED <<posted, ready, unacked, acked>> \/ CloseChannel(p)
      BY ONLY <2>3 DEF Exit, brokerVars
    <3> QED
      BY <1>1, <1>2, <3>1, ChannelSteps
  <2>4. ASSUME NEW i \in Items, Deliver(p, i)
        PROVE  OnePlace' /\ [Queue!Next]_(Queue!vars)
    <3>1. \A q \in Processes :
            unacked'[q] = IF q = p THEN unacked[p] \union {i} ELSE unacked[q]
      BY <1>0, <2>4 DEF Deliver
    <3>2. i \in ready /\ ready' = ready \ {i} /\ acked' = acked /\ posted' = posted
      BY <2>4 DEF Deliver
    <3>3. OnePlace' /\ InQueue' = InQueue
      BY <3>1, <3>2 DEF OnePlace, InQueue
    <3> QED
      BY <1>2, <3>2, <3>3
  <2>5. CASE OnNext(p)
    <3>1. arriving[p] \in Items
      BY <2>5 DEF OnNext, TypeOK
    <3>2. UNCHANGED <<posted, ready, unacked, acked>> \/ BasicNack(p, arriving[p])
      BY ONLY <2>5 DEF OnNext, brokerVars
    <3> QED
      BY <1>1, <1>2, <3>1, <3>2, ChannelSteps
  <2>6. ASSUME NEW b \in Batches, ProcessBatch(p, b)
        PROVE  OnePlace' /\ [Queue!Next]_(Queue!vars)
    <3>1. CASE (\E i \in Items : MarkDone(p, b, i)) \/ Return(p, b) \/ Abort(p, b)
      <4>1. UNCHANGED <<posted, ready, unacked, acked>>
        BY <3>1 DEF MarkDone, Return, Abort
      <4> QED
        BY <1>1, <4>1
    <3>2. CASE SendAck(p, b)
      <4> DEFINE i == NextToSettle(p, b)
      <4>1. i \in Items
        BY <3>2, NextIsItem
      <4>2. CASE i \in done[p]
        <5>1. BasicAck(p, i) /\ done' = done
          BY <3>2, <4>2 DEF SendAck
        <5>2. OnePlace' /\ \/ InQueue' = InQueue /\ acked' = acked
                           \/ /\ i \in InQueue /\ InQueue' = InQueue \ {i}
                              /\ acked' = acked \union {i}
          BY <4>1, <5>1, ChannelSteps
        <5>3. i \in Marked /\ Marked' = Marked
          BY <4>2, <5>1 DEF Marked
        <5>4. CASE i \in InQueue /\ InQueue' = InQueue \ {i} /\ acked' = acked \union {i}
          <6>1. Queue!Finish(i)
            BY <5>3, <5>4 DEF Queue!Finish, Marked
          <6> QED
            BY <4>1, <5>2, <6>1 DEF Queue!Next
        <5> QED
          BY <1>2, <5>2, <5>4
      <4>3. CASE i \notin done[p]
        <5>1. BasicNack(p, i)
          BY <3>2, <4>3 DEF SendAck
        <5> QED
          BY <1>2, <4>1, <5>1, ChannelSteps
      <4> QED
        BY <4>2, <4>3
    <3> QED
      BY <2>6, <3>1, <3>2 DEF ProcessBatch
  <2> QED
    BY <1>5, <2>1, <2>2, <2>3, <2>4, <2>5, <2>6 DEF Process
<1>6. CASE UNCHANGED vars
  <2>1. UNCHANGED <<posted, ready, unacked, acked>>
    BY <1>6 DEF vars
  <2> QED
    BY <1>1, <2>1
<1> QED
  BY <1>3, <1>4, <1>5, <1>6 DEF Next

\* For all sizes, as long as the broker does not restart, an item leaves the queue
\* only by the acknowledgement of one that a handler has marked: not by a crash, a
\* full buffer, a handler's failure, or another process.
THEOREM ItemsAreKept == ASSUME MaxRestarts = 0 PROVE Spec => KeepsItems
<1>1. Init => OnePlace /\ Queue!Init
  <2> SUFFICES ASSUME Init PROVE OnePlace /\ Queue!Init
    OBVIOUS
  <2>1. posted = {} /\ ready = {} /\ acked = {}
        /\ \A p \in Processes : unacked[p] = {} /\ done[p] = {}
    BY DEF Init
  <2>2. UNION {unacked[p] : p \in Processes} = {} /\ UNION {done[p] : p \in Processes} = {}
    BY <2>1
  <2> QED
    BY <2>1, <2>2 DEF OnePlace, InQueue, Queue!Init
<1>2. TypeOK /\ TypeOK' /\ BatchInv /\ OnePlace /\ [Next]_vars
        => OnePlace' /\ [Queue!Next]_(Queue!vars)
  BY QueueStep
<1>3. Spec => [](TypeOK /\ BatchInv)
  BY TypeInit, TypeNext, BatchInvNext, PTL DEF Spec
<1>4. Spec => []OnePlace /\ Queue!Init /\ [][Queue!Next]_(Queue!vars)
  BY <1>1, <1>2, <1>3, PTL DEF Spec
<1> QED
  BY <1>4, PTL DEF KeepsItems, Queue!Spec

(***************************************************************************)
(* One handler at a time.  The broker alone cannot promise it: after a     *)
(* restart, or once an item was given back, what the processes remember is *)
(* all that keeps an item from being handled twice.                        *)
(***************************************************************************)

\* What is put back when nothing is being read, handled or connected.
Tidy ==
  \A p \in Processes :
    /\ loop[p] = "waiting" => items[p] = <<>>
    /\ \A b \in Batches : batch[p][b] # "acking" => sent[p][b] = 0
    /\ life[p] = "down" =>
         arriving[p] = NoItem /\ buffer[p] = <<>> /\ loop[p] = "waiting"

LEMMA TidyNext == TypeOK /\ BatchInv /\ Tidy /\ [Next]_vars => Tidy'
<1> SUFFICES ASSUME TypeOK, BatchInv, Tidy, [Next]_vars PROVE Tidy'
  OBVIOUS
<1> USE DEF Tidy, brokerVars, dispatcherVars, counters
<1>0. /\ loop \in [Processes -> {"waiting", "collecting", "processing", "ended"}]
      /\ items \in [Processes -> Seq(Items)] /\ buffer \in [Processes -> Seq(Items)]
      /\ batch \in [Processes -> [Batches -> {"handling", "acking", "aborted", "over"}]]
      /\ sent \in [Processes -> [Batches -> 0..BatchSize]]
      /\ life \in [Processes -> {"down", "consuming", "running", "stopping", "closed"}]
      /\ arriving \in [Processes -> Items \union {NoItem}]
  BY DEF TypeOK
<1>1. CASE BrokerRestart \/ (\E i \in Items : Post(i)) \/ UNCHANGED vars
  BY <1>1 DEF BrokerRestart, Post, vars
<1>2. ASSUME NEW p \in Processes, Observe(p) \/ Subscribe(p) \/ Stop(p) \/ Close(p)
      PROVE  Tidy'
  <2>1. /\ life[p] # "down" \/ life'[p] # "down"
        /\ \A q \in Processes : life'[q] = "down" => life[q] = "down"
    BY <1>0, <1>2 DEF Observe, Subscribe, Stop, Close
  <2>2. UNCHANGED <<arriving, buffer, loop, items, batch, sent>>
    BY <1>2 DEF Observe, Subscribe, Stop, Close
  <2> QED
    BY <2>1, <2>2
<1>3. ASSUME NEW p \in Processes, Exit(p) PROVE Tidy'
  BY <1>0, <1>3 DEF Exit
<1>4. ASSUME NEW p \in Processes, NEW i \in Items, Deliver(p, i) PROVE Tidy'
  <2>1. \A q \in Processes : life[q] = "down" => arriving'[q] = arriving[q]
    BY <1>0, <1>4 DEF Deliver, HasChannel
  <2> QED
    BY <1>4, <2>1 DEF Deliver
<1>5. ASSUME NEW p \in Processes, OnNext(p) PROVE Tidy'
  <2>1. life[p] # "down"
    BY <1>5 DEF OnNext
  <2>2. \A q \in Processes \ {p} : arriving'[q] = arriving[q] /\ buffer'[q] = buffer[q]
    BY <1>0, <1>5 DEF OnNext
  <2> QED
    BY <1>5, <2>1, <2>2 DEF OnNext
<1>6. ASSUME NEW p \in Processes, RunAsync(p) PROVE Tidy'
  <2>1. life[p] # "down"
    BY <1>6 DEF RunAsync, BeginBatch, Collect, Cancel, Dispatch, Finish, Cancelled
  <2>2. CASE BeginBatch(p)
    BY <1>0, <2>1, <2>2 DEF BeginBatch
  <2>3. CASE Collect(p)
    BY <1>0, <2>1, <2>3 DEF Collect
  <2>4. CASE Cancel(p)
    BY <1>0, <2>1, <2>4 DEF Cancel
  <2>5. CASE Dispatch(p)
    <3>1. \A b \in Batches : sent[p][b] = 0
      BY <2>5 DEF Dispatch, BatchInv
    <3> QED
      BY <1>0, <2>1, <2>5, <3>1 DEF Dispatch
  <2>6. CASE Finish(p)
    BY <1>0, <2>1, <2>6 DEF Finish
  <2> QED
    BY <1>6, <2>2, <2>3, <2>4, <2>5, <2>6 DEF RunAsync
<1>7. ASSUME NEW p \in Processes, NEW b \in Batches, ProcessBatch(p, b) PROVE Tidy'
  <2>1. ASSUME NEW i \in Items, MarkDone(p, b, i) PROVE Tidy'
    BY <2>1 DEF MarkDone
  <2>2. CASE Return(p, b)
    BY <1>0, <2>2 DEF Return
  <2>3. CASE Abort(p, b)
    BY <1>0, <2>3 DEF Abort
  <2>4. CASE SendAck(p, b)
    <3>1. \A q \in Processes : \A c \in Batches : batch[q][c] # "acking" =>
            sent'[q][c] = sent[q][c]
      BY <1>0, <2>4 DEF SendAck
    <3> QED
      BY <2>4, <3>1 DEF SendAck
  <2> QED
    BY <1>7, <2>1, <2>2, <2>3, <2>4 DEF ProcessBatch
<1> QED
  BY <1>1, <1>2, <1>3, <1>4, <1>5, <1>6, <1>7 DEF Next, Process

LEMMA OnePlaceNext == TypeOK /\ BatchInv /\ OnePlace /\ [Next]_vars => OnePlace'
<1> SUFFICES ASSUME TypeOK, BatchInv, OnePlace, [Next]_vars PROVE OnePlace'
  OBVIOUS
<1> USE DEF brokerVars, dispatcherVars, counters
<1>0. unacked \in [Processes -> SUBSET Items]
  BY DEF TypeOK
<1>1. ASSUME UNCHANGED <<posted, ready, unacked, acked>> PROVE OnePlace'
  BY <1>1 DEF OnePlace
<1>2. CASE BrokerRestart
  BY <1>2 DEF BrokerRestart, OnePlace
<1>3. ASSUME NEW i \in Items, Post(i) PROVE OnePlace'
  BY <1>3 DEF Post, OnePlace
<1>4. ASSUME NEW p \in Processes, Process(p) PROVE OnePlace'
  <2>1. CASE Observe(p) \/ Subscribe(p) \/ Stop(p) \/ RunAsync(p)
    BY <1>1, <2>1 DEF Observe, Subscribe, Stop, RunAsync, BeginBatch, Collect, Cancel,
                      Dispatch, Finish
  <2>2. CASE Close(p) \/ Exit(p)
    <3>1. UNCHANGED <<posted, ready, unacked, acked>> \/ CloseChannel(p)
      BY ONLY <2>2 DEF Close, Exit, brokerVars
    <3> QED
      BY <1>1, <3>1, ChannelSteps
  <2>3. ASSUME NEW i \in Items, Deliver(p, i) PROVE OnePlace'
    <3>1. \A q \in Processes :
            unacked'[q] = IF q = p THEN unacked[p] \union {i} ELSE unacked[q]
      BY <1>0, <2>3 DEF Deliver
    <3> QED
      BY <2>3, <3>1 DEF Deliver, OnePlace
  <2>4. CASE OnNext(p)
    <3>1. arriving[p] \in Items
      BY <2>4 DEF OnNext, TypeOK
    <3>2. UNCHANGED <<posted, ready, unacked, acked>> \/ BasicNack(p, arriving[p])
      BY ONLY <2>4 DEF OnNext, brokerVars
    <3> QED
      BY <1>1, <3>1, <3>2, ChannelSteps
  <2>5. ASSUME NEW b \in Batches, ProcessBatch(p, b) PROVE OnePlace'
    <3>1. CASE (\E i \in Items : MarkDone(p, b, i)) \/ Return(p, b) \/ Abort(p, b)
      BY <1>1, <3>1 DEF MarkDone, Return, Abort
    <3>2. CASE SendAck(p, b)
      <4>1. NextToSettle(p, b) \in Items
        BY <3>2, NextIsItem
      <4>2. BasicAck(p, NextToSettle(p, b)) \/ BasicNack(p, NextToSettle(p, b))
        BY ONLY <3>2 DEF SendAck
      <4> QED
        BY <4>1, <4>2, ChannelSteps
    <3> QED
      BY <2>5, <3>1, <3>2 DEF ProcessBatch
  <2> QED
    BY <1>4, <2>1, <2>2, <2>3, <2>4, <2>5 DEF Process
<1>5. CASE UNCHANGED vars
  BY <1>1, <1>5 DEF vars
<1> QED
  BY <1>2, <1>3, <1>4, <1>5 DEF Next

\* What p is to settle in the end is there once: it is not to be handled twice.
Once(p) ==
  /\ \A j \in 1..Len(buffer[p]) :
       /\ buffer[p][j] # arriving[p]
       /\ \A k \in 1..Len(buffer[p]) : buffer[p][j] = buffer[p][k] => j = k
       /\ \A k \in Unsettled(p) : buffer[p][j] # items[p][k]
  /\ \A j \in Unsettled(p) :
       /\ items[p][j] # arriving[p]
       /\ \A k \in Unsettled(p) : items[p][j] = items[p][k] => j = k

\* And no other process has it, nor can the broker hand it out: it is not ready, and
\* no other channel could put it back.
Apart(p) ==
  \A i \in Known(p) \ {NoItem} :
    /\ i \in posted \ ready
    /\ \A q \in Processes \ {p} : i \notin unacked[q] /\ (HasChannel(q) => i \notin Known(q))

OneHandler == \A p \in Processes : HasChannel(p) => Once(p) /\ Apart(p)

\* A process that a step leaves alone, or that only settles something.
LEMMA Fewer ==
  ASSUME NEW p \in Processes, Unsettled(p)' \subseteq Unsettled(p),
         items'[p] = items[p], buffer'[p] = buffer[p], arriving'[p] = arriving[p]
  PROVE  /\ Known(p)' \subseteq Known(p)
         /\ Once(p) => Once(p)'
         /\ Unsettled(p)' = Unsettled(p) => Known(p)' = Known(p)
<1>1. Known(p)' \subseteq Known(p) /\ (Unsettled(p)' = Unsettled(p) => Known(p)' = Known(p))
  BY DEF Known
<1>2. Once(p) => Once(p)'
  BY DEF Once
<1> QED
  BY <1>1, <1>2

LEMMA LeftAlone ==
  ASSUME NEW p \in Processes,
         loop'[p] = loop[p], items'[p] = items[p], batch'[p] = batch[p], sent'[p] = sent[p],
         buffer'[p] = buffer[p], arriving'[p] = arriving[p]
  PROVE  /\ Unsettled(p)' = Unsettled(p)
         /\ Known(p)' = Known(p)
         /\ Once(p) => Once(p)'
<1>1. Unsettled(p)' = Unsettled(p)
  BY DEF Unsettled
<1> QED
  BY <1>1, Fewer

\* As long as no one gets to know an item that is new to it, and nothing becomes
\* ready or unacknowledged that another one knows, the processes stay apart.
LEMMA ApartStep ==
  ASSUME OneHandler, posted \subseteq posted',
         \A p \in Processes : HasChannel(p)' =>
           /\ HasChannel(p) \/ Known(p) \subseteq {NoItem}
           /\ Known(p)' \subseteq Known(p) \union {NoItem}
           /\ \A i \in Known(p)' \ {NoItem} :
                /\ i \notin ready' \ ready
                /\ \A q \in Processes \ {p} : i \notin unacked'[q] \ unacked[q]
  PROVE  \A p \in Processes : HasChannel(p)' => Apart(p)'
<1> SUFFICES ASSUME NEW p \in Processes, HasChannel(p)', NEW i \in Known(p)' \ {NoItem}
             PROVE  /\ i \in posted' \ ready'
                    /\ \A q \in Processes \ {p} :
                         i \notin unacked'[q] /\ (HasChannel(q)' => i \notin Known(q)')
  BY DEF Apart
<1>1. i \in Known(p) /\ HasChannel(p) /\ Apart(p)
  BY DEF OneHandler
<1>2. i \in posted \ ready
  BY <1>1 DEF Apart
<1>3. ASSUME NEW q \in Processes \ {p}
      PROVE  i \notin unacked'[q] /\ (HasChannel(q)' => i \notin Known(q)')
  <2>1. i \notin unacked[q] /\ (HasChannel(q) => i \notin Known(q))
    BY <1>1 DEF Apart
  <2> QED
    BY <1>1, <2>1
<1> QED
  BY <1>2, <1>3

LEMMA BatchNumbers ==
  ASSUME TypeOK, NEW p \in Processes, NEW b \in Batches
  PROVE  /\ b \in Nat /\ Len(items[p]) \in Nat /\ sent[p][b] \in Nat
         /\ First(b) \in Nat /\ Last(Len(items[p]), b) \in Nat
<1>1. b \in Nat /\ Len(items[p]) \in Nat
  BY DEF Batches, TypeOK
<1>2. sent[p][b] \in 0..BatchSize /\ BatchSize \in Nat
  BY WorkQueueAssumption DEF TypeOK
<1>3. First(b) \in Nat /\ Last(Len(items[p]), b) \in Nat
  BY <1>1, LastBound
<1> QED
  BY <1>1, <1>2, <1>3

\* While it collects, a process has all it has read to settle; once it has shared
\* that out, all of it still; and nothing when every batch has come to its end.
LEMMA UnsettledAtRest ==
  ASSUME TypeOK, BatchInv, Tidy, NEW p \in Processes
  PROVE  /\ items[p] = <<>> => Unsettled(p) = {}
         /\ Unsettled(p) \subseteq 1..Len(items[p])
         /\ Dispatch(p) => Unsettled(p)' = 1..Len(items[p])
         /\ Finish(p) => Unsettled(p) = {}
<1>0. items[p] \in Seq(Items) /\ Len(items[p]) \in Nat /\ Len(items[p]) <= MaxCount
  BY DEF TypeOK
<1>1. items[p] = <<>> => Unsettled(p) = {}
  BY DEF Unsettled
<1>2. Unsettled(p) \subseteq 1..Len(items[p])
  BY DEF Unsettled
<1>3. ASSUME Dispatch(p) PROVE Unsettled(p)' = 1..Len(items[p])
  <2> DEFINE n == Len(items[p])
  <2>1. /\ loop'[p] = "processing" /\ items'[p] = items[p] /\ n > 0
        /\ \A b \in Batches : batch'[p][b] = IF b < BatchCount(n) THEN "handling" ELSE "over"
        /\ \A b \in Batches : sent'[p][b] = 0
    <3>1. \A b \in Batches : sent[p][b] = 0
      BY <1>3 DEF Dispatch, BatchInv, Tidy
    <3> QED
      BY <1>3, <3>1 DEF Dispatch, TypeOK
  <2>2. ASSUME NEW k \in 1..n PROVE k \in Unsettled(p)'
    <3>1. PICK b \in 0..(BatchCount(n) - 1) : k \in First(b)..Last(n, b)
      BY <1>0, BatchOf
    <3>2. BatchCount(n) \in Nat /\ BatchCount(n) <= DegreeOfParallelism
      BY <1>0, <2>1, BatchCountBounds, BatchCountLimit
    <3>3. b \in Batches /\ b < BatchCount(n)
      BY <3>2, WorkQueueAssumption DEF Batches
    <3>4. First(b) + sent'[p][b] = First(b)
      <4>1. First(b) \in Nat
        BY <1>0, <3>3, LastBound DEF Batches
      <4> QED
        BY <2>1, <3>3, <4>1
    <3> QED
      BY <2>1, <3>1, <3>3, <3>4 DEF Unsettled
  <2>3. Unsettled(p)' \subseteq 1..n
    BY <2>1 DEF Unsettled
  <2> QED
    BY <2>2, <2>3
<1>4. ASSUME Finish(p) PROVE Unsettled(p) = {}
  <2>1. loop[p] = "processing"
    BY <1>4 DEF Finish
  <2>2. ASSUME NEW b \in Batches, batch[p][b] \in {"handling", "acking"},
               NEW k \in (First(b) + sent[p][b])..Last(Len(items[p]), b)
        PROVE  FALSE
    <3>1. First(b) + sent[p][b] > Last(Len(items[p]), b)
      BY <1>4, <2>2 DEF Finish
    <3>2. First(b) + sent[p][b] \in Int /\ Last(Len(items[p]), b) \in Int
      BY BatchNumbers
    <3> QED
      BY <3>1, <3>2
  <2> QED
    BY <2>1, <2>2 DEF Unsettled
<1> QED
  BY <1>1, <1>2, <1>3, <1>4

\* SendAck settles exactly the item it comes to.
LEMMA Settles ==
  ASSUME TypeOK, BatchInv, NEW p \in Processes, NEW b \in Batches, SendAck(p, b)
  PROVE  LET k == First(b) + sent[p][b] IN
         k \in Unsettled(p) /\ Unsettled(p)' = Unsettled(p) \ {k}
<1> DEFINE n == Len(items[p])
           k == First(b) + sent[p][b]
           From(c) == First(c) + sent[p][c]
           Live(c) == batch[p][c] \in {"handling", "acking"}
<1>1. /\ batch[p][b] = "acking" /\ k <= Last(n, b) /\ loop[p] = "processing"
      /\ loop'[p] = loop[p] /\ items'[p] = items[p] /\ batch'[p] = batch[p]
      /\ sent'[p][b] = sent[p][b] + 1
      /\ \A c \in Batches \ {b} : sent'[p][c] = sent[p][c]
  BY DEF SendAck, BatchInv, TypeOK
<1>2. n \in Nat /\ n > 0 /\ \A c \in Batches : Live(c) => c < BatchCount(n)
  BY <1>1 DEF TypeOK, BatchInv
<1>3. \A c \in Batches : /\ c \in Nat /\ First(c) \in Nat /\ Last(n, c) \in Nat
                         /\ sent[p][c] \in Nat
  BY BatchNumbers
<1>4. First(b) > 0 /\ Last(n, b) <= n
  BY <1>1, <1>2, <1>3, BatchWithin
<1>5. k \in 1..n /\ k \in From(b)..Last(n, b)
  BY <1>1, <1>2, <1>3, <1>4
<1>6. k \in Unsettled(p)
  BY <1>1, <1>5 DEF Unsettled
<1>7. ASSUME NEW c \in Batches \ {b}, Live(c) PROVE k \notin From(c)..Last(n, c)
  <2>1. c < BatchCount(n) /\ b < BatchCount(n)
    BY <1>1, <1>2, <1>7
  <2>2. /\ c \in Nat /\ b \in Nat /\ c # b
        /\ First(b) \in Nat /\ Last(n, b) \in Nat /\ sent[p][b] \in Nat
        /\ First(c) \in Nat /\ Last(n, c) \in Nat /\ sent[p][c] \in Nat
    BY <1>3, <1>7
  <2>3. First(b) + sent[p][b] <= Last(n, b)
    BY <1>1
  <2>4. SUFFICES ~(First(b) + sent[p][b] \in (First(c) + sent[p][c])..Last(n, c))
    OBVIOUS
  <2>5. CASE b < c
    <3>1. Last(n, b) < First(c)
      BY <1>2, <1>3, <2>1, <2>5, BatchOrder
    <3> HIDE DEF n
    <3> QED
      BY ONLY <2>2, <2>3, <3>1
  <2>6. CASE c < b
    <3>1. Last(n, c) < First(b)
      BY <1>2, <1>3, <2>1, <2>6, BatchOrder
    <3> HIDE DEF n
    <3> QED
      BY ONLY <2>2, <2>3, <3>1
  <2> QED
    BY ONLY <2>2, <2>5, <2>6
<1>8. ASSUME NEW j \in 1..n
      PROVE  j \in Unsettled(p)' <=> j \in Unsettled(p) \ {k}
  <2>1. j \in Unsettled(p) <=> \E c \in Batches : j \in From(c)..Last(n, c) /\ Live(c)
    BY <1>1 DEF Unsettled
  <2>2. j \in Unsettled(p)' <=>
          \E c \in Batches : j \in (First(c) + sent'[p][c])..Last(n, c) /\ Live(c)
    BY <1>1 DEF Unsettled
  <2>3. \A c \in Batches \ {b} : (First(c) + sent'[p][c])..Last(n, c) = From(c)..Last(n, c)
    BY <1>1
  <2>4. (First(b) + sent'[p][b])..Last(n, b) = (From(b)..Last(n, b)) \ {k}
    <3>1. First(b) \in Nat /\ sent[p][b] \in Nat /\ Last(n, b) \in Nat
          /\ sent'[p][b] = sent[p][b] + 1
      BY <1>1, <1>3
    <3> HIDE DEF n
    <3> QED
      BY ONLY <3>1
  <2> QED
    BY <1>7, <2>1, <2>2, <2>3, <2>4
<1>9. Unsettled(p) \subseteq 1..n /\ Unsettled(p)' \subseteq 1..n
  BY <1>1 DEF Unsettled
<1> QED
  BY <1>6, <1>8, <1>9

\* The step is p's own.
OthersRest(p) ==
  \A q \in Processes \ {p} :
    /\ life'[q] = life[q] /\ unacked'[q] = unacked[q]
    /\ loop'[q] = loop[q] /\ items'[q] = items[q] /\ batch'[q] = batch[q]
    /\ sent'[q] = sent[q] /\ buffer'[q] = buffer[q] /\ arriving'[q] = arriving[q]

LEMMA OthersUnmoved ==
  ASSUME NEW p \in Processes, OthersRest(p), NEW q \in Processes \ {p}
  PROVE  /\ HasChannel(q)' <=> HasChannel(q)
         /\ Known(q)' = Known(q)
         /\ Once(q) => Once(q)'
         /\ unacked'[q] = unacked[q]
<1>1. Known(q)' = Known(q) /\ (Once(q) => Once(q)')
  BY LeftAlone DEF OthersRest
<1> QED
  BY <1>1 DEF OthersRest, HasChannel

LEMMA ProcessesRest ==
  \A p \in Processes : Process(p) /\ TypeOK => OthersRest(p)
<1> SUFFICES ASSUME NEW p \in Processes, Process(p), TypeOK PROVE OthersRest(p)
  OBVIOUS
<1> USE DEF OthersRest, TypeOK, brokerVars, dispatcherVars, counters
<1>1. CASE Observe(p) \/ Subscribe(p) \/ Stop(p)
  BY <1>1 DEF Observe, Subscribe, Stop
<1>2. CASE Close(p)
  BY <1>2 DEF Close, CloseChannel
<1>3. CASE Exit(p)
  <2>1. UNCHANGED unacked \/ unacked' = [unacked EXCEPT ![p] = {}]
    BY ONLY <1>3 DEF Exit, CloseChannel, brokerVars
  <2> QED
    BY <1>3, <2>1 DEF Exit
<1>4. ASSUME NEW i \in Items, Deliver(p, i) PROVE OthersRest(p)
  BY <1>4 DEF Deliver
<1>5. CASE OnNext(p)
  <2>1. \A q \in Processes \ {p} : buffer'[q] = buffer[q] /\ unacked'[q] = unacked[q]
    <3>1. CASE Len(buffer[p]) < BufferSize
      BY <1>5, <3>1 DEF OnNext
    <3>2. CASE ~(Len(buffer[p]) < BufferSize)
      BY <1>5, <3>2 DEF OnNext, BasicNack
    <3> QED
      BY <3>1, <3>2
  <2> QED
    BY <1>5, <2>1 DEF OnNext
<1>6. CASE RunAsync(p)
  BY <1>6 DEF RunAsync, BeginBatch, Collect, Cancel, Dispatch, Finish
<1>7. ASSUME NEW b \in Batches, ProcessBatch(p, b) PROVE OthersRest(p)
  <2>1. CASE (\E i \in Items : MarkDone(p, b, i)) \/ Return(p, b) \/ Abort(p, b)
    BY <2>1 DEF MarkDone, Return, Abort
  <2>2. CASE SendAck(p, b)
    <3>1. \A q \in Processes \ {p} : unacked'[q] = unacked[q]
      BY <2>2 DEF SendAck, BasicAck, BasicNack
    <3> QED
      BY <2>2, <3>1 DEF SendAck
  <2> QED
    BY <1>7, <2>1, <2>2 DEF ProcessBatch
<1> QED
  BY <1>1, <1>2, <1>3, <1>4, <1>5, <1>6, <1>7 DEF Process

\* What it takes of a step of p that brings p nothing new.
LEMMA OwnStep ==
  ASSUME OneHandler, NEW p \in Processes, OthersRest(p),
         posted' = posted, ready' \ ready \subseteq unacked[p],
         unacked'[p] \subseteq unacked[p],
         HasChannel(p)' =>
           /\ HasChannel(p) \/ Known(p) \subseteq {NoItem}
           /\ Once(p)'
           /\ Known(p)' \subseteq Known(p) \union {NoItem}
           /\ \A i \in Known(p)' \ {NoItem} : i \notin ready' \ ready
  PROVE  OneHandler'
<1>1. ASSUME NEW q \in Processes, HasChannel(q)' PROVE Once(q)'
  <2>1. CASE q = p
    BY <1>1, <2>1
  <2>2. CASE q # p
    BY <1>1, <2>2, OthersUnmoved DEF OneHandler
  <2> QED
    BY <2>1, <2>2
<1>2. ASSUME NEW q \in Processes, HasChannel(q)'
      PROVE  /\ HasChannel(q) \/ Known(q) \subseteq {NoItem}
             /\ Known(q)' \subseteq Known(q) \union {NoItem}
             /\ \A i \in Known(q)' \ {NoItem} :
                  /\ i \notin ready' \ ready
                  /\ \A r \in Processes \ {q} : i \notin unacked'[r] \ unacked[r]
  <2>0. \A r \in Processes : unacked'[r] \subseteq unacked[r]
    BY OthersUnmoved
  <2>1. CASE q = p
    BY <1>2, <2>0, <2>1
  <2>2. CASE q # p
    <3>1. HasChannel(q) /\ Known(q)' = Known(q) /\ Apart(q)
      BY <1>2, <2>2, OthersUnmoved DEF OneHandler
    <3>2. \A i \in Known(q) \ {NoItem} : i \notin unacked[p]
      BY <2>2, <3>1 DEF Apart
    <3> QED
      BY <2>0, <3>1, <3>2
  <2> QED
    BY <2>1, <2>2
<1>3. \A q \in Processes : HasChannel(q)' => Apart(q)'
  BY <1>2, ApartStep
<1> QED
  BY <1>1, <1>3 DEF OneHandler

LEMMA OneHandlerInit == Init => OnePlace /\ Tidy /\ OneHandler
<1> SUFFICES ASSUME Init PROVE OnePlace /\ Tidy /\ OneHandler
  OBVIOUS
<1>1. OnePlace
  BY DEF Init, OnePlace
<1>2. Tidy
  BY DEF Init, Tidy
<1>3. OneHandler
  BY DEF Init, OneHandler, HasChannel
<1> QED
  BY <1>1, <1>2, <1>3

\* TryRead moves an item; nothing is lost and nothing doubled.
LEMMA CollectMoves ==
  ASSUME TypeOK, NEW p \in Processes, Collect(p)
  PROVE  Known(p)' = Known(p) /\ (Once(p) => Once(p)')
<1> DEFINE n == Len(items[p])
           m == Len(buffer[p])
<1>1. items[p] \in Seq(Items) /\ buffer[p] \in Seq(Items) /\ buffer[p] # <<>>
  BY DEF TypeOK, Collect
<1>2. /\ items'[p] = Append(items[p], Head(buffer[p])) /\ buffer'[p] = Tail(buffer[p])
      /\ loop[p] = "collecting" /\ loop'[p] = "collecting" /\ arriving'[p] = arriving[p]
  BY DEF TypeOK, Collect
<1>3. /\ n \in Nat /\ m \in Nat /\ m > 0
      /\ Len(items'[p]) = n + 1 /\ Len(buffer'[p]) = m - 1
      /\ items'[p][n + 1] = buffer[p][1]
      /\ \A k \in 1..n : items'[p][k] = items[p][k]
      /\ \A k \in 1..(m - 1) : buffer'[p][k] = buffer[p][k + 1]
  BY <1>1, <1>2
<1>4. Unsettled(p) = 1..n /\ Unsettled(p)' = 1..(n + 1)
  BY <1>2, <1>3 DEF Unsettled
<1> HIDE DEF n, m
<1>5. Known(p)' = Known(p)
  <2>1. {items'[p][k] : k \in 1..(n + 1)} = {items[p][k] : k \in 1..n} \union {buffer[p][1]}
    <3>1. \A k \in 1..(n + 1) : k = n + 1 \/ k \in 1..n
      BY <1>3
    <3>2. n + 1 \in 1..(n + 1) /\ \A k \in 1..n : k \in 1..(n + 1)
      BY <1>3
    <3>3. items'[p][n + 1] = buffer[p][1] /\ \A k \in 1..n : items'[p][k] = items[p][k]
      BY <1>3
    <3> QED
      BY ONLY <3>1, <3>2, <3>3
  <2>2. {buffer[p][k] : k \in 1..m} = {buffer'[p][k] : k \in 1..(m - 1)} \union {buffer[p][1]}
    <3>1. ASSUME NEW k \in 1..m PROVE k = 1 \/ \E j \in 1..(m - 1) : buffer[p][k] = buffer'[p][j]
      <4>1. k = 1 \/ (k - 1 \in 1..(m - 1) /\ k = (k - 1) + 1)
        BY <1>3
      <4> QED
        BY <1>3, <4>1
    <3>2. ASSUME NEW j \in 1..(m - 1) PROVE j + 1 \in 1..m /\ buffer'[p][j] = buffer[p][j + 1]
      BY <1>3
    <3>3. 1 \in 1..m
      BY <1>3
    <3>4. buffer[p][1] \in {buffer[p][k] : k \in 1..m}
      BY <3>3
    <3>5. {buffer[p][k] : k \in 1..m} \subseteq
            {buffer'[p][k] : k \in 1..(m - 1)} \union {buffer[p][1]}
      BY ONLY <3>1
    <3>6. {buffer'[p][k] : k \in 1..(m - 1)} \subseteq {buffer[p][k] : k \in 1..m}
      BY ONLY <3>2
    <3> QED
      BY ONLY <3>4, <3>5, <3>6
  <2>3. Known(p) = {arriving[p]} \union {buffer[p][k] : k \in 1..m}
                     \union {items[p][k] : k \in 1..n}
    BY <1>4 DEF Known, m
  <2>4. Known(p)' = {arriving[p]} \union {buffer'[p][k] : k \in 1..(m - 1)}
                      \union {items'[p][k] : k \in 1..(n + 1)}
    BY <1>2, <1>3, <1>4 DEF Known
  <2> QED
    BY <2>1, <2>2, <2>3, <2>4
<1>6. ASSUME Once(p) PROVE Once(p)'
  <2>0. /\ 1 \in 1..m /\ n + 1 \notin 1..n
        /\ \A k \in 1..(n + 1) : k = n + 1 \/ k \in 1..n
        /\ items'[p][n + 1] = buffer[p][1]
        /\ \A k \in 1..n : items'[p][k] = items[p][k]
    BY <1>3
  <2>00. ASSUME NEW j \in 1..(m - 1)
         PROVE  j \in Int /\ j + 1 \in 1..m /\ j + 1 # 1 /\ buffer'[p][j] = buffer[p][j + 1]
    <3>1. j \in Int /\ j >= 1 /\ j <= m - 1 /\ m \in Int
      BY <1>3
    <3>2. j \in Int /\ j + 1 \in 1..m /\ j + 1 # 1
      BY ONLY <3>1
    <3> QED
      BY <1>3, <3>2
  <2>1. \A j \in 1..m : buffer[p][j] # arriving[p]
    BY <1>6 DEF Once, m
  <2>2. \A j, k \in 1..m : buffer[p][j] = buffer[p][k] => j = k
    BY <1>6 DEF Once, m
  <2>3. \A j \in 1..m, k \in 1..n : buffer[p][j] # items[p][k]
    BY <1>4, <1>6 DEF Once, m
  <2>4. \A j \in 1..n : items[p][j] # arriving[p]
    BY <1>4, <1>6 DEF Once
  <2>5. \A j, k \in 1..n : items[p][j] = items[p][k] => j = k
    BY <1>4, <1>6 DEF Once
  <2>6. ASSUME NEW j \in 1..(m - 1)
        PROVE  /\ buffer'[p][j] # arriving[p]
               /\ \A k \in 1..(m - 1) : buffer'[p][j] = buffer'[p][k] => j = k
               /\ \A k \in 1..(n + 1) : buffer'[p][j] # items'[p][k]
    <3>2. ASSUME NEW k \in 1..(m - 1), buffer'[p][j] = buffer'[p][k] PROVE j = k
      <4>1. j + 1 = k + 1
        BY ONLY <2>2, <2>00, <3>2
      <4> QED
        BY ONLY <2>00, <4>1
    <3>3. ASSUME NEW k \in 1..(n + 1) PROVE buffer'[p][j] # items'[p][k]
      <4>1. CASE k = n + 1
        <5>1. buffer[p][j + 1] # buffer[p][1]
          BY ONLY <2>0, <2>00, <2>2
        <5> QED
          BY ONLY <2>0, <2>00, <4>1, <5>1
      <4>2. CASE k \in 1..n
        BY ONLY <2>0, <2>00, <2>3, <4>2
      <4> QED
        BY ONLY <2>0, <4>1, <4>2
    <3>4. buffer'[p][j] # arriving[p]
      BY ONLY <2>00, <2>1
    <3> QED
      BY ONLY <3>2, <3>3, <3>4
  <2>7. ASSUME NEW j \in 1..(n + 1)
        PROVE  /\ items'[p][j] # arriving[p]
               /\ \A k \in 1..(n + 1) : items'[p][j] = items'[p][k] => j = k
    <3>2. items'[p][j] # arriving[p]
      BY ONLY <2>0, <2>1, <2>4
    <3>3. ASSUME NEW k \in 1..(n + 1), items'[p][j] = items'[p][k] PROVE j = k
      <4>1. CASE j \in 1..n /\ k \in 1..n
        BY ONLY <2>0, <2>5, <3>3, <4>1
      <4>2. CASE j = n + 1 /\ k \in 1..n
        BY ONLY <2>0, <2>3, <3>3, <4>2
      <4>3. CASE j \in 1..n /\ k = n + 1
        BY ONLY <2>0, <2>3, <3>3, <4>3
      <4> QED
        BY ONLY <2>0, <4>1, <4>2, <4>3
    <3> QED
      BY <3>2, <3>3
  <2> QED
    <3>1. /\ Len(buffer'[p]) = m - 1 /\ arriving'[p] = arriving[p]
          /\ Unsettled(p)' = 1..(n + 1)
      BY <1>2, <1>3, <1>4
    <3> QED
      BY ONLY <2>6, <2>7, <3>1 DEF Once
<1> QED
  BY <1>5, <1>6

\* The dispatcher's loop learns of nothing, and forgets only what it is told to.
LEMMA LoopKeeps ==
  ASSUME TypeOK, BatchInv, Tidy, NEW p \in Processes, RunAsync(p)
  PROVE  /\ Known(p)' \subseteq Known(p)
         /\ ~Cancelled(p) => Known(p)' = Known(p)
         /\ Once(p) => Once(p)'
<1>1. CASE BeginBatch(p)
  <2>1. /\ items[p] = <<>> /\ items'[p] = items[p]
        /\ buffer'[p] = buffer[p] /\ arriving'[p] = arriving[p]
    BY <1>1 DEF BeginBatch, Tidy
  <2>2. Unsettled(p) = {} /\ Unsettled(p)' = {}
    BY <2>1 DEF Unsettled
  <2> QED
    BY <2>1, <2>2, Fewer
<1>2. CASE Collect(p)
  BY <1>2, CollectMoves
<1>3. CASE Cancel(p)
  <2>1. /\ items'[p] = items[p] /\ buffer'[p] = buffer[p] /\ arriving'[p] = arriving[p]
        /\ Cancelled(p) /\ loop[p] \in {"waiting", "collecting"}
        /\ loop'[p] = "ended"
    BY <1>3 DEF Cancel, TypeOK
  <2>2. Unsettled(p)' \subseteq 1..Len(items[p])
    BY <2>1 DEF Unsettled
  <2>3. CASE loop[p] = "waiting"
    <3>1. Unsettled(p)' = {}
      BY <2>2, <2>3 DEF Tidy
    <3> QED
      BY <2>1, <3>1, Fewer
  <2>4. CASE loop[p] = "collecting"
    <3>1. Unsettled(p) = 1..Len(items[p])
      BY <2>4 DEF Unsettled
    <3> QED
      BY <2>1, <2>2, <3>1, Fewer
  <2> QED
    BY <2>1, <2>3, <2>4
<1>4. CASE Dispatch(p)
  <2>1. /\ items'[p] = items[p] /\ buffer'[p] = buffer[p] /\ arriving'[p] = arriving[p]
        /\ loop[p] = "collecting"
    BY <1>4 DEF Dispatch
  <2>2. Unsettled(p) = 1..Len(items[p]) /\ Unsettled(p)' = 1..Len(items[p])
    BY <1>4, <2>1, UnsettledAtRest DEF Unsettled
  <2> QED
    BY <2>1, <2>2, Fewer
<1>5. CASE Finish(p)
  <2>1. items'[p] = <<>> /\ buffer'[p] = buffer[p] /\ arriving'[p] = arriving[p]
    BY <1>5 DEF Finish, TypeOK
  <2>2. Unsettled(p) = {}
    BY <1>5, UnsettledAtRest
  <2>3. Unsettled(p)' = {}
    BY <2>1 DEF Unsettled
  <2> QED
    BY <2>1, <2>2, <2>3 DEF Known, Once
<1> QED
  BY <1>1, <1>2, <1>3, <1>4, <1>5 DEF RunAsync

\* A batch gives up what its SendAck settles, and no more unless it is aborted.
LEMMA BatchKeeps ==
  ASSUME TypeOK, BatchInv, NEW p \in Processes, Once(p), NEW b \in Batches
  PROVE  /\ ProcessBatch(p, b) => Known(p)' \subseteq Known(p) /\ Once(p)'
         /\ (\E i \in Items : MarkDone(p, b, i)) \/ Return(p, b) => Known(p)' = Known(p)
         /\ SendAck(p, b) =>
              /\ NextToSettle(p, b) \notin Known(p)'
              /\ Known(p) \subseteq Known(p)' \union {NextToSettle(p, b)}
<1>1. ASSUME NEW i \in Items, MarkDone(p, b, i) PROVE Known(p)' = Known(p) /\ Once(p)'
  BY <1>1, LeftAlone DEF MarkDone
<1>2. ASSUME Return(p, b) PROVE Known(p)' = Known(p) /\ Once(p)'
  <2>1. /\ items'[p] = items[p] /\ buffer'[p] = buffer[p] /\ arriving'[p] = arriving[p]
        /\ loop'[p] = loop[p] /\ sent'[p] = sent[p]
    BY <1>2 DEF Return
  <2>2. \A c \in Batches :
          batch'[p][c] \in {"handling", "acking"} <=> batch[p][c] \in {"handling", "acking"}
    BY <1>2 DEF Return, TypeOK
  <2>3. Unsettled(p)' = Unsettled(p)
    BY <2>1, <2>2 DEF Unsettled
  <2> QED
    BY <2>1, <2>3, Fewer
<1>3. ASSUME Abort(p, b) PROVE Known(p)' \subseteq Known(p) /\ Once(p)'
  <2>1. /\ items'[p] = items[p] /\ buffer'[p] = buffer[p] /\ arriving'[p] = arriving[p]
        /\ loop'[p] = loop[p] /\ sent'[p] = sent[p]
    BY <1>3 DEF Abort
  <2>2. \A c \in Batches :
          batch'[p][c] \in {"handling", "acking"} => batch[p][c] \in {"handling", "acking"}
    BY <1>3 DEF Abort, TypeOK
  <2>3. Unsettled(p)' \subseteq Unsettled(p)
    BY <2>1, <2>2 DEF Unsettled
  <2> QED
    BY <2>1, <2>3, Fewer
<1>4. ASSUME SendAck(p, b)
      PROVE  /\ Known(p)' \subseteq Known(p) /\ Once(p)'
             /\ NextToSettle(p, b) \notin Known(p)'
             /\ Known(p) \subseteq Known(p)' \union {NextToSettle(p, b)}
  <2>1. items'[p] = items[p] /\ buffer'[p] = buffer[p] /\ arriving'[p] = arriving[p]
    BY <1>4 DEF SendAck
  <2>2. PICK k \in Unsettled(p) :
          NextToSettle(p, b) = items[p][k] /\ Unsettled(p)' = Unsettled(p) \ {k}
    BY <1>4, Settles DEF NextToSettle
  <2>3. Known(p)' \subseteq Known(p) /\ Once(p)'
    BY <2>1, <2>2, Fewer
  <2>4. items[p][k] \notin Known(p)'
    <3>1. \A j \in Unsettled(p)' : items[p][j] # items[p][k]
      BY <2>2 DEF Once
    <3>2. items[p][k] # arriving[p] /\ \A j \in 1..Len(buffer[p]) : buffer[p][j] # items[p][k]
      BY <2>2 DEF Once
    <3> QED
      BY <2>1, <3>1, <3>2 DEF Known
  <2>5. Known(p) \subseteq Known(p)' \union {items[p][k]}
    BY <2>1, <2>2 DEF Known
  <2> QED
    BY <2>2, <2>3, <2>4, <2>5
<1> QED
  BY <1>1, <1>2, <1>3, <1>4 DEF ProcessBatch

\* What is not marked as read goes into the buffer or back to the broker.
LEMMA OnNextKeeps ==
  ASSUME TypeOK, NEW p \in Processes, Once(p), OnNext(p)
  PROVE  /\ Once(p)' /\ Known(p)' \subseteq Known(p) \union {NoItem}
         /\ arriving[p] \in Items
         /\ \/ UNCHANGED brokerVars /\ Known(p) \subseteq Known(p)'
            \/ /\ BasicNack(p, arriving[p]) /\ arriving[p] \notin Known(p)'
               /\ Known(p) \subseteq Known(p)' \union {arriving[p]}
<1> DEFINE m == Len(buffer[p])
           a == arriving[p]
<1>1. /\ a \in Items /\ a # NoItem /\ arriving'[p] = NoItem
      /\ items'[p] = items[p] /\ buffer[p] \in Seq(Items) /\ m \in Nat
      /\ loop'[p] = loop[p] /\ batch'[p] = batch[p] /\ sent'[p] = sent[p]
  BY DEF OnNext, TypeOK
<1>2. Unsettled(p)' = Unsettled(p)
  BY <1>1 DEF Unsettled
<1>3. /\ \A j \in 1..m : buffer[p][j] \in Items /\ buffer[p][j] # NoItem
      /\ \A k \in Unsettled(p) : items[p][k] \in Items /\ items[p][k] # NoItem
  <2>1. Unsettled(p) \subseteq 1..Len(items[p])
    BY DEF Unsettled
  <2> QED
    BY <1>1, <2>1, WorkQueueAssumption DEF TypeOK
<1>4. CASE m < BufferSize
  <2>1. buffer'[p] = Append(buffer[p], a) /\ UNCHANGED brokerVars
    BY <1>4 DEF OnNext, TypeOK
  <2>2. /\ Len(buffer'[p]) = m + 1 /\ buffer'[p][m + 1] = a
        /\ \A k \in 1..m : buffer'[p][k] = buffer[p][k]
        /\ \A k \in 1..(m + 1) : k = m + 1 \/ k \in 1..m
        /\ \A k \in 1..m : k \in 1..(m + 1)
        /\ m + 1 \in 1..(m + 1)
    BY <1>1, <2>1
  <2> HIDE DEF m, a
  <2>3. {buffer'[p][k] : k \in 1..(m + 1)} = {buffer[p][k] : k \in 1..m} \union {a}
    BY <2>2
  <2>4. Known(p) = {a} \union {buffer[p][k] : k \in 1..m}
                     \union {items[p][k] : k \in Unsettled(p)}
    BY DEF Known, m, a
  <2>5. Known(p)' = {NoItem} \union {buffer'[p][k] : k \in 1..(m + 1)}
                      \union {items[p][k] : k \in Unsettled(p)}
    BY <1>1, <1>2, <2>2 DEF Known
  <2>6. /\ \A j \in 1..m : buffer[p][j] # a
        /\ \A j, k \in 1..m : buffer[p][j] = buffer[p][k] => j = k
        /\ \A j \in 1..m, k \in Unsettled(p) : buffer[p][j] # items[p][k]
        /\ \A k \in Unsettled(p) : items[p][k] # a
        /\ \A j, k \in Unsettled(p) : items[p][j] = items[p][k] => j = k
    BY DEF Once, m, a
  <2>7. \A j \in 1..(m + 1) :
          /\ buffer'[p][j] # NoItem
          /\ \A k \in 1..(m + 1) : buffer'[p][j] = buffer'[p][k] => j = k
          /\ \A k \in Unsettled(p) : buffer'[p][j] # items[p][k]
    <3> SUFFICES ASSUME NEW j \in 1..(m + 1)
                 PROVE  /\ buffer'[p][j] # NoItem
                        /\ \A k \in 1..(m + 1) : buffer'[p][j] = buffer'[p][k] => j = k
                        /\ \A k \in Unsettled(p) : buffer'[p][j] # items[p][k]
      OBVIOUS
    <3>1. a # NoItem
      BY <1>1 DEF a
    <3>2. \A k \in 1..m : buffer[p][k] # NoItem
      BY <1>3 DEF m
    <3>3. CASE j = m + 1
      BY ONLY <2>2, <2>6, <3>1, <3>3
    <3>4. CASE j # m + 1
      <4>1. j \in 1..m /\ buffer'[p][j] = buffer[p][j]
        BY ONLY <2>2, <3>4
      <4> QED
        BY ONLY <2>2, <2>6, <3>2, <4>1
    <3> QED
      BY ONLY <3>3, <3>4
  <2>8. Once(p)'
    BY <1>1, <1>2, <1>3, <2>2, <2>6, <2>7 DEF Once
  <2> QED
    BY <1>1, <2>1, <2>3, <2>4, <2>5, <2>8 DEF a
<1>5. CASE ~(m < BufferSize)
  <2>1. buffer'[p] = buffer[p] /\ BasicNack(p, a)
    BY <1>5 DEF OnNext
  <2>2. Once(p)'
    BY <1>1, <1>2, <1>3, <2>1 DEF Once
  <2>3. a \notin Known(p)' /\ Known(p)' \subseteq Known(p) \union {NoItem}
    BY <1>1, <1>2, <2>1 DEF Known, Once
  <2>4. Known(p) \subseteq Known(p)' \union {a}
    BY <1>1, <1>2, <2>1 DEF Known
  <2> QED
    BY <1>1, <2>1, <2>2, <2>3, <2>4
<1> QED
  BY <1>4, <1>5

LEMMA ChannelChanges ==
  ASSUME TypeOK, NEW p \in Processes, NEW i \in Items
  PROVE  /\ CloseChannel(p) => /\ posted' = posted /\ ready' \ ready \subseteq unacked[p]
                               /\ unacked'[p] = {}
         /\ BasicAck(p, i) => /\ posted' = posted /\ ready' = ready
                              /\ unacked'[p] \subseteq unacked[p]
                              /\ HasChannel(p) => unacked'[p] = unacked[p] \ {i}
         /\ BasicNack(p, i) => /\ posted' = posted /\ unacked'[p] \subseteq unacked[p]
                               /\ ready' \ ready \subseteq unacked[p] \intersect {i}
                               /\ HasChannel(p) => unacked'[p] = unacked[p] \ {i}
<1>1. ASSUME CloseChannel(p)
      PROVE  posted' = posted /\ ready' \ ready \subseteq unacked[p] /\ unacked'[p] = {}
  BY <1>1 DEF CloseChannel, TypeOK
<1>2. ASSUME BasicAck(p, i)
      PROVE  /\ posted' = posted /\ ready' = ready
             /\ unacked'[p] \subseteq unacked[p]
             /\ HasChannel(p) => unacked'[p] = unacked[p] \ {i}
  <2>1. CASE HasChannel(p) /\ i \in unacked[p]
    BY <1>2, <2>1 DEF BasicAck, TypeOK
  <2>2. CASE ~(HasChannel(p) /\ i \in unacked[p])
    BY <1>2, <2>2 DEF BasicAck
  <2> QED
    BY <2>1, <2>2
<1>3. ASSUME BasicNack(p, i)
      PROVE  /\ posted' = posted /\ unacked'[p] \subseteq unacked[p]
             /\ ready' \ ready \subseteq unacked[p] \intersect {i}
             /\ HasChannel(p) => unacked'[p] = unacked[p] \ {i}
  <2>1. CASE HasChannel(p) /\ i \in unacked[p]
    BY <1>3, <2>1 DEF BasicNack, TypeOK
  <2>2. CASE ~(HasChannel(p) /\ i \in unacked[p])
    BY <1>3, <2>2 DEF BasicNack
  <2> QED
    BY <2>1, <2>2
<1> QED
  BY <1>1, <1>2, <1>3

\* The invariant is kept by everything a process does.
LEMMA OneHandlerProcess ==
  ASSUME TypeOK, BatchInv, Tidy, OnePlace, OneHandler, NEW p \in Processes, Process(p)
  PROVE  OneHandler'
<1> USE DEF brokerVars, dispatcherVars, counters
<1>0. OthersRest(p)
  BY ProcessesRest
<1>1. CASE Observe(p)
  <2>1. Unsettled(p) = {} /\ Known(p) = {NoItem}
    BY <1>1, UnsettledAtRest DEF Observe, Tidy, Known
  <2>2. /\ loop'[p] = loop[p] /\ items'[p] = items[p] /\ batch'[p] = batch[p]
        /\ sent'[p] = sent[p] /\ buffer'[p] = buffer[p] /\ arriving'[p] = arriving[p]
        /\ UNCHANGED <<posted, ready, unacked>>
    BY <1>1 DEF Observe
  <2>3. Unsettled(p)' = {} /\ Known(p)' = {NoItem}
    BY <2>1, <2>2, LeftAlone
  <2>4. Once(p)'
    <3>1. buffer'[p] = <<>>
      BY <1>1, <2>2 DEF Observe, Tidy
    <3> QED
      BY <2>3, <3>1 DEF Once
  <2> QED
    BY <1>0, <2>1, <2>2, <2>3, <2>4, OwnStep
<1>2. CASE Subscribe(p) \/ Stop(p)
  <2>1. /\ UNCHANGED <<posted, ready, unacked, arriving, buffer, loop, items, batch, sent>>
        /\ HasChannel(p)
    BY <1>2 DEF Subscribe, Stop, HasChannel
  <2>2. Once(p)' /\ Known(p)' = Known(p)
    BY <2>1, LeftAlone DEF OneHandler
  <2> QED
    BY <1>0, <2>1, <2>2, OwnStep
<1>3. CASE Close(p) \/ Exit(p)
  <2>1. ~HasChannel(p)'
    BY <1>3 DEF Close, Exit, HasChannel, TypeOK
  <2>2. UNCHANGED brokerVars \/ CloseChannel(p)
    BY ONLY <1>3 DEF Close, Exit
  <2>3. /\ posted' = posted /\ ready' \ ready \subseteq unacked[p]
        /\ unacked'[p] \subseteq unacked[p]
    <3>1. CASE UNCHANGED brokerVars
      BY <3>1
    <3>2. CASE CloseChannel(p)
      BY <3>2 DEF CloseChannel, TypeOK
    <3> QED
      BY <2>2, <3>1, <3>2
  <2> QED
    BY <1>0, <2>1, <2>3, OwnStep
<1>4. ASSUME NEW i \in Items, Deliver(p, i) PROVE OneHandler'
  <2>1. /\ HasChannel(p) /\ arriving[p] = NoItem /\ i \in ready /\ i # NoItem
        /\ ready' = ready \ {i} /\ unacked'[p] = unacked[p] \union {i} /\ posted' = posted
        /\ life' = life
        /\ UNCHANGED <<buffer, loop, items, batch, sent>>
        /\ arriving'[p] \in {NoItem, i}
    BY <1>4, WorkQueueAssumption DEF Deliver, TypeOK
  <2>2. \A q \in Processes : HasChannel(q)' <=> HasChannel(q)
    BY <2>1 DEF HasChannel
  <2>3. \A q \in Processes : HasChannel(q) => i \notin Known(q)
    BY <2>1 DEF OneHandler, Apart
  <2>4. \A q \in Processes \ {p} : Known(q)' = Known(q) /\ unacked'[q] = unacked[q]
    BY <1>0, OthersUnmoved
  <2>5. Unsettled(p)' = Unsettled(p) /\ Known(p)' \subseteq Known(p) \union {i}
    <3>1. Unsettled(p)' = Unsettled(p)
      BY <2>1 DEF Unsettled
    <3> QED
      BY <2>1, <3>1 DEF Known
  <2>6. ASSUME NEW q \in Processes, HasChannel(q)' PROVE Once(q)'
    <3>1. CASE q = p
      <4>1. Once(p) /\ i \notin Known(p)
        BY <2>1, <2>3 DEF OneHandler
      <4>2. /\ \A j \in 1..Len(buffer[p]) : buffer[p][j] # i
            /\ \A j \in Unsettled(p) : items[p][j] # i
        BY <4>1 DEF Known
      <4> QED
        BY <2>1, <2>5, <3>1, <4>1, <4>2 DEF Once
    <3>2. CASE q # p
      BY <1>0, <2>6, <3>2, OthersUnmoved DEF OneHandler
    <3> QED
      BY <3>1, <3>2
  <2>7. ASSUME NEW q \in Processes, HasChannel(q)', NEW j \in Known(q)' \ {NoItem}
        PROVE  /\ j \in posted' \ ready'
               /\ \A r \in Processes \ {q} :
                    j \notin unacked'[r] /\ (HasChannel(r)' => j \notin Known(r)')
    <3>1. HasChannel(q)
      BY <2>2, <2>7
    <3>2. CASE j \in Known(q) /\ j # i
      <4>1. /\ j \in posted \ ready
            /\ \A r \in Processes \ {q} : j \notin unacked[r] /\ (HasChannel(r) => j \notin Known(r))
        BY <3>1, <3>2, <2>7 DEF OneHandler, Apart
      <4>2. \A r \in Processes : /\ unacked'[r] \subseteq unacked[r] \union {i}
                                 /\ Known(r)' \subseteq Known(r) \union {i}
        BY <2>1, <2>4, <2>5
      <4> QED
        BY <2>1, <2>2, <3>2, <4>1, <4>2
    <3>3. CASE j = i
      <4>1. q = p
        BY <2>3, <2>4, <2>7, <3>1, <3>3
      <4>2. i \in posted' \ ready'
        BY <2>1 DEF OnePlace
      <4>3. ASSUME NEW r \in Processes \ {q}
            PROVE  i \notin unacked'[r] /\ (HasChannel(r)' => i \notin Known(r)')
        BY <2>1, <2>2, <2>3, <2>4, <4>1 DEF OnePlace
      <4> QED
        BY <3>3, <4>2, <4>3
    <3>4. j \in Known(q) \/ j = i
      BY <2>4, <2>5, <2>7
    <3> QED
      BY <2>7, <3>2, <3>3, <3>4
  <2> QED
    BY <2>6, <2>7 DEF OneHandler, Apart
<1>5. CASE OnNext(p)
  <2>1. ASSUME HasChannel(p)
        PROVE  Once(p)
    BY <2>1 DEF OneHandler
  <2>2. arriving[p] \in Items /\ (HasChannel(p)' <=> HasChannel(p))
    BY <1>5 DEF OnNext, TypeOK, HasChannel
  <2>3. UNCHANGED brokerVars \/ BasicNack(p, arriving[p])
    BY ONLY <1>5 DEF OnNext
  <2>4. /\ posted' = posted /\ ready' \ ready \subseteq unacked[p]
        /\ unacked'[p] \subseteq unacked[p]
    <3>1. CASE UNCHANGED brokerVars
      BY <3>1
    <3>2. CASE BasicNack(p, arriving[p])
      BY <2>2, <3>2, ChannelChanges
    <3> QED
      BY <2>3, <3>1, <3>2
  <2>5. ASSUME HasChannel(p)'
        PROVE  /\ HasChannel(p) /\ Once(p)' /\ Known(p)' \subseteq Known(p) \union {NoItem}
               /\ \A i \in Known(p)' \ {NoItem} : i \notin ready' \ ready
    <3>1. Once(p) /\ HasChannel(p)
      BY <2>1, <2>2, <2>5
    <3>2. ready' \ ready = {} \/ (ready' \ ready \subseteq {arriving[p]} /\ arriving[p] \notin Known(p)')
      BY <1>5, <2>2, <3>1, OnNextKeeps, ChannelChanges
    <3> QED
      BY <1>5, <3>1, <3>2, OnNextKeeps
  <2> QED
    BY <1>0, <2>4, <2>5, OwnStep
<1>6. CASE RunAsync(p)
  <2>1. /\ UNCHANGED <<posted, ready, unacked, life>>
    BY <1>6 DEF RunAsync, BeginBatch, Collect, Cancel, Dispatch, Finish
  <2>2. HasChannel(p)' <=> HasChannel(p)
    BY <2>1 DEF HasChannel
  <2>3. HasChannel(p) => Once(p)' /\ Known(p)' \subseteq Known(p)
    BY <1>6, LoopKeeps DEF OneHandler
  <2> QED
    BY <1>0, <2>1, <2>2, <2>3, OwnStep
<1>7. ASSUME NEW b \in Batches, ProcessBatch(p, b) PROVE OneHandler'
  <2>1. HasChannel(p)' <=> HasChannel(p)
    BY <1>7 DEF ProcessBatch, MarkDone, Return, Abort, SendAck, HasChannel
  <2>2. HasChannel(p) => Once(p)
    BY DEF OneHandler
  <2>3. HasChannel(p) => Once(p)' /\ Known(p)' \subseteq Known(p)
    BY <1>7, <2>2, BatchKeeps
  <2>4. CASE (\E i \in Items : MarkDone(p, b, i)) \/ Return(p, b) \/ Abort(p, b)
    <3>1. UNCHANGED <<posted, ready, unacked>>
      BY <2>4 DEF MarkDone, Return, Abort
    <3> QED
      BY <1>0, <2>1, <2>3, <3>1, OwnStep
  <2>5. CASE SendAck(p, b)
    <3> DEFINE i == NextToSettle(p, b)
    <3>1. i \in Items
      BY <2>5, NextIsItem
    <3>2. BasicAck(p, i) \/ BasicNack(p, i)
      BY ONLY <2>5 DEF SendAck
    <3> HIDE DEF i
    <3>3. /\ posted' = posted /\ unacked'[p] \subseteq unacked[p]
          /\ ready' \ ready \subseteq unacked[p] \intersect {i}
      BY <3>1, <3>2, ChannelChanges
    <3>4. HasChannel(p) => i \notin Known(p)'
      BY <2>2, <2>5, BatchKeeps DEF i
    <3> QED
      BY <1>0, <2>1, <2>3, <3>3, <3>4, OwnStep
  <2> QED
    BY <1>7, <2>4, <2>5 DEF ProcessBatch
<1> QED
  BY <1>1, <1>2, <1>3, <1>4, <1>5, <1>6, <1>7 DEF Process

LEMMA OneHandlerNext ==
  TypeOK /\ BatchInv /\ Tidy /\ OnePlace /\ OneHandler /\ [Next]_vars => OneHandler'
<1> SUFFICES ASSUME TypeOK, BatchInv, Tidy, OnePlace, OneHandler, [Next]_vars
             PROVE  OneHandler'
  OBVIOUS
<1> USE DEF brokerVars, dispatcherVars, counters
<1>1. ASSUME UNCHANGED <<life, dispatcherVars>>, posted \subseteq posted',
             \A i \in ready' \ ready : i \notin posted,
             \A q \in Processes : unacked'[q] \subseteq unacked[q]
      PROVE  OneHandler'
  <2>1. \A q \in Processes : /\ HasChannel(q)' <=> HasChannel(q)
                             /\ Known(q)' = Known(q)
                             /\ Once(q) => Once(q)'
    BY <1>1, LeftAlone DEF HasChannel
  <2>2. \A q \in Processes : HasChannel(q)' => Apart(q)'
    <3>1. \A q \in Processes : HasChannel(q) =>
            \A i \in Known(q) \ {NoItem} : i \notin ready' \ ready
      BY <1>1 DEF OneHandler, Apart
    <3> QED
      BY <1>1, <2>1, <3>1, ApartStep
  <2> QED
    BY <2>1, <2>2 DEF OneHandler
<1>2. CASE BrokerRestart
  BY <1>1, <1>2 DEF BrokerRestart
<1>3. ASSUME NEW i \in Items, Post(i) PROVE OneHandler'
  BY <1>1, <1>3 DEF Post
<1>4. CASE UNCHANGED vars
  BY <1>1, <1>4 DEF vars
<1> QED
  BY <1>2, <1>3, <1>4, OneHandlerProcess DEF Next

\* The invariant of the proofs about who has an item.
WorkInv == TypeOK /\ BatchInv /\ Tidy /\ OnePlace /\ OneHandler

LEMMA WorkInvariant == Spec => []WorkInv
<1>1. Init => WorkInv
  BY TypeInit, OneHandlerInit DEF WorkInv
<1>2. WorkInv /\ [Next]_vars => WorkInv'
  BY TypeNext, BatchInvNext, TidyNext, OnePlaceNext, OneHandlerNext DEF WorkInv
<1> QED
  BY <1>1, <1>2, PTL DEF Spec

LEMMA OneHandlerEach == WorkInv => HandledByOne
<1> SUFFICES ASSUME WorkInv, NEW p \in Processes, NEW q \in Processes,
                    HasChannel(p), HasChannel(q), NEW b \in Batches, NEW c \in Batches,
                    batch[p][b] = "handling", batch[q][c] = "handling"
             PROVE  /\ InBatch(p, b) \intersect ready = {}
                    /\ <<p, b>> # <<q, c>> => InBatch(p, b) \intersect InBatch(q, c) = {}
  BY DEF HandledByOne
<1>1. ASSUME NEW r \in Processes, NEW d \in Batches, batch[r][d] = "handling"
      PROVE  /\ d < BatchCount(Len(items[r])) /\ Len(items[r]) > 0
             /\ First(d)..Last(Len(items[r]), d) \subseteq Unsettled(r)
             /\ \A k \in Unsettled(r) : items[r][k] \in Items
  <2>1. /\ loop[r] = "processing" /\ sent[r][d] = 0 /\ d < BatchCount(Len(items[r]))
        /\ Len(items[r]) > 0
    BY <1>1 DEF WorkInv, BatchInv, Tidy
  <2>2. /\ d \in Nat /\ First(d) \in Nat /\ Last(Len(items[r]), d) \in Nat
        /\ Len(items[r]) \in Nat /\ First(d) + sent[r][d] = First(d)
    BY <2>1, BatchNumbers DEF WorkInv
  <2>3. First(d) > 0 /\ Last(Len(items[r]), d) <= Len(items[r])
    BY <2>1, <2>2, BatchWithin
  <2>4. First(d)..Last(Len(items[r]), d) \subseteq 1..Len(items[r])
    BY <2>2, <2>3
  <2>5. First(d)..Last(Len(items[r]), d) \subseteq Unsettled(r)
    BY <1>1, <2>1, <2>2, <2>4 DEF Unsettled
  <2>6. \A k \in 1..Len(items[r]) : items[r][k] \in Items
    <3>1. items[r] \in Seq(Items)
      BY DEF WorkInv, TypeOK
    <3> QED
      BY <3>1
  <2> QED
    BY <2>1, <2>5, <2>6, UnsettledAtRest DEF WorkInv
<1>2. InBatch(p, b) \subseteq Known(p) \ {NoItem} /\ InBatch(q, c) \subseteq Known(q) \ {NoItem}
  BY <1>1, WorkQueueAssumption DEF InBatch, Known
<1>3. InBatch(p, b) \intersect ready = {}
  BY <1>2 DEF WorkInv, OneHandler, Apart
<1>4. ASSUME <<p, b>> # <<q, c>> PROVE InBatch(p, b) \intersect InBatch(q, c) = {}
  <2>1. CASE p # q
    BY <1>2, <2>1 DEF WorkInv, OneHandler, Apart
  <2>2. CASE p = q
    <3> DEFINE n == Len(items[p])
    <3>1. b # c /\ b < BatchCount(n) /\ c < BatchCount(n)
      BY <1>1, <1>4, <2>2
    <3>2. /\ n \in Nat /\ b \in Nat /\ c \in Nat
          /\ First(b) \in Nat /\ First(c) \in Nat /\ Last(n, b) \in Nat /\ Last(n, c) \in Nat
      BY BatchNumbers DEF WorkInv
    <3>3. Last(n, b) < First(c) \/ Last(n, c) < First(b)
      <4>1. CASE b < c
        BY <3>1, <3>2, <4>1, BatchOrder
      <4>2. CASE c < b
        BY <3>1, <3>2, <4>2, BatchOrder
      <4> QED
        BY <3>1, <3>2, <4>1, <4>2
    <3>4. \A k \in First(b)..Last(n, b), j \in First(c)..Last(n, c) : k # j
      <4> HIDE DEF n
      <4> QED
        BY ONLY <3>2, <3>3
    <3>5. \A k \in First(b)..Last(n, b), j \in First(c)..Last(n, c) :
            k \in Unsettled(p) /\ j \in Unsettled(p)
      BY <1>1, <2>2
    <3>6. \A k, j \in Unsettled(p) : items[p][k] = items[p][j] => k = j
      BY DEF WorkInv, OneHandler, Once
    <3> QED
      BY <2>2, <3>4, <3>5, <3>6 DEF InBatch
  <2> QED
    BY <2>1, <2>2
<1> QED
  BY <1>3, <1>4

\* For all sizes and any number of processes, crashes and restarts of the broker: an
\* item is with one handler at a time among the processes that have their channels,
\* and the broker cannot hand it out meanwhile.
THEOREM ItemsAreHandledByOne == Spec => []HandledByOne
  BY WorkInvariant, OneHandlerEach, PTL

\* The set of a process's forgotten items grows, while it runs, only by what it cannot read.
LEMMA RemembersStep ==
  ASSUME WorkInv, [Next]_vars, NEW p \in Processes,
         life[p] = "running", life'[p] = "running"
  PROVE  Forgotten(p)' \subseteq Forgotten(p) \union Unreadable[p]
<1> USE DEF brokerVars, dispatcherVars, counters
<1>0. TypeOK /\ BatchInv /\ Tidy /\ HasChannel(p) /\ Once(p) /\ ~Cancelled(p)
  BY DEF WorkInv, OneHandler, HasChannel, Cancelled
<1>1. ASSUME Known(p) \subseteq Known(p)', unacked'[p] \subseteq unacked[p]
      PROVE  Forgotten(p)' \subseteq Forgotten(p)
  BY <1>1 DEF Forgotten
<1>2. CASE BrokerRestart \/ (\E i \in Items : Post(i)) \/ UNCHANGED vars
  <2>1. UNCHANGED dispatcherVars /\ unacked'[p] \subseteq unacked[p]
    BY <1>2 DEF BrokerRestart, Post, vars
  <2>2. Known(p)' = Known(p)
    BY <2>1, LeftAlone
  <2> QED
    BY <1>1, <2>1, <2>2
<1>3. ASSUME NEW q \in Processes \ {p}, Process(q)
      PROVE  Forgotten(p)' \subseteq Forgotten(p)
  <2>1. OthersRest(q)
    BY <1>0, <1>3, ProcessesRest
  <2> QED
    BY <1>1, <2>1, OthersUnmoved
<1>4. CASE Process(p)
  <2>1. CASE Observe(p) \/ Subscribe(p) \/ Stop(p) \/ Close(p) \/ Exit(p)
    <3>1. FALSE
      BY <1>0, <2>1 DEF Observe, Subscribe, Stop, Close, Exit, TypeOK
    <3> QED
      BY <3>1
  <2>2. ASSUME NEW i \in Items, Deliver(p, i)
        PROVE  Forgotten(p)' \subseteq Forgotten(p) \union Unreadable[p]
    <3>1. /\ UNCHANGED <<loop, items, batch, sent, buffer>>
          /\ arriving[p] = NoItem
          /\ unacked'[p] = unacked[p] \union {i}
      BY <1>0, <2>2 DEF Deliver, TypeOK
    <3>2. Unsettled(p)' = Unsettled(p)
      BY <3>1 DEF Unsettled
    <3>3. Known(p) \subseteq Known(p)' \union {NoItem}
      BY <3>1, <3>2 DEF Known
    <3>4. NoItem \notin unacked'[p] /\ NoItem \notin unacked[p]
      BY <1>0, <3>1, WorkQueueAssumption DEF TypeOK
    <3>5. CASE i \in Unreadable[p]
      BY <3>1, <3>3, <3>4, <3>5 DEF Forgotten
    <3>6. CASE i \notin Unreadable[p]
      <4>1. arriving'[p] = i
        BY <1>0, <2>2, <3>6 DEF Deliver, TypeOK
      <4>2. i \in Known(p)'
        BY <4>1 DEF Known
      <4> QED
        BY <3>1, <3>3, <3>4, <4>2 DEF Forgotten
    <3> QED
      BY <3>5, <3>6
  <2>3. CASE OnNext(p)
    <3>1. CASE UNCHANGED brokerVars /\ Known(p) \subseteq Known(p)'
      BY <1>1, <3>1
    <3>2. CASE /\ BasicNack(p, arriving[p])
               /\ Known(p) \subseteq Known(p)' \union {arriving[p]}
      <4>1. arriving[p] \in Items
        BY <1>0, <2>3, OnNextKeeps
      <4>2. unacked'[p] = unacked[p] \ {arriving[p]}
        BY <1>0, <3>2, <4>1, ChannelChanges
      <4> QED
        BY <3>2, <4>2 DEF Forgotten
    <3> QED
      BY <1>0, <2>3, <3>1, <3>2, OnNextKeeps
  <2>4. CASE RunAsync(p)
    <3>1. unacked' = unacked
      BY <2>4 DEF RunAsync, BeginBatch, Collect, Cancel, Dispatch, Finish
    <3> QED
      BY <1>0, <1>1, <2>4, <3>1, LoopKeeps
  <2>5. ASSUME NEW b \in Batches, ProcessBatch(p, b)
        PROVE  Forgotten(p)' \subseteq Forgotten(p)
    <3>1. CASE (\E i \in Items : MarkDone(p, b, i)) \/ Return(p, b)
      <4>1. unacked' = unacked
        BY <3>1 DEF MarkDone, Return
      <4> QED
        BY <1>0, <1>1, <3>1, <4>1, BatchKeeps
    <3>2. ~Abort(p, b)
      BY <1>0 DEF Abort
    <3>3. CASE SendAck(p, b)
      <4> DEFINE i == NextToSettle(p, b)
      <4>1. i \in Items
        BY <1>0, <3>3, NextIsItem
      <4>2. BasicAck(p, i) \/ BasicNack(p, i)
        BY ONLY <3>3 DEF SendAck
      <4>3. Known(p) \subseteq Known(p)' \union {i}
        BY <1>0, <3>3, BatchKeeps
      <4> HIDE DEF i
      <4>4. unacked'[p] = unacked[p] \ {i}
        BY <1>0, <4>1, <4>2, ChannelChanges
      <4> QED
        BY <4>3, <4>4 DEF Forgotten
    <3> QED
      BY <2>5, <3>1, <3>2, <3>3 DEF ProcessBatch
  <2> QED
    BY <1>4, <2>1, <2>2, <2>3, <2>4, <2>5 DEF Process
<1> QED
  BY <1>2, <1>3, <1>4 DEF Next

\* For all sizes: while a process runs, every item that it can read and owes the broker an
\* answer for stays in its buffer, its array or its batches until it gives that answer,
\* whatever fails or overflows.
THEOREM NothingIsForgotten == Spec => NeverForgets
<1>1. WorkInv /\ [Next]_vars =>
        [\A p \in Processes : life[p] = "running" /\ life'[p] = "running" =>
           Forgotten(p)' \subseteq Forgotten(p) \union Unreadable[p]]_vars
  BY RemembersStep
<1> QED
  BY <1>1, WorkInvariant, PTL DEF Spec, NeverForgets
=============================================================================
