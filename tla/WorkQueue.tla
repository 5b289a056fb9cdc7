----------------------------- MODULE WorkQueue -----------------------------
(***************************************************************************)
(* Distributed work queues: RabbitWorkQueue, the WorkItemSubject that      *)
(* feeds it from RabbitMQ, and the WorkItemDispatcher of one type of work  *)
(* item, in any number of competing processes.                             *)
(*                                                                         *)
(* In each process three threads meet: the channel's consumer (Deliver,    *)
(* OnNext), the dispatcher's loop with its parallel batches, and the host  *)
(* that starts and stops the service.  Between them are the bounded buffer *)
(* _itemQueue and the channel on which items are acknowledged.  There is   *)
(* no prefetch limit: the event bus's channel has no BasicQos.             *)
(*                                                                         *)
(* BatchTimeout is not a parameter.  With and without it the dispatcher    *)
(* goes on when it has all the items it can take, or has found the buffer  *)
(* empty and waits no longer.                                              *)
(***************************************************************************)
EXTENDS Integers, Sequences, FiniteSets

CONSTANTS
  Items,                \* work items, each posted once
  Processes,            \* processes with a handler for them
  Unreadable,           \* Unreadable[p]: items that p has no type for, or whose body it
                        \* cannot deserialize
  BufferSize,           \* WorkItemHandlerOptions
  BatchSize,
  DegreeOfParallelism,
  MaxStops,             \* bound: processes that crash or are stopped
  MaxRestarts,          \* bound: restarts of the broker
  MaxFailures           \* bound: handlers that return before all is done

NoItem == "no item"

ASSUME WorkQueueAssumption ==
  /\ NoItem \notin Items
  /\ Unreadable \in [Processes -> SUBSET Items]
  /\ BufferSize \in Nat \ {0}
  /\ BatchSize \in Nat \ {0}
  /\ DegreeOfParallelism \in Nat \ {0}
  /\ MaxStops \in Nat /\ MaxRestarts \in Nat /\ MaxFailures \in Nat

VARIABLES
  posted,      \* items that have been posted
  declared,    \* whether the durable queue exists
  ready,       \* items in the queue that are not handed out
  unacked,     \* unacked[p]: items handed to p's channel and not settled
  acked,       \* items the broker has forgotten on an acknowledgement
  life,        \* life[p]: the process, its subscription and its channel
  arriving,    \* arriving[p]: the item OnNext is called with
  buffer,      \* buffer[p]: _itemQueue
  loop,        \* loop[p]: where RunAsync stands
  items,       \* items[p]: the items it has read
  batch,       \* batch[p][b]: where ProcessBatchAsync number b stands
  sent,        \* sent[p][b]: how far its SendAck has come
  done,        \* done[p]: items read that are marked IsDone
  stops, restarts, failures

brokerVars == <<posted, declared, ready, unacked, acked>>
dispatcherVars == <<arriving, buffer, loop, items, batch, sent, done>>
counters == <<stops, restarts, failures>>
vars == <<brokerVars, life, dispatcherVars, counters>>

\* One batch more than there can be.
Batches == 0..DegreeOfParallelism

\* The length of the rented array that items[p] stands for.
MaxCount == BatchSize * DegreeOfParallelism

\* In particular neither the buffer nor the array overflows, and no SendAck goes
\* past the end of a batch.
TypeOK ==
  /\ posted \subseteq Items /\ acked \subseteq Items /\ ready \subseteq Items
  /\ declared \in BOOLEAN
  /\ unacked \in [Processes -> SUBSET Items]
  /\ life \in [Processes -> {"down", "consuming", "running", "stopping", "closed"}]
  /\ arriving \in [Processes -> Items \union {NoItem}]
  /\ buffer \in [Processes -> Seq(Items)]
  /\ \A p \in Processes : Len(buffer[p]) <= BufferSize
  /\ loop \in [Processes -> {"waiting", "collecting", "processing", "ended"}]
  /\ items \in [Processes -> Seq(Items)]
  /\ \A p \in Processes : Len(items[p]) <= MaxCount
  /\ batch \in [Processes -> [Batches -> {"handling", "acking", "aborted", "over"}]]
  /\ sent \in [Processes -> [Batches -> 0..BatchSize]]
  /\ done \in [Processes -> SUBSET Items]
  /\ stops \in 0..MaxStops /\ restarts \in 0..MaxRestarts /\ failures \in 0..MaxFailures

Init ==
  /\ posted = {} /\ declared = FALSE /\ ready = {} /\ acked = {}
  /\ unacked = [p \in Processes |-> {}]
  /\ life = [p \in Processes |-> "down"]
  /\ arriving = [p \in Processes |-> NoItem]
  /\ buffer = [p \in Processes |-> <<>>]
  /\ loop = [p \in Processes |-> "waiting"]
  /\ items = [p \in Processes |-> <<>>]
  /\ batch = [p \in Processes |-> [b \in Batches |-> "over"]]
  /\ sent = [p \in Processes |-> [b \in Batches |-> 0]]
  /\ done = [p \in Processes |-> {}]
  /\ stops = 0 /\ restarts = 0 /\ failures = 0
-----------------------------------------------------------------------------
(***************************************************************************)
(* RabbitMQ.                                                               *)
(***************************************************************************)

HasChannel(p) == life[p] \in {"consuming", "running", "stopping"}

\* BasicAck.  A tag the broker does not know any more was given before the
\* connection recovered, and the client library keeps it to itself.
BasicAck(p, i) ==
  LET known == HasChannel(p) /\ i \in unacked[p] IN
  /\ unacked' = IF known THEN [unacked EXCEPT ![p] = @ \ {i}] ELSE unacked
  /\ acked' = IF known THEN acked \union {i} ELSE acked
  /\ UNCHANGED <<posted, declared, ready>>

\* BasicNack with requeue.
BasicNack(p, i) ==
  LET known == HasChannel(p) /\ i \in unacked[p] IN
  /\ unacked' = IF known THEN [unacked EXCEPT ![p] = @ \ {i}] ELSE unacked
  /\ ready' = IF known THEN ready \union {i} ELSE ready
  /\ UNCHANGED <<posted, declared, acked>>

\* p's channel is closed: what it has not settled goes back.
CloseChannel(p) ==
  /\ unacked' = [unacked EXCEPT ![p] = {}]
  /\ ready' = ready \union unacked[p]
  /\ UNCHANGED <<posted, declared, acked>>

\* The queue is durable, but the items are posted with default properties, which
\* makes them transient.  The clients' connections recover, consumers included.
BrokerRestart ==
  /\ restarts < MaxRestarts
  /\ restarts' = restarts + 1
  /\ ready' = {}
  /\ unacked' = [p \in Processes |-> {}]
  /\ UNCHANGED <<posted, declared, acked, life, dispatcherVars, stops, failures>>

\* RabbitWorkQueue.Post: the exchange drops what no queue is bound for.
Post(i) ==
  /\ i \notin posted
  /\ posted' = posted \union {i}
  /\ ready' = IF declared THEN ready \union {i} ELSE ready
  /\ UNCHANGED <<declared, unacked, acked, life, dispatcherVars, counters>>
-----------------------------------------------------------------------------
(***************************************************************************)
(* The process.                                                            *)
(***************************************************************************)

\* Observe: declare the queue, bind it and start to consume ...
Observe(p) ==
  /\ life[p] = "down"
  /\ life' = [life EXCEPT ![p] = "consuming"]
  /\ declared' = TRUE
  /\ UNCHANGED <<posted, ready, unacked, acked, dispatcherVars, counters>>

\* ... and then Subscribe and run the dispatcher.
Subscribe(p) ==
  /\ life[p] = "consuming"
  /\ life' = [life EXCEPT ![p] = "running"]
  /\ UNCHANGED <<brokerVars, dispatcherVars, counters>>

\* StopAsync: cancel the dispatcher and its subscription ...
Stop(p) ==
  /\ life[p] = "running"
  /\ stops < MaxStops
  /\ stops' = stops + 1
  /\ life' = [life EXCEPT ![p] = "stopping"]
  /\ UNCHANGED <<brokerVars, dispatcherVars, restarts, failures>>

\* ... and then dispose the channel.
Close(p) ==
  /\ life[p] = "stopping"
  /\ life' = [life EXCEPT ![p] = "closed"]
  /\ CloseChannel(p)
  /\ UNCHANGED <<dispatcherVars, counters>>

\* The process ends, after StopAsync or by a crash, and all its memory with it.
Exit(p) ==
  /\ life[p] # "down"
  /\ IF life[p] = "closed" THEN UNCHANGED <<brokerVars, stops>>
     ELSE stops < MaxStops /\ stops' = stops + 1 /\ CloseChannel(p)
  /\ life' = [life EXCEPT ![p] = "down"]
  /\ arriving' = [arriving EXCEPT ![p] = NoItem]
  /\ buffer' = [buffer EXCEPT ![p] = <<>>]
  /\ loop' = [loop EXCEPT ![p] = "waiting"]
  /\ items' = [items EXCEPT ![p] = <<>>]
  /\ batch' = [batch EXCEPT ![p] = [b \in Batches |-> "over"]]
  /\ sent' = [sent EXCEPT ![p] = [b \in Batches |-> 0]]
  /\ done' = [done EXCEPT ![p] = {}]
  /\ UNCHANGED <<restarts, failures>>
-----------------------------------------------------------------------------
(***************************************************************************)
(* The consumer's thread.                                                  *)
(***************************************************************************)

\* Received: RabbitEventSubject hands the item to its observers, if it has any.  One that
\* the process cannot read goes to their OnError instead, where the dispatcher does nothing:
\* the item is neither acknowledged nor handed back.
Deliver(p, i) ==
  /\ HasChannel(p)
  /\ arriving[p] = NoItem
  /\ i \in ready
  /\ ready' = ready \ {i}
  /\ unacked' = [unacked EXCEPT ![p] = @ \union {i}]
  /\ arriving' = IF life[p] = "running" /\ i \notin Unreadable[p]
                  THEN [arriving EXCEPT ![p] = i] ELSE arriving
  /\ UNCHANGED <<posted, declared, acked, life, buffer, loop, items, batch, sent, done,
                 counters>>

\* Mutant: the item is handed back although the buffer has taken it.
OnNextNacksToo(p) ==
  /\ arriving[p] # NoItem
  /\ arriving' = [arriving EXCEPT ![p] = NoItem]
  /\ buffer' = IF Len(buffer[p]) < BufferSize
               THEN [buffer EXCEPT ![p] = Append(@, arriving[p])] ELSE buffer
  /\ BasicNack(p, arriving[p])
  /\ UNCHANGED <<life, loop, items, batch, sent, done, counters>>

\* Mutant: the buffer takes one item more than it has room for.
OnNextOneMore(p) ==
  /\ arriving[p] # NoItem
  /\ arriving' = [arriving EXCEPT ![p] = NoItem]
  /\ IF Len(buffer[p]) <= BufferSize
     THEN /\ buffer' = [buffer EXCEPT ![p] = Append(@, arriving[p])]
          /\ UNCHANGED brokerVars
     ELSE /\ BasicNack(p, arriving[p])
          /\ UNCHANGED buffer
  /\ UNCHANGED <<life, loop, items, batch, sent, done, counters>>

\* TryWrite, or else give the item back.
OnNext(p) ==
  /\ arriving[p] # NoItem
  /\ arriving' = [arriving EXCEPT ![p] = NoItem]
  /\ IF Len(buffer[p]) < BufferSize
     THEN /\ buffer' = [buffer EXCEPT ![p] = Append(@, arriving[p])]
          /\ UNCHANGED brokerVars
     ELSE /\ BasicNack(p, arriving[p])
          /\ UNCHANGED buffer
  /\ UNCHANGED <<life, loop, items, batch, sent, done, counters>>
-----------------------------------------------------------------------------
(***************************************************************************)
(* The dispatcher.                                                         *)
(***************************************************************************)

Cancelled(p) == life[p] \in {"stopping", "closed"}

\* WaitToReadAsync, in a loop that runs until cancellation.
BeginBatch(p) ==
  /\ loop[p] = "waiting" /\ ~Cancelled(p)
  /\ buffer[p] # <<>>
  /\ loop' = [loop EXCEPT ![p] = "collecting"]
  /\ UNCHANGED <<brokerVars, life, arriving, buffer, items, batch, sent, done, counters>>

\* TryRead.
Collect(p) ==
  /\ loop[p] = "collecting"
  /\ Len(items[p]) < MaxCount
  /\ buffer[p] # <<>>
  /\ items' = [items EXCEPT ![p] = Append(@, Head(buffer[p]))]
  /\ buffer' = [buffer EXCEPT ![p] = Tail(@)]
  /\ UNCHANGED <<brokerVars, life, arriving, loop, batch, sent, done, counters>>

\* A cancelled wait throws out of RunAsync.
Cancel(p) ==
  /\ Cancelled(p)
  /\ loop[p] \in {"waiting", "collecting"}
  /\ loop[p] = "collecting" => buffer[p] = <<>> /\ Len(items[p]) < MaxCount
  /\ loop' = [loop EXCEPT ![p] = "ended"]
  /\ UNCHANGED <<brokerVars, life, arriving, buffer, items, batch, sent, done, counters>>

\* Mutant: a batch more whenever the division is exact, too.
BatchCountOneMore(n) == n \div BatchSize + 1

BatchCount(n) == n \div BatchSize + (IF n % BatchSize = 0 THEN 0 ELSE 1)

\* Batch b of n items: the positions from First(b) to Last(n, b).
First(b) == b * BatchSize + 1
Last(n, b) == IF b = BatchCount(n) - 1 THEN n ELSE (b + 1) * BatchSize

Dispatch(p) ==
  LET n == Len(items[p]) IN
  /\ loop[p] = "collecting"
  /\ n > 0
  /\ n = MaxCount \/ buffer[p] = <<>>
  /\ loop' = [loop EXCEPT ![p] = "processing"]
  /\ batch' = [batch EXCEPT ![p] =
                [b \in Batches |-> IF b < BatchCount(n) THEN "handling" ELSE "over"]]
  /\ UNCHANGED <<brokerVars, life, arriving, buffer, items, sent, done, counters>>

InBatch(p, b) == {items[p][k] : k \in First(b)..Last(Len(items[p]), b)}

\* The handler marks an item of its batch.
MarkDone(p, b, i) ==
  /\ batch[p][b] = "handling"
  /\ i \in InBatch(p, b) \ done[p]
  /\ done' = [done EXCEPT ![p] = @ \union {i}]
  /\ UNCHANGED <<brokerVars, life, arriving, buffer, loop, items, batch, sent, counters>>

\* Mutant: an exception of the handler leaves the batch without SendAck.
ReturnRethrows(p, b) ==
  /\ batch[p][b] = "handling"
  /\ IF InBatch(p, b) \subseteq done[p] THEN UNCHANGED failures
     ELSE failures < MaxFailures /\ failures' = failures + 1
  /\ batch' = [batch EXCEPT ![p][b] =
                IF InBatch(p, b) \subseteq done[p] THEN "acking" ELSE "over"]
  /\ UNCHANGED <<brokerVars, life, arriving, buffer, loop, items, sent, done, stops,
                 restarts>>

\* It returns, or throws, which leaves items that are not marked.
Return(p, b) ==
  /\ batch[p][b] = "handling"
  /\ IF InBatch(p, b) \subseteq done[p] THEN UNCHANGED failures
     ELSE failures < MaxFailures /\ failures' = failures + 1
  /\ batch' = [batch EXCEPT ![p][b] = "acking"]
  /\ UNCHANGED <<brokerVars, life, arriving, buffer, loop, items, sent, done, stops,
                 restarts>>

\* Or it gives way to the cancellation of its token.
Abort(p, b) ==
  /\ batch[p][b] = "handling" /\ Cancelled(p)
  /\ batch' = [batch EXCEPT ![p][b] = "aborted"]
  /\ UNCHANGED <<brokerVars, life, arriving, buffer, loop, items, sent, done, counters>>

NextToSettle(p, b) == items[p][First(b) + sent[p][b]]

\* Mutant: an item that is not marked is acknowledged with the others.
SendAckAll(p, b) ==
  /\ batch[p][b] = "acking"
  /\ First(b) + sent[p][b] <= Last(Len(items[p]), b)
  /\ sent' = [sent EXCEPT ![p][b] = @ + 1]
  /\ BasicAck(p, NextToSettle(p, b))
  /\ UNCHANGED <<life, arriving, buffer, loop, items, batch, done, counters>>

\* Mutant: waits for the broker to know the item.
SendAckKnown(p, b) ==
  /\ batch[p][b] = "acking"
  /\ First(b) + sent[p][b] <= Last(Len(items[p]), b)
  /\ HasChannel(p) => NextToSettle(p, b) \in unacked[p]
  /\ sent' = [sent EXCEPT ![p][b] = @ + 1]
  /\ IF NextToSettle(p, b) \in done[p] THEN BasicAck(p, NextToSettle(p, b))
     ELSE BasicNack(p, NextToSettle(p, b))
  /\ UNCHANGED <<life, arriving, buffer, loop, items, batch, done, counters>>

\* SendAck, one item.
SendAck(p, b) ==
  /\ batch[p][b] = "acking"
  /\ First(b) + sent[p][b] <= Last(Len(items[p]), b)
  /\ sent' = [sent EXCEPT ![p][b] = @ + 1]
  /\ IF NextToSettle(p, b) \in done[p] THEN BasicAck(p, NextToSettle(p, b))
     ELSE BasicNack(p, NextToSettle(p, b))
  /\ UNCHANGED <<life, arriving, buffer, loop, items, batch, done, counters>>

\* Task.WhenAll: every batch has come to its end.  The loop goes on, unless a
\* batch was aborted.
Finish(p) ==
  /\ loop[p] = "processing"
  /\ \A b \in Batches :
       \/ batch[p][b] \in {"over", "aborted"}
       \/ batch[p][b] = "acking" /\ First(b) + sent[p][b] > Last(Len(items[p]), b)
  /\ loop' = [loop EXCEPT ![p] =
               IF \E b \in Batches : batch[p][b] = "aborted" THEN "ended" ELSE "waiting"]
  /\ items' = [items EXCEPT ![p] = <<>>]
  /\ batch' = [batch EXCEPT ![p] = [b \in Batches |-> "over"]]
  /\ sent' = [sent EXCEPT ![p] = [b \in Batches |-> 0]]
  /\ done' = [done EXCEPT ![p] = {}]
  /\ UNCHANGED <<brokerVars, life, arriving, buffer, counters>>
-----------------------------------------------------------------------------
ProcessBatch(p, b) ==
  \/ (\E i \in Items : MarkDone(p, b, i)) \/ Return(p, b) \/ Abort(p, b) \/ SendAck(p, b)

RunAsync(p) ==
  BeginBatch(p) \/ Collect(p) \/ Cancel(p) \/ Dispatch(p) \/ Finish(p)

Process(p) ==
  \/ Observe(p) \/ Subscribe(p) \/ Stop(p) \/ Close(p) \/ Exit(p)
  \/ (\E i \in Items : Deliver(p, i)) \/ OnNext(p)
  \/ RunAsync(p) \/ \E b \in Batches : ProcessBatch(p, b)

Next ==
  \/ BrokerRestart
  \/ \E i \in Items : Post(i)
  \/ \E p \in Processes : Process(p)

Spec == Init /\ [][Next]_vars

(***************************************************************************)
(* Fairness.  The broker delivers, threads and tasks are scheduled, a      *)
(* started process comes to its subscription and a stopped one to the      *)
(* disposal of its channel, and a handler goes on until it has marked its  *)
(* batch, except that it fails now and then (at most MaxFailures times).   *)
(* Nothing is posted, started or stopped by fairness.                      *)
(***************************************************************************)
Fairness ==
  /\ \A p \in Processes :
       /\ WF_vars(Subscribe(p) \/ Close(p))
       /\ WF_vars(OnNext(p))
       /\ WF_vars(RunAsync(p))
       /\ \A b \in Batches : WF_vars(ProcessBatch(p, b))
  /\ \A i \in Items : WF_vars(\E p \in Processes : Deliver(p, i))

FairSpec == Spec /\ Fairness
-----------------------------------------------------------------------------
(***************************************************************************)
(* Properties.                                                             *)
(***************************************************************************)

\* The batches cut what was read into pieces of 1 to BatchSize items, as many as
\* there may be in parallel, that miss no item and share none.
BatchesPartition ==
  \A p \in Processes : loop[p] = "processing" =>
    LET n == Len(items[p])
        Slice(b) == First(b)..Last(n, b)
        used == 0..(BatchCount(n) - 1)
    IN  /\ BatchCount(n) <= DegreeOfParallelism
        /\ \A b \in used : Cardinality(Slice(b)) \in 1..BatchSize
        /\ UNION {Slice(b) : b \in used} = 1..n
        /\ \A b, c \in used : b # c => Slice(b) \intersect Slice(c) = {}

\* An item is in the hands of one handler at a time, among all the processes that
\* still have their channels, and is not in the queue meanwhile.
HandledByOne ==
  \A p, q \in Processes : HasChannel(p) /\ HasChannel(q) =>
    \A b, c \in Batches : batch[p][b] = "handling" /\ batch[q][c] = "handling" =>
      /\ InBatch(p, b) \intersect ready = {}
      /\ <<p, b>> # <<q, c>> => InBatch(p, b) \intersect InBatch(q, c) = {}

\* The positions of items[p] that some batch, or the loop, has yet to settle.
Unsettled(p) ==
  IF loop[p] = "collecting" THEN 1..Len(items[p])
  ELSE {k \in 1..Len(items[p]) : \E b \in Batches :
          /\ k \in (First(b) + sent[p][b])..Last(Len(items[p]), b)
          /\ batch[p][b] \in {"handling", "acking"}}

\* What p knows of and will settle.
Known(p) ==
  {arriving[p]} \union {buffer[p][k] : k \in 1..Len(buffer[p])}
    \union {items[p][k] : k \in Unsettled(p)}

Forgotten(p) == unacked[p] \ Known(p)

\* A running process forgets no item that it owes the broker an answer for, but those
\* that it cannot read: neither a full buffer nor a failing handler nor a batch that ends
\* early loses track of one.  (It never knew of items that came before the subscription.)
NeverForgets ==
  [][\A p \in Processes : life[p] = "running" /\ life'[p] = "running" =>
       Forgotten(p)' \subseteq Forgotten(p) \union Unreadable[p]]_vars

\* The promise of the work queue, as long as the broker keeps its messages.
InQueue == ready \union UNION {unacked[p] : p \in Processes}
Queue == INSTANCE DurableQueue WITH
  waiting <- InQueue,
  marked <- UNION {done[p] : p \in Processes},
  finished <- acked

\* Items leave the queue only when a handler has marked them.
KeepsItems == Queue!Spec

Served == \E p \in Processes : life[p] \in {"consuming", "running"}

\* Processing gets on: while a process is running, an item in the queue is done in
\* the end, although handlers fail, buffers overflow, processes come and go and the
\* broker has restarted under them; unless it restarts once more, or a process
\* received the item between Observe and Subscribe, or without being able to read it.
EveryItemIsDone ==
  \A i \in Items : i \in ready /\ restarts = MaxRestarts ~>
    \/ i \in acked
    \/ \E p \in Processes : i \in Forgotten(p)
    \/ ~Served
=============================================================================
