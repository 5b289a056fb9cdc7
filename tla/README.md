# A formal model of RabbitRPC

RabbitRPC is a .NET library for remote procedure calls, events, work queues and shared
state over RabbitMQ; its repository comes with samples, one of them an ASP.NET front end
with scripts of its own. This directory holds TLA+ modules that model the library's core and
the front end's form validation, the configurations that model-check them with TLC, and
proofs that TLAPS checks. Paths of the form `Client/...` are below `src/RabbitRPC/` of the
repository.

`PROJECT.json` lists the components, the runs, the mutants (plausible bugs that each
property is shown to catch), the source lines of every definition, the findings, the
hazards and the theorems.

## 1. Inventory

| Component | State | Operations | Talks to |
|---|---|---|---|
| **RPC client** `Client/RabbitServiceClient.cs` | `_requests` (open calls by correlation id), one TaskCompletionSource, timer and cancellation registration per call | invoke, publish, receive a response or a basic.return, time out, cancel | broker: service queue, reply queue, fanout `RabbitRPC` |
| **Service host** `ServiceHost/RabbitServiceHost.cs` and its filters | `_requestChannel` (buffer), `_ongoingRequests` (tokens by correlation id), one unawaited `ExecuteRequestAsync` per delivery | receive, execute, re-execute, answer, ack/nack, cancel, start, stop | broker, filters, state contexts |
| **RabbitMQ** (external) | queues, unacknowledged deliveries, consumers | as used by the classes above | all |
| **Optimistic concurrency** `States.EntityFrameworkCore`, `RetryOnConcurrencyErrorAttribute`, sample `Counter` | rows with versions; the version an execution has read | get, put with version, conflict, back off, re-execute | service host, database |
| **Work queue** `WorkQueues/*`, `RabbitEventSubject.cs` | bounded buffer, items of a parallel batch, their marks | post, receive, buffer or hand back, collect, dispatch, mark, settle, start, stop | event bus, broker, handlers |
| **Event bus** `RabbitEventBus.cs`, `RabbitEventSubject.cs` | subjects and their observers, one channel, a round of calls per event | observe, subscribe, publish, deliver, unsubscribe, start with retries, stop | broker, host (through the connection) |
| **In-memory state** `States/InMemory/*` | a store, snapshots, one transaction per context, an async lock with waiters | get, put, remove, begin, commit, dispose | service host |
| **File-system state** `States/FileSystem/*` | files, locked ranges, lock files, pending operations per transaction | get, put, remove, lock, commit, dispose | service host, disk |
| **Filter pipelines** `ServiceHost/Filters/FilterChains.cs`, `Client/Filters/FilterChains.cs` | position in the chain, two contexts with result and exception | build the chain, next, short circuit, retry, throw | client, host |
| **Connections** `DefaultRabbitMQConnectionProvider.cs` and three connect loops | the cached connection | create, retry, dispose | all |
| **Form validation** `jquery.validate.unobtrusive.js` of the sample HelloAspNetCore | rules by form and field, marks, a summary | parse attributes, attach, place errors, reset | jQuery Validate, user, server |
| Serialization, DI, builders, other samples, vendored scripts | none of their own | | |

What makes these hard, and the properties that make them correct:

* **RPC.** Four threads of the client meet in one call (caller, consumer, timer, canceller);
  hosts run deliveries concurrently, share a dictionary of tokens keyed by correlation id,
  and die between any two statements; the broker redelivers. Correct means: every call
  returns, once, with something that really happened; the status agrees with the result; a
  request is forgotten by the broker only after its answer is on its way; a running action
  can be cancelled.
* **Optimistic concurrency.** Several replicas read, compute and write the same row. Correct
  means: the sample's counter is an atomic counter, and retrying ends.
* **Work queue.** A consumer thread, a dispatcher loop, parallel batches, a full buffer,
  failing handlers, and a channel that is disposed while items are being settled. Correct
  means: no item is lost or handled by two, each is settled by its own mark, and processing
  gets on.
* **State providers.** Contexts of concurrent requests, and of several processes, share a
  store; transactions are disposed twice, cancelled while they wait, or broken off. Correct
  means: a commit is written whole and alone, no lock is lost, given twice or kept, and
  nobody's open transaction sees another's half-done work.
* **Filter pipelines.** Three loops over a reversed list, two contexts shared by all filters
  and by every retry. Correct means: filters run in order and nest, a short circuit holds, and
  the pipeline gives an answer.
* **Event bus and connections.** Callers observe and publish before, while and after the bus
  connects; the host can dispose of the connection it shares; observers throw. Correct means:
  the bus starts, whoever subscribes has a consumer, events arrive once and in order, and an
  observer that throws takes nothing silently from the others.
* **Form validation.** Events of the user, the page and a server that answers late. Correct
  means: the rules mean what the attributes say, nothing is sent that they refuse, and the
  marks agree with the validator.

`hazards` in `PROJECT.json` gives the line of each and the property that covers it, or why
none does yet.

## 2. Modules

```
RpcBroker --+-- RpcClient --+
            +-- RpcHost ----+-- RpcSystem --- MCRpcSystem, RpcSystemProofs, RpcDeliveryProofs
                RpcPromise ----(refined by)

CounterService --- MCCounterService, CounterServiceProofs
  AtomicCounter ----(refined by)

WorkQueue --- MCWorkQueue, WorkQueueProofs
  DurableQueue ----(refined by)

States --+-- MemoryState --+
         +-- FileState ----+-- StateProviders --- MCStateProviders, StateProviderProofs
             AtomicStore ------(refined by)

FilterPipeline --- MCFilterPipeline, FilterPipelineProofs

EventBus --- MCEventBus, EventBusProofs

FormRules --- FormValidation --- MCFormValidation, FormValidationProofs
```

### Remote procedure calls

`RpcClient`, `RpcHost` and `RpcBroker` are the client, a replica of the host, and
RabbitMQ. The broker's state is shared (both extend it); `RpcSystem` interleaves a step of a
call with a step of a host.

*Client.* A call walks `idle, invoked, awaiting, closing, returned`. Every access to
`_requests` or to the TaskCompletionSource is a step: `Receive` looks the call up,
`TryComplete` completes it, and the timer's callback is four steps (remove the call, mark
the status, fault the source, cancel the token). `TimerFaultsInline` is the case in which
the continuation of `await` runs inside `TrySetException`. `Return` models the disposal of
the timer's registration, which waits for a callback on another thread.

*Host.* A delivery `<<call, n>>` is the n-th time a request was handed out. Its program
counter follows `ExecuteRequestAsync`: `buffered, running, backoff, ran, rejected, replied,
failed, settled, over`. The filter pipeline is one step whose outcomes are the ones the
method tells apart (`Outcomes`). `ongoing[h][c]` is `_ongoingRequests`: it names the
delivery whose token is registered, so two executions of one request on one host overwrite
each other, and remove each other's, as they do in the code. They meet on one host when a
filter rejects the request: `Reject` gives it back to the broker and goes on to answer it. `Stop` closes the channels under running executions;
`Crash` ends the process.

*Broker.* One service queue (auto-deleted with its last consumer), prefetch, redelivery
when a consumer is lost, a second settlement of a tag closes the channel, basic.return for
unroutable requests, a fanout of cancellations. Queues are sets: with competing consumers
and requeueing there is no order to rely on.

`RpcPromise` is what a caller may rely on, with four actions and no messages.

### Optimistic concurrency

`CounterService` is `IncrementAsync`, `DecrementAsync` and `GetCounterAsync` of the Counter
sample with `EFStateContext` and `RetryOnConcurrencyErrorAttribute`: `Get` reads value and
version, `Put` is the provider's INSERT ... ON CONFLICT UPDATE ... WHERE version, which the
database runs atomically, `Conflict` backs off or gives up, `ReExecute` starts afresh.
`AtomicCounter` is the number its clients believe in.

### Work queue

`WorkQueue` has any number of competing processes, each with a consumer thread (`Deliver`,
`OnNext`), the dispatcher's loop (`BeginBatch`, `Collect`, `Cancel`, `Dispatch`, `Finish`),
its parallel batches (`MarkDone`, `Return`, `Abort`, `SendAck`, one item at a time) and the
host around it (`Observe`, `Subscribe`, `Stop`, `Close`, `Exit`). `items[p]` is the rented
array; batch `b` is the positions `First(b)..Last(n, b)` of it. `BrokerRestart` empties the
queue, because items are transient messages, and makes every tag stale. `Unreadable[p]` are
the items for which `p` resolves no type or whose body it cannot deserialize: the subject
calls `OnError`, which the dispatcher leaves empty, so `Deliver` leaves them unacknowledged
at a process that does not know of them. `DurableQueue` is
the promise: an item leaves only when a handler has marked it.

### State providers

`MemoryState` is one named store of `InMemoryStateStore` with its `AsyncLock`. A context's
program counter `pc` tells what it has called; `lock[c]` is the `ActionDisposable` it was
given. `CommitAsync` is taken apart into `Commit` (clear the store), `Copy` (one entry) and
`Committed`, because readers without the lock, and a shutdown, can come in between: a context
never forgets its `_tx`, so after the transaction is disposed the calls of the same request
go on with it, and with its snapshot, without the lock. Versions are ignored by the provider,
and so by the model.

`FileState` is `FileSystemStateTransaction` on one state file, for contexts of any number of
processes. `LockRangeAsync` is `TryRange`, `TryLockFile` and `Wake`; a commit is `Read`
(which merges the pending operations and truncates), `WriteEntry` per entry, and `Flush`;
`BreakOff` and `Crash` can end it at any entry. Ranges are locked as Windows locks them. What
`FileSystemWatcher` raises is the system's: a waiter tries again at any time or never, so no
progress is promised for it.

`StateProviders` lets a host have either, and states that both implement `AtomicStore`, in
which a commit is one step and losing entries a step that cannot go unseen.

### Filter pipelines

`FilterPipeline` builds the chain (`Sorted`, `Wrap`, `HostChain`, `ClientChain`) from
filters with any orders, scopes and roles, and then walks through it: `at` is the link, `way`
whether it is called, in its own code, returned to or thrown to. `executing` and `executed`
are the two contexts that all filters share. Filters do what they like: set or withdraw a
result or an exception, throw, and call an asynchronous filter's delegate up to `MaxCalls`
times. `Ordered` says what the stable sort of a set of registrations returns, without saying how.

### Event bus

`EventBus` has the loop that connects the bus (`OpenModel`, `Declare`, `Attach`, `Finish`,
`Fail`), the host that shares its connection (`HostUp`, `HostFails`, `HostStop`), callers
(`Observe`, `Join` or `JoinThrows`, `Unsubscribe`, `Publish`) and the dispatcher of each
channel (`Deliver`, `OnNext`, `OnNextThrows`, `OnError`). The bus is registered before the
host (`AddRabbitServiceHost` calls `TryAddEventBus` first), so it is started first and
stopped last. `dispatch[m]` is a round of calls to the observers of one event.

### Form validation

`FormRules` translates the adapters of `jquery.validate.unobtrusive.js` from `data-val-*`
attributes to rules; `FormValidation` is a form that uses them: `Parse`, `ParseElement`,
`AttachValidation`, the handlers `OnError`, `OnSuccess`, `OnErrors` and `Reset`, and what the
script relies on of jQuery Validate (`Check`, `Validate`, `Form`, `Submit`, the remote check's
`Answer`). A browser runs one handler at a time, so an action is a whole handler. The script
is vendored, and offered to pages by `_ValidationScriptsPartial.cshtml`, which none of the
sample's pages includes yet. Attributes are as ASP.NET's tag helpers emit them
(`Rendered`). `MinMaxRules` are the names that `addMinMax` is registered with. No two
attributes of a field are made into one rule (`RulesDiffer`): `[StringLength]` beside
`[MinLength]`, say, would have the later overwrite the parameter of the earlier.

jQuery Validate makes numbers of the parameters of `minlength`, `maxlength`, `rangelength` and
`range`, but not of `min` and `max`, which a range with only one bound becomes: these compare
the text of the value with the text of the attribute (`TextAtMost`), so 10 is refused as
below a minimum of 2, and 2 accepted as above a minimum of 10. `RulesMeanAttributes` and
`SentIsAccepted` therefore except, for such a range, the numbers that have not as many
digits as its bound (`Comparable`); without this exception the run finds both violated.

## 3. Runs

Every run finishes within the five minutes it is given on two cores.

| Run | Instance | Question |
|---|---|---|
| `rpc_safety` | 1 call, 2 replicas, 2 deliveries, 1 crash, stop or rejection, outcomes value, default, conflict, unknown, throws and reject | all safety of a call, also when it is handed to one replica twice |
| `rpc_two` | 2 calls, 1 replica, prefetch 2, outcomes value and reject | two calls do not mix, and what RejectRequest leaves intact |
| `rpc_live` | 1 call of a `Task<T>` action, 2 replicas, 2 deliveries, 1 crash or stop, outcomes value and default, fair | a queued request is settled; `RpcPromise` is implemented, whose liveness says that every call returns |
| `counter` | 3 increments, 1 decrement, 1 read, 1 retry, fair | the service is an atomic counter and answers |
| `work_batches` | 3 items, 2 processes, buffer 2, batches of 2, 2 in parallel, 1 stop or crash, 1 failing handler, 1 item that one process cannot read | slices, one handler per item, nothing forgotten, `DurableQueue` is implemented |
| `work_live` | 2 items, 2 processes, buffer 1, batches of 2, 1 stop or crash, 1 broker restart, 1 failing handler, 1 item that one process cannot read, fair | items get done, with stale tags about |
| `states` | 2 contexts, 2 keys, 1 value, 1 change per file transaction, either provider, fair | locks are kept and end, open transactions are undisturbed, waiters are served, `AtomicStore` is implemented |
| `filters` | 2 filters with any of 2 orders, 2 scopes and their roles, the service as a third, 2 calls of a delegate | order, nesting, short circuits, answers |
| `bus` | 2 observers, 2 events, 1 fault, with and without a host, fair | the bus starts and keeps its channel and its consumer, events arrive once, in order, and to all |
| `form` | 2 fields, 3 values of which the server refuses 1, one field with any of 11 sets of attributes | rules mean the attributes, nothing refused is sent, marks agree |
| `rpc_doc_reject`, `counter_first` | | see below |

The `TypeOK` of `RpcSystem`, `WorkQueue` and `EventBus` is checked, because their types carry
bounds that something could exceed; those of `CounterService` and `StateProviders` are
proved (section 5).

Deadlock checking is off: in all of these the system may come to rest when there is nothing
more to do or a bound is used up.

The bounds and why they suffice:

* *Calls, hosts.* Interference between calls goes only through `_requests`, the tokens and
  the prefetch window; two calls on one replica exercise each. Two replicas are what
  redelivery needs; a third would only stand in for one of them.
* *MaxDeliveries* ends the life of a request after two deliveries. The second delivery is
  the one that can meet the first (a duplicate answer, a shared token); in `rpc_live` two
  deliveries are enough for one crash. A third one repeats the second.
* *MaxCrashes, MaxStops, MaxRestarts, MaxFailures* bound what nothing bounds in reality. One
  of each is placed at every point of every behaviour.
* *MaxRetries* is 0 or 1 instead of 10: the attribute's `<=` then allows two or three runs,
  so first, repeated and last run differ.
* *Buffer and batch sizes* of 1 and 2 with 2 or 3 items give full buffers, exact multiples,
  and a last batch that is partial.

* *MaxChanges* is 1: with two keys, two transactions overlap or not, and a commit of entries
  another has written still has two entries to write. In memory there is no such bound.
* *Orders, Scopes, MaxCalls*: two values of each give filters before, beside and after each
  other, and two calls of a delegate are a retry. *MaxFaults* is one failed attempt to
  connect, one message that cannot be read, or one observer that throws, at any point.
* *Values* of a form are 0 (empty), 1, which the server refuses, and 10; they lie below, on
  and above the limits that the attributes set, and 10 is above 2 as a number and below it
  as a text.
* *Outcomes*: `propagate` is what a conflict ends in when no retry is left.
* *OneFault* is the one constraint: `rpc_safety` follows a behaviour while it has at most one
  crash, stop or rejection, and checks the states the second of them leads to. A rejection
  alone puts two executions of a request on one host, closes its channel and settles a tag
  twice; a crash alone redelivers. `ExecutionsAreCancellable` and the other theorems have no
  such bound.
* *Unreadable*: one process cannot read one item, which the other can. Only the other items
  are interchangeable (`WorkSymmetry`).

`EveryItemIsDone` says nothing about an item in state `Forgotten`: one that arrived between
`Observe` and `Subscribe`, or at a process that cannot read it. `NeverForgets` is about
processes that run, so it excepts the first by its premise and the second by name: all else
that a running process has to settle, it knows of.

`ExecutingIsCancellable` has one exception, which the code makes possible and the run reaches: the
token is gone, the channel is closed, and an earlier delivery to the same host, which was
rejected, is over.

### Where the code and its documents disagree

Two runs check a sentence of the documentation and find a behaviour of the code that breaks
it (`findings` in `PROJECT.json` has the quotations and lines):

* `rpc_doc_reject`: a replica that rejects a request, so that another may execute it, also
  answers and acknowledges it; the second settlement makes the broker close its channel.
* `counter_first`: the first write of a key and a key never written have the same version 0,
  so one of two first increments is lost.

More are in the models, without a run of their own:

* `RpcHost`: a replica that rejected a request is given it again while it still answers it.
  When it has finished the first execution it removes the second one's token (`Finish`), so a
  cancellation does not reach the action that runs (`RabbitServiceHost.cs:318`;
  `samples/HelloWorld/README.md:18`). A request that is cancelled while a retry backs off is dropped without an answer
  and the client waits for its timeout (`RetryOnConcurrencyErrorAttribute.cs:42`;
  `samples/HelloWorld/README.md:18` says otherwise). The strategy `ReturnDefault` drops every request
  for an action that returns `Task<T>` (`ReturnDefaultThrows`), because it asks a constructed
  type for generic parameter constraints.
* `WorkQueue`: the queue is durable, the items in it are not (`RabbitEventBus.cs:77`;
  `samples/BatchPrinter/README.md:88`). Items that arrive between `Observe` and `Subscribe` are never
  handled while the process runs (`WorkItemDispatcher.cs:46`; `samples/BatchPrinter/README.md:90`).
  An item that a process cannot read stays there
  unacknowledged until the process loses its channel (`Deliver`).
  With a full buffer the dispatcher does not "stop accepting" items, it hands each back and
  may be given the same one again (`OnNext`).
* `MemoryState`: a transaction that has changed nothing wipes the store when it commits, and
  throws (`CommitUnchanged`). What a call outside a transaction puts is a snapshot that
  nobody commits. After its transaction a context goes on with the stale snapshot.
* `FileState`: `Put` and then `Remove` of a key that the file does not have leaves the `Put`; a second commit
  applies the pending operations again; a commit that fails midway leaves a torn file. There
  are three ways to wait for ever: the `TaskCompletionSource` is replaced while it is
  awaited; the waiter waits for its own range, which it keeps when the lock file cannot be
  opened; a range is freed by a crash or a cancellation without any lock file disappearing.
* `FilterPipeline`: filters of responses run before the request is sent, where the
  repository's `README.md:63-70` says afterwards. An asynchronous filter that sets a result
  and does not call its delegate loses it. A retry keeps the exception, or the result, of
  the attempt before. An exception skips `OnActionExecuted` of the filters further out. A
  client sends its request whatever `Canceled` says.
* `EventBus`: a host that fails to start disposes of the connection, and the provider hands
  the dead connection out ever after. An `Observe` that finds the bus connected adds a
  consumer, so events arrive once more. An event that is unreadable or makes an observer
  throw is an error to all, and observers that follow miss it.
* `FormValidation`: a validator copies the rules once, so fields parsed later are never
  validated, although the comment of `parse` says that it "enables validation". A minimum or
  maximum that stands alone is compared as a text (`TextAtMost`). `addMinMax`
  ignores names of attributes other than "min" and "max", although it takes them;
  `addSingleVal`'s default "val" is not applied. A late answer of the server marks a form
  that was reset, and since neither a reset nor a refusal takes back a submission that waits,
  a later answer can send the form.

## 4. Fairness

`RpcSystem!Fairness`: the runtime schedules continuations and timer callbacks, the broker
delivers what is queued to a consumer with credit, and an execution goes on. This assumes
that actions return (the library puts no limit on them) and that a backoff ends. A call's
timer is fair because a two-minute timer fires if it is not disposed. Nothing obliges
anybody to call, cancel, start, stop or crash. All of it is weak fairness: none of these
steps can be taken away for ever by another, except a delivery from a queue, for which the
condition is the existence of a replica with credit.

`CounterService!FairSpec`: weak fairness for each request. No request depends on strong
fairness because the attribute gives up.

`WorkQueue!Fairness`: weak fairness for the consumer thread, the loop, each batch and the
delivery of each item. A started process reaches its subscription and a stopped one the
disposal of its channel. A handler ends with all items marked unless it fails, which it may
do `MaxFailures` times; a handler that always fails is not expected to get anything done.

`StateProviders!Fairness`: calls that have the lock return and commits run to their end.
`EndScope` is strongly fair because a request makes finitely many calls, although each of
them disables the end of its scope for a while. Only the in-memory provider's callers need
any of it.

`EventBus!Fairness`: the connect loop goes on, and a dispatcher with something to deliver
delivers. Nobody has to observe, publish, stop or fail. `OnError` of an observer must not
throw: what it threw would end the consumer.

`FilterPipeline` and `FormValidation` have none: filters may stay in their code, and nobody has to do anything with a form.

## 5. Proofs

All theorems hold for every value of the constants that satisfies the modules' named
assumptions, without symmetry, and with the crash, retry and delivery bounds arbitrary.

**RpcSystemProofs.**
*TypeCorrect*: the invariant `TypeInv` adds to `TypeOK` that a delivery in backoff has
retries left (`BackoffBounded`), which is what bounds the number of executions; the broker's
operations have a lemma of their own.
*SuccessIsComputed* (assuming `"reject" \notin Outcomes`): a chain of invariants from the
host's outcome to the reply (`HostResults`, `SuccessfulReply`), from a message on its way or
in the consumer's hands to an execution, and from the completed source to that
(`ResultsAreComputed`). With RejectRequest the statement is false: the rejecting replica
answers null.
*AbortedOnlyIfCancelled*: the token of a delivery is cancelled only by a broadcast, and a
broadcast exists only if the caller cancelled or the call has timed out, in which case its
source is complete and no answer can reach it (`AbortsAreWanted`).
*SuccessesAreOwn* is the same for all outcomes: whatever RejectRequest does, a response only
completes the call whose correlation id it carries. SuccessIsComputed is its consequence.
*OutcomeFinal*: after `Return` the timer is over and the source complete (`ReturnedIsQuiet`).

**RpcDeliveryProofs** builds on the types of RpcSystemProofs.
*ExecutionsAreAlone*: `OneTaker` says that of all deliveries of a request at most one is with a
host that has its channel; it needs that deliveries are counted in order (`SentFirst`), that
a delivery has a place (`RunsSomewhere`), and that one that a connected host works on is
outstanding at the broker (`ActiveIsOutstanding`).
*AckedIsAnswered*: an acknowledgement follows the answer (`AnswersAreSafe`).
*StatusAgrees*: the status set on the way out is the one of the source, but for the timer that
has removed the call first (`StatusFollows`).
*ExecutionsAreCancellable* (for all outcomes): executions of one request may share a host and
its entry of `_ongoingRequests`, so `TokenInv` says how they follow each other. Two that
are still active are one (`OneActive`); one that has been decided on lives beside an active
one only after it was rejected, and is the older (`RejectedAhead`), for while the channel is
open nothing else goes back to the broker (`HeldOrRejected`). So if its `Finish` takes the
other's token away (`FinishBeside`), its acknowledgement has closed the channel before.
Deliveries are numbered in order (`HandedOut`), which tells the two apart.
*PromiseIsKept* (assuming `"reject" \notin Outcomes`, for a rejection answers null): the client, the
hosts and the broker implement `RpcPromise!Safety`, which is that module's specification
without its fairness. `Invoke`, `CallerCancel` and an `Execute` that computes a result are the
abstract steps of their names, `Return` and `TimerFaultsInline` the end of a call, and all the
rest, so all that the broker does, is invisible. That a call may end as it does follows
from `SuccessInv`, `AbortsAreWanted` and `StatusFollows`.

**CounterServiceProofs** (all but the type theorem assume `Seeded`, that the row exists;
without it they are false, see `counter_first`).
*VersionsIdentifyValues*, *FailuresMeanContention* and *ImplementsAtomicCounter* share the
invariant that what a request has read is no newer than the row, and equal to it at the same
version, that `runs` is at most the number of writes seen plus one, and that only the answer
still due is missing. The step that implements `Apply` is `Put`; a read is `Apply` with 0.

**WorkQueueProofs.**
*TypeCorrect* includes that the buffer and the array of items never overflow and that
`SendAck` stays in its batch. It needs `BatchInv` (only the batches the items fill are begun)
and arithmetic lemmas about `BatchCount`, `First` and `Last`.
*BatchesPartitionItems*: for every number of items and every batch size the slices are a
partition (`BatchOf` finds an item's batch, `BatchOrder` separates two of them).
*ItemsAreKept* (assuming `MaxRestarts = 0`): the refinement of `DurableQueue`. The invariant
`OnePlace` says that an item is ready, with one process, or acknowledged; it is needed to
show that an acknowledgement removes the item from the queue, and that nothing else does.
*ItemsAreHandledByOne* holds with restarts, too. Being with one handler is not inductive: an
item could be twice in a buffer and come to two batches later. Its invariant `OneHandler`
says of every process that has its channel that what it has yet to settle is there once
(arriving, buffered or read: `Once`), is not ready, and is known to no other such process
(`Apart`).
*NothingIsForgotten*: from the same invariant, each step of a process that loses track of an
item settles it; an item that arrives is known, or one that the process cannot read.

**StateProviderProofs.**
*LocksKept*, in memory: until the store is disposed, either the permit is there and nobody waits, or one
context holds the lock (`OneHolder`); who waits does so once and in a call that has not gone
on (`WaitersWait`); who holds it is busy (`HoldersAreBusy`). The second is needed for the
hand-over in `Release`, the third because a release by a context that is done would be lost.
In a file: exactly those transactions have the lock file open that are committing,
unlocking, or open and serializable (`LockFileIsHeld`), so whoever ends has closed it.
*SerializableAlone* follows from the same invariant: who writes has the lock file, and so
has an open serializable transaction.
*ReadsAreRepeatable* adds `TransactionInv`: who is in a transaction has the lock, so there is
one at most, and a commit that is under way has copied just the entries that are not to do.
*ProvidersAreAtomic*, the refinement of `AtomicStore`, is proved for each provider and then
for the host that has either. `MemMapped` and `FileMapped` say what the abstract store is: what
the one transaction that is committing will have written, or else what is there. `Commit` and
`Read` are the abstract commits, every `Copy` and `WriteEntry` a stutter, and where a commit is
broken off the abstract store loses just the entries that were to do.
*TypeCorrect* needs that whoever commits has a snapshot (`MemTypeInv`), for otherwise the
copy would write what is not an entry.

**EventBusProofs.**
*BusKeepsItsChannel* rests on `BusInv`: from its declaration on the
exchange exists, so that nobody can close the channel by using it; who subscribes has made
the subject known; and once the loop no longer looks for subjects, `_model` is set for those
that come later.
*LeavingIsLateByOne* and *RoundsReachAll* add `RoundInv`: who is in the audience of a round
and has not left is to be called yet, or has seen the event or been told of an error. One
lemma (`DispatchGoesOn`) says what a dispatcher's step does to a round.
*BusTypeCorrect* needs `Counted`: every channel but the last was closed by a failure, by a
call that came too early or by an observer that left, and there is one consumer for each
`Observe` that added one and one for the loop.
*EventsAreSeenOnce* is an account (`Account`): each consumer of an event is good for one call
of an observer, which is in a queue, due in a round, or made.
*EventsAreSeenInOrder*: with one consumer the queue is sorted and behind the round, which is
behind what has been seen (`Ahead`).

**FilterPipelineProofs.** `Ordered` is a CHOOSE, so it has to be shown that what it chooses is
there: ranking the elements by those before them is an injection into 1..n (`OrderedSorts`).
*ChainIsOuterFirst*: `Wrap` puts the links of a stage around the chain (`WrapPutsAround`), and
what is built is in order from the innermost stage outwards (`Built`); three of them are the
host's chain, three others the client's.
*AnswersShortCircuit*: no link is called while a result or an exception is set (`Clean`).
*FiltersNest* is inductive with the types of a run (`RunInv`).
*AnswersAreGiven*: on the way back, after a delegate has returned and ever after a filter has got
its own answer, there is one (`Answered`).

**FormValidationProofs.** *RulesAreMeant* is about what the adapters compute. One adapter adds
the rules that mean its attribute and no others (`AdaptMeans`), and so, one after the other, do
all eight (`AfterMeans`, `ParsedMeans`): here `RulesDiffer` is needed, for a rule that is set
again would forget the attribute before. A lone bound compares texts: with as many digits
that is the comparison of the numbers (`TextsCompare`), and of others the theorem says nothing. `RulesAreParsed` says that the rules in force were
made by `ParsedRules` at some time, with whatever fields were there then.
*MarksAgreeAlways*: the rule that is added to all gives every check a verdict (`CheckMeans`),
so each handler that writes the one writes the other.
*SummaryAgrees*: all that the validator lists is marked (`ErrorsAreMarked`).
*SentIsMeant* rests on `AnswersAreKnown`: what `previousValue` has is the value that is being
checked, unless a reset has replaced it, and when none is being checked its verdict is the
server's; a form is sent only when nothing is pending, so all verdicts are.

*Assumptions.* Besides the named assumptions on constants there are these hypotheses:
`Seeded` and `MaxRestarts = 0`, without which the claims are false; `"reject" \notin Outcomes`,
which leaves out one filter strategy, in SuccessIsComputed and PromiseIsKept alone; and `RulesDiffer`, which the run `form` satisfies
(`MCFormAssumption`).

Only model-checked: all liveness (`RequestIsSettled`, `EveryRequestAnswered`,
`EveryItemIsDone`, `WaitersAreServed`, `BusStarts`, and the liveness in `RpcPromise`, so
that `KeepsPromise` as a whole is checked and its safety part proved), which TLAPS cannot prove
under fairness. Every invariant and every other action property of the runs is proved.

## 6. Not modelled

* Automatic recovery of the RPC channels after a broken connection, a crash of the client,
  and a broker restart under RPC: the client's calls end with their process, and to the host
  a lost connection is `Crash` or `Stop`.
* Recovery of a work queue's channel while the broker goes on (`BrokerRestart` has both at once).
* A timer that fires before `BasicPublish` (it has two minutes).
* Several services on one host share only threads.
* The contents of messages, argument binding and serialization; a failure of any of them
  is the outcome `throws`.
* The connect loop of the client's proxies: it leaves its loop after the first failure, which
  is what the mutant `FailGivesUp` of the bus's loop does. Two threads that ask the provider for
  its connection at once may open two.
* The Entity Framework provider beyond versioned writes of one row: `RemoveAsync`, several
  keys, transactions.
* `CalculateBackoffTime`'s 32-bit arithmetic, which overflows for more retries than the default.
* Numbers in a form with a sign, decimals, leading zeros or other characters.
* Errors of the HTTP request of a remote check (they block the form), the groups and ignore
  options, messages and patterns of the form's validation.
* Dependency injection, options builders, logging, samples other than Counter and the form
  validation, jQuery, Bootstrap, and `site.js`, which has only comments.

## 7. Plan

1. Done: RPC, optimistic concurrency, work queue, state providers, filter pipelines, event bus
   with the connections, form validation.
2. `VersionedStore`: the Entity Framework provider with `RemoveAsync`, several keys and
   transactions; a version read before a deletion must not match after it.
3. `Backoff`: `CalculateBackoffTime` in 32-bit arithmetic; the client's connect loop.
4. Done: proofs of all safety properties that the runs check, among them the refinements of
   `AtomicCounter`, `DurableQueue`, `AtomicStore` and the safety part of `RpcPromise`.
5. Proofs: `DurableQueue` with restarts of the broker, as an action of its own; that what
   `FileState` writes is what its pending operations meant.
