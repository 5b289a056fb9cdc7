------------------------------ MODULE RpcHost ------------------------------
(***************************************************************************)
(* RabbitServiceHost: how a replica receives, executes, re-executes,       *)
(* answers, acknowledges and cancels requests.  Every delivery is executed *)
(* by its own unawaited ExecuteRequestAsync, so the deliveries of one host *)
(* interleave with each other and with the cancellation consumer wherever  *)
(* that method awaits; its statements that talk to the broker are separate *)
(* steps too, because the process or its channel can die between them.     *)
(*                                                                         *)
(* The filter pipeline around the action and the action itself are one     *)
(* step with the outcomes the method distinguishes.  A re-execution comes  *)
(* from RetryOnConcurrencyErrorAttribute, the filter that asks for one.    *)
(***************************************************************************)
EXTENDS RpcBroker

CONSTANTS
  Outcomes,       \* the outcomes of actions and filters in this instance
  GenericCalls,   \* requests for an action that returns Task<T>
  MaxRetries,     \* RetryOnConcurrencyErrorAttribute.MaximumRetries
  MaxCrashes      \* bound: processes that crash or are stopped

\* How the execution of an action, with its filters, can end:
\*   value      the action returns
\*   propagate, default, reject   it throws, and the filters leave that strategy
\*   conflict   it throws ConcurrencyException (never the last word: the filter
\*              asks for "reexecute", or at last leaves "propagate")
\*   unknown    the service has no such action
\*   throws     a filter, a binding or a deserialization throws
AllOutcomes == {"value", "propagate", "default", "reject", "conflict", "unknown", "throws"}

ASSUME HostAssumption ==
  /\ Outcomes \subseteq AllOutcomes
  /\ GenericCalls \subseteq Calls
  /\ MaxRetries \in Nat
  /\ MaxCrashes \in Nat

VARIABLES
  pc,        \* pc[d]: where ExecuteRequestAsync stands for delivery d
  runs,      \* runs[d]: `execution`, how often START has been passed
  outcome,   \* outcome[d]: how the latest execution ended
  ongoing,   \* ongoing[h][c]: the delivery whose token is _ongoingRequests[c], or 0
  aborted,   \* deliveries whose CancellationTokenSource has been cancelled
  disposed,  \* deliveries whose CancellationTokenSource has been disposed
  crashes    \* number of crashes and stops so far

hostVars == <<pc, runs, outcome, ongoing, aborted, disposed, crashes>>

PCs == {"none", "buffered", "running", "backoff", "ran", "rejected", "replied",
        "failed", "settled", "over"}
Ends == AllOutcomes \union {"none", "reexecute"}

HostTypeOK ==
  /\ pc \in [Deliveries -> PCs]
  /\ runs \in [Deliveries -> 0..(MaxRetries + 2)]
  /\ outcome \in [Deliveries -> Ends]
  /\ ongoing \in [Hosts -> [Calls -> 0..MaxDeliveries]]
  /\ aborted \subseteq Deliveries
  /\ disposed \subseteq Deliveries
  /\ crashes \in 0..MaxCrashes

HostInit ==
  /\ pc = [d \in Deliveries |-> "none"]
  /\ runs = [d \in Deliveries |-> 0]
  /\ outcome = [d \in Deliveries |-> "none"]
  /\ ongoing = [h \in Hosts |-> [c \in Calls |-> 0]]
  /\ aborted = {}
  /\ disposed = {}
  /\ crashes = 0

\* d is being executed: its action or the filters around it may be running.
Executing(d) == pc[d] \in {"running", "backoff"}

Goto(d, label) == pc' = [pc EXCEPT ![d] = label]
-----------------------------------------------------------------------------
\* Process and connection.

\* StartAsync: connect, declare the queues, consume.  (A process that has died
\* is restarted as a new one under the same name.)
Start(h) ==
  /\ link[h] = "down"
  /\ link' = [link EXCEPT ![h] = "open"]
  /\ UNCHANGED <<queued, delivered, site, tag, inbound, cancels>>
  /\ UNCHANGED hostVars

\* StopAsync disposes the channels and the connection under the executions
\* that are still going on, then stops the loop that starts new ones.
Stop(h) ==
  /\ link[h] \in {"open", "faulted"}
  /\ crashes < MaxCrashes
  /\ crashes' = crashes + 1
  /\ LoseConsumer(h, "stopped")
  /\ cancels' = [cancels EXCEPT ![h] = {}]
  /\ UNCHANGED <<pc, runs, outcome, ongoing, aborted, disposed>>

\* The process dies with everything it was doing.
Crash(h) ==
  /\ link[h] # "down"
  /\ crashes < MaxCrashes
  /\ crashes' = crashes + 1
  /\ LoseConsumer(h, "down")
  /\ cancels' = [cancels EXCEPT ![h] = {}]
  /\ pc' = [d \in Deliveries |-> IF site[d] = h THEN "over" ELSE pc[d]]
  /\ runs' = [d \in Deliveries |-> IF site[d] = h THEN 0 ELSE runs[d]]
  /\ ongoing' = [ongoing EXCEPT ![h] = [c \in Calls |-> 0]]
  /\ aborted' = {d \in aborted : site[d] # h}
  /\ disposed' = {d \in disposed : site[d] # h}
  /\ UNCHANGED outcome
-----------------------------------------------------------------------------
\* Reception.

\* OnInvokeRequestAsync copies the request into _requestChannel.  The channel
\* has room: its capacity is the prefetch count.
OnInvokeRequest(h, c) ==
  /\ HandOut(h, c)
  /\ Goto(<<c, delivered[c] + 1>>, "buffered")
  /\ UNCHANGED <<runs, outcome, ongoing, aborted, disposed, crashes>>

\* Mutant: a token that is registered already stays.
BeginKeepsToken(d) ==
  /\ pc[d] = "buffered"
  /\ link[site[d]] # "stopped"
  /\ Goto(d, "running")
  /\ runs' = [runs EXCEPT ![d] = 1]
  /\ ongoing' = [ongoing EXCEPT ![site[d]][d[1]] = IF @ = 0 THEN d[2] ELSE @]
  /\ UNCHANGED <<outcome, aborted, disposed, crashes>>
  /\ UNCHANGED brokerVars

\* ReadChannelAsync takes a request and starts ExecuteRequestAsync, which
\* registers a token for the correlation id, replacing one that is there.
Begin(d) ==
  /\ pc[d] = "buffered"
  /\ link[site[d]] # "stopped"
  /\ Goto(d, "running")
  /\ runs' = [runs EXCEPT ![d] = 1]
  /\ ongoing' = [ongoing EXCEPT ![site[d]][d[1]] = d[2]]
  /\ UNCHANGED <<outcome, aborted, disposed, crashes>>
  /\ UNCHANGED brokerVars

\* A cancellation finds the registered token of its request, or is dropped.
OnCancelRequest(h, c) ==
  /\ c \in cancels[h]
  /\ cancels' = [cancels EXCEPT ![h] = @ \ {c}]
  /\ aborted' = IF ongoing[h][c] = 0 THEN aborted
                ELSE aborted \union {<<c, ongoing[h][c]>>}
  /\ UNCHANGED <<pc, runs, outcome, ongoing, disposed, crashes>>
  /\ UNCHANGED <<queued, delivered, site, tag, inbound, link>>
-----------------------------------------------------------------------------
\* Execution.

\* The pipeline completes: with the action's value, or with an exception and
\* the strategy the filters left for it, or without finding the action.
Complete(d, o) ==
  /\ pc[d] = "running"
  /\ o \in Outcomes \ {"conflict", "throws"}
  /\ o = "unknown" => runs[d] = 1
  /\ outcome' = [outcome EXCEPT ![d] = o]
  /\ Goto(d, "ran")
  /\ UNCHANGED <<runs, ongoing, aborted, disposed, crashes>>
  /\ UNCHANGED brokerVars

PipelineThrows(d) ==
  /\ pc[d] = "running"
  /\ "throws" \in Outcomes
  /\ outcome' = [outcome EXCEPT ![d] = "throws"]
  /\ Goto(d, "failed")
  /\ UNCHANGED <<runs, ongoing, aborted, disposed, crashes>>
  /\ UNCHANGED brokerVars

\* Mutant: one retry more.
MayRetryOnceMore(d) == runs[d] - 1 <= MaxRetries + 1

\* RetryOnConcurrencyErrorAttribute, where ExecutionId is runs[d] - 1.
MayRetry(d) == runs[d] - 1 <= MaxRetries

\* Mutant: a conflict also hands the request back to the broker.
ConflictRequeues(d) ==
  /\ pc[d] = "running"
  /\ "conflict" \in Outcomes
  /\ outcome' = [outcome EXCEPT ![d] = "conflict"]
  /\ Goto(d, "backoff")
  /\ IF link[site[d]] = "open" THEN Settle(d, "requeued") ELSE UNCHANGED brokerVars
  /\ UNCHANGED <<runs, ongoing, aborted, disposed, crashes>>

Conflict(d) ==
  /\ pc[d] = "running"
  /\ "conflict" \in Outcomes
  /\ IF MayRetry(d)
     THEN /\ Goto(d, "backoff")
          /\ outcome' = [outcome EXCEPT ![d] = "conflict"]
     ELSE /\ Goto(d, "ran")
          /\ outcome' = [outcome EXCEPT ![d] = "propagate"]
  /\ UNCHANGED <<runs, ongoing, aborted, disposed, crashes>>
  /\ UNCHANGED brokerVars

BackoffElapses(d) ==
  /\ pc[d] = "backoff"
  /\ d \notin aborted
  /\ outcome' = [outcome EXCEPT ![d] = "reexecute"]
  /\ Goto(d, "ran")
  /\ UNCHANGED <<runs, ongoing, aborted, disposed, crashes>>
  /\ UNCHANGED brokerVars

\* Task.Delay throws when RequestAborted is cancelled, out of the pipeline.
BackoffAborted(d) ==
  /\ pc[d] = "backoff"
  /\ d \in aborted
  /\ Goto(d, "failed")
  /\ UNCHANGED <<runs, outcome, ongoing, aborted, disposed, crashes>>
  /\ UNCHANGED brokerVars

\* `goto START`, unless the request was aborted meanwhile.  Making properties on a
\* disposed channel, or reading the Token of a disposed source, throws.
ReExecute(d) ==
  /\ pc[d] = "ran"
  /\ outcome[d] = "reexecute"
  /\ d \notin aborted
  /\ IF d \in disposed \/ link[site[d]] = "stopped"
     THEN Goto(d, "failed") /\ UNCHANGED runs
     ELSE Goto(d, "running") /\ runs' = [runs EXCEPT ![d] = @ + 1]
  /\ UNCHANGED <<outcome, ongoing, aborted, disposed, crashes>>
  /\ UNCHANGED brokerVars
-----------------------------------------------------------------------------
\* Settlement: response, acknowledgement, removal.

\* RejectRequest: a Nack with requeue, after which execution goes on.
Reject(d) ==
  /\ pc[d] = "ran"
  /\ outcome[d] = "reject"
  /\ d \notin aborted
  /\ IF link[site[d]] = "open"
     THEN Settle(d, "requeued") /\ Goto(d, "rejected")
     ELSE UNCHANGED brokerVars /\ Goto(d, "failed")
  /\ UNCHANGED <<runs, outcome, ongoing, aborted, disposed, crashes>>

\* ReturnDefault asks a constructed type for its generic parameter constraints,
\* which throws for every action that returns Task<T>.
ReturnDefaultThrows(d) ==
  /\ pc[d] = "ran"
  /\ outcome[d] = "default" /\ CallOf(d) \in GenericCalls
  /\ d \notin aborted
  /\ Goto(d, "failed")
  /\ UNCHANGED <<runs, outcome, ongoing, aborted, disposed, crashes>>
  /\ UNCHANGED brokerVars

\* Mutant: an exception is taken for a cancellation.
ReplyKindAllCanceled(d) ==
  CASE outcome[d] = "unknown" -> "exception"
    [] d \in aborted \/ outcome[d] = "propagate" -> "canceled"
    [] d \notin aborted /\ outcome[d] = "value" -> "value"
    [] OTHER -> "null"

\* What ResponseBody says.  A cancelled request says so whatever the action did,
\* except that an unknown action is reported before the token is looked at.
ReplyKind(d) ==
  CASE outcome[d] = "unknown" -> "exception"
    [] d \in aborted /\ outcome[d] # "unknown" -> "canceled"
    [] d \notin aborted /\ outcome[d] = "value" -> "value"
    [] d \notin aborted /\ outcome[d] = "propagate" -> "exception"
    [] OTHER -> "null"

\* The response is ready to be serialized and published (line 285).
ResponseReady(d) ==
  \/ pc[d] = "rejected"
  \/ /\ pc[d] = "ran"
     /\ \/ d \in aborted
        \/ outcome[d] \in {"value", "propagate", "unknown"}
        \/ outcome[d] = "default" /\ CallOf(d) \notin GenericCalls

Reply(d) ==
  /\ ResponseReady(d)
  /\ IF link[site[d]] = "open"
     THEN /\ PublishReply(d, IF pc[d] = "rejected" THEN "null" ELSE ReplyKind(d))
          /\ Goto(d, "replied")
     ELSE UNCHANGED brokerVars /\ Goto(d, "failed")
  /\ UNCHANGED <<runs, outcome, ongoing, aborted, disposed, crashes>>

Ack(d) ==
  /\ pc[d] = "replied"
  /\ IF link[site[d]] = "open"
     THEN Settle(d, "acked") /\ Goto(d, "settled")
     ELSE UNCHANGED brokerVars /\ Goto(d, "failed")
  /\ UNCHANGED <<runs, outcome, ongoing, aborted, disposed, crashes>>

\* Mutant: the catch block only logs.
NackMissing(d) ==
  /\ pc[d] = "failed"
  /\ Goto(d, "settled")
  /\ UNCHANGED <<runs, outcome, ongoing, aborted, disposed, crashes>>
  /\ UNCHANGED brokerVars

\* Mutant: the catch block acknowledges the request.
NackAcks(d) ==
  /\ pc[d] = "failed"
  /\ IF link[site[d]] = "open" THEN Settle(d, "acked") ELSE UNCHANGED brokerVars
  /\ Goto(d, "settled")
  /\ UNCHANGED <<runs, outcome, ongoing, aborted, disposed, crashes>>

\* The catch block: Nack without requeue.  On a dead channel it throws again.
Nack(d) ==
  /\ pc[d] = "failed"
  /\ IF link[site[d]] = "open" THEN Settle(d, "dropped") ELSE UNCHANGED brokerVars
  /\ Goto(d, "settled")
  /\ UNCHANGED <<runs, outcome, ongoing, aborted, disposed, crashes>>

\* The finally block removes, and disposes, whatever token is registered under
\* the correlation id by now; d's own variables are gone.
Finish(d) ==
  LET h == site[d]
      c == CallOf(d)
  IN  /\ pc[d] = "settled"
      /\ Goto(d, "over")
      /\ ongoing' = [ongoing EXCEPT ![h][c] = 0]
      /\ disposed' = {e \in Deliveries : \/ e \in disposed /\ e # d
                                         \/ e = <<c, ongoing[h][c]>> /\ e # d}
      /\ runs' = [runs EXCEPT ![d] = 0]
      /\ aborted' = aborted \ {d}
      /\ UNCHANGED <<outcome, crashes>>
      /\ UNCHANGED brokerVars

Execute(d) ==
  \/ Begin(d) \/ (\E o \in AllOutcomes : Complete(d, o)) \/ PipelineThrows(d)
  \/ Conflict(d) \/ BackoffElapses(d) \/ BackoffAborted(d) \/ ReExecute(d)
  \/ Reject(d) \/ ReturnDefaultThrows(d) \/ Reply(d) \/ Ack(d) \/ Nack(d)
  \/ Finish(d)

HostStep ==
  \/ \E h \in Hosts : Start(h) \/ Stop(h) \/ Crash(h)
  \/ \E h \in Hosts, c \in Calls : OnInvokeRequest(h, c) \/ OnCancelRequest(h, c)
  \/ \E d \in Deliveries : Execute(d)
=============================================================================
