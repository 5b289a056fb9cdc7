----------------------------- MODULE RpcSystem -----------------------------
(***************************************************************************)
(* Remote procedure calls end to end: RabbitServiceClient, the broker and  *)
(* the replicas of RabbitServiceHost, composed by interleaving.            *)
(***************************************************************************)
EXTENDS RpcClient, RpcHost

vars == <<brokerVars, clientVars, hostVars>>

Init == BrokerInit /\ ClientInit /\ HostInit

Client(c) == ClientStep(c) /\ UNCHANGED hostVars
Host == HostStep /\ UNCHANGED clientVars

Next == Host \/ \E c \in Calls : Client(c)

(***************************************************************************)
(* Fairness.  The runtime schedules every continuation and timer; the      *)
(* broker delivers what is queued to a consumer that has credit, and the   *)
(* dispatcher hands deliveries to their handlers; a started execution      *)
(* proceeds, provided that actions return.  Nobody has to invoke or cancel *)
(* a call, and nothing obliges a process to start, stop or crash.          *)
(***************************************************************************)
ClientProgress(c) ==
  \/ SendRequest(c) \/ Resume(c) \/ Return(c)
  \/ TimerMarks(c) \/ TimerFaults(c) \/ TimerFaultsInline(c) \/ TimerCancels(c)

Fairness ==
  /\ \A c \in Calls :
       /\ WF_vars(ClientProgress(c) /\ UNCHANGED hostVars)
       /\ WF_vars(TimerRemoves(c) /\ UNCHANGED hostVars)
       /\ WF_vars((OnResponse(c) \/ OnBasicReturn(c)) /\ UNCHANGED hostVars)
       /\ WF_vars(TryComplete(c) /\ UNCHANGED hostVars)
       /\ WF_vars((\E h \in Hosts : OnInvokeRequest(h, c)) /\ UNCHANGED clientVars)
  /\ \A h \in Hosts, c \in Calls : WF_vars(OnCancelRequest(h, c) /\ UNCHANGED clientVars)
  /\ \A d \in Deliveries : WF_vars(Execute(d) /\ UNCHANGED clientVars)

Spec == Init /\ [][Next]_vars
FairSpec == Spec /\ Fairness
-----------------------------------------------------------------------------
(***************************************************************************)
(* Properties.                                                             *)
(***************************************************************************)

\* Every variable stays in the set the code's types give it; in particular an
\* action is executed at most MaxRetries + 2 times per delivery.
TypeOK == BrokerTypeOK /\ ClientTypeOK /\ HostTypeOK

Succeeded(c) == phase[c] = "returned" /\ exception[c] = "none"

\* The calls some execution of which has a result to return: the action's own,
\* or the default value that stands for it.
Computed == {CallOf(d) : d \in {e \in Deliveries : outcome[e] \in {"value", "default"}}}

\* A call that returns without throwing was executed to its end by some replica:
\* no mix-up of correlation ids, race with the timer or crash of a host makes a
\* success out of nothing (RabbitServiceClient 200-225, RabbitServiceHost 239-293).
SuccessWasComputed == \A c \in Calls : Succeeded(c) => c \in Computed

\* With RejectRequest too, a call that returns without throwing was executed by a
\* replica to an end that is no exception: the response of another call of the same
\* proxy never completes it (RabbitServiceClient 53-58 finds a response's call by its
\* correlation id).
SuccessIsOwn ==
  \A c \in Calls : Succeeded(c) =>
    \E d \in Deliveries : CallOf(d) = c /\ outcome[d] \in {"value", "default", "reject"}

\* Only the caller's own cancellation makes a call end as aborted, although the
\* timer's callback broadcasts the same message for a call that has timed out.
AbortedOnlyOnRequest ==
  \A c \in Calls : status[c] = "Aborted" => c \in callerCancelled

\* Once an invocation has returned, neither the timer's callback nor a late or
\* duplicated response changes the status and the exception its caller and the
\* filters were given (RabbitServiceClient 176-188: the registration's disposal).
OutcomeIsFinal ==
  [][\A c \in Calls : phase[c] = "returned" =>
       UNCHANGED <<phase[c], status[c], exception[c]>>]_vars

\* The status filters see is the one that belongs to what the caller gets.  The
\* one exception the code allows is the status TimedOut on a call that has been
\* answered: then the timer had already removed the call from _requests.
StatusAgreesOrTimerRaced ==
  \A c \in Calls : phase[c] = "returned" =>
    \/ status[c] = StatusOf(tcs[c])
    \/ status[c] = "TimedOut" /\ c \notin requests /\ tcs[c] # "timeout"

\* The broker forgets a request on Ack only when its answer is safe: under way to
\* the client, in the hands of its consumer, or taken, unless the client has given
\* up (RabbitServiceHost 293-296 publishes first).
AckedAnswerNotLost ==
  \A d \in Deliveries : tag[d] = "acked" =>
    LET c == CallOf(d) IN
    \/ \E m \in inbound : m.call = c /\ m.from = d[2]
    \/ held[c] # "nothing" \/ tcs[c] # "open" \/ c \notin requests

\* An earlier delivery of d's request to d's host, where RejectRequest gave the request
\* back and where it was answered nevertheless.
RejectedBefore(e, d) ==
  /\ CallOf(e) = CallOf(d) /\ site[e] = site[d] /\ e[2] < d[2]
  /\ outcome[e] = "reject" /\ pc[e] = "over"

\* While an action runs, the token that a cancellation of its request would find
\* in _ongoingRequests is its own, although executions of one request may share a host
\* and its entry.  Only an execution that has rejected the request before can have taken
\* the token away, and by then its second settlement has closed the channel.
ExecutingIsCancellable ==
  \A d \in Deliveries : Executing(d) =>
    \/ ongoing[site[d]][CallOf(d)] = d[2]
    \/ /\ ongoing[site[d]][CallOf(d)] = 0
       /\ link[site[d]] # "open"
       /\ \E e \in Deliveries : RejectedBefore(e, d)

\* One request is not executed by two connected replicas at once: a second
\* execution exists only beside one whose host has lost its channel.
NoConcurrentExecution ==
  \A d, e \in Deliveries :
    /\ Executing(d) /\ link[site[d]] = "open"
    /\ Executing(e) /\ link[site[e]] = "open"
    /\ CallOf(d) = CallOf(e)
    => d = e

Settled(c) == \E d \in Deliveries : CallOf(d) = c /\ tag[d] \in {"acked", "dropped"}

\* A queued request is in the end acknowledged or dropped by a replica, through
\* failures of the pipeline, retries, cancellations and the loss of its host, unless
\* the queue itself disappears with its last consumer.
RequestIsSettled ==
  \A c \in Calls : c \in queued ~> Settled(c) \/ ~QueueExists

\* The system implements what RpcPromise says to a caller.
ResultSeen(c) ==
  CASE phase[c] = "idle" -> "none"
    [] phase[c] = "returned" -> StatusOf(tcs[c])
    [] OTHER -> "pending"

Promise == INSTANCE RpcPromise WITH
  result <- [c \in Calls |-> ResultSeen(c)],
  computed <- Computed,
  wanted <- callerCancelled

\* RabbitRPC keeps its promise to a caller, safety and liveness: see RpcPromise.
KeepsPromise == Promise!Spec
-----------------------------------------------------------------------------
(***************************************************************************)
(* What the documentation says, and the code does not do.                  *)
(***************************************************************************)

\* ExceptionHandlingStrategy.RejectRequest: "Reject the action invocation request
\* so that it can be re-dispatched".  So a replica that rejects does not answer.
RejectedIsNotAnswered ==
  \A m \in inbound :
    \A d \in Deliveries : d = <<m.call, m.from>> => ~(outcome[d] = "reject" /\ m.kind = "null")
=============================================================================
