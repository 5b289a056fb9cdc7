-------------------------- MODULE RpcSystemProofs --------------------------
(***************************************************************************)
(* Proofs about RpcSystem for every set of calls and hosts, every prefetch *)
(* count and retry limit, and every bound of the model.                    *)
(***************************************************************************)
EXTENDS RpcSystem, TLAPS

-----------------------------------------------------------------------------
\* Type correctness.

\* The operations on the broker keep its state in its type.
LEMMA BrokerOperationsType ==
  ASSUME BrokerTypeOK
  PROVE  /\ \A c \in Calls : PublishRequest(c) => BrokerTypeOK'
         /\ \A c \in Calls : BroadcastCancel(c) => BrokerTypeOK'
         /\ \A h \in Hosts, c \in Calls : HandOut(h, c) => BrokerTypeOK'
         /\ \A d \in Deliveries, k \in ReplyKinds : PublishReply(d, k) => BrokerTypeOK'
         /\ \A h \in Hosts, l \in LinkStates :
              LoseConsumer(h, l) /\ cancels' \in [Hosts -> SUBSET Calls] => BrokerTypeOK'
         /\ \A d \in Deliveries, s \in TagStates : Settle(d, s) => BrokerTypeOK'
         /\ UNCHANGED brokerVars => BrokerTypeOK'
<1> USE BrokerAssumption DEF BrokerTypeOK
<1>1. \A c \in Calls : PublishRequest(c) => BrokerTypeOK'
  BY DEF PublishRequest, Messages, MessageKinds
<1>2. \A c \in Calls : BroadcastCancel(c) => BrokerTypeOK'
  BY DEF BroadcastCancel
<1>3. \A h \in Hosts, c \in Calls : HandOut(h, c) => BrokerTypeOK'
  <2> SUFFICES ASSUME NEW h \in Hosts, NEW c \in Calls, HandOut(h, c)
               PROVE  BrokerTypeOK'
    OBVIOUS
  <2>1. delivered[c] + 1 \in 1..MaxDeliveries
    BY DEF HandOut
  <2> QED
    BY <2>1 DEF HandOut, Deliveries, TagStates
<1>4. \A d \in Deliveries, k \in ReplyKinds : PublishReply(d, k) => BrokerTypeOK'
  BY DEF PublishReply, Deliveries, Messages, MessageKinds
<1>5. \A h \in Hosts, l \in LinkStates :
        LoseConsumer(h, l) /\ cancels' \in [Hosts -> SUBSET Calls] => BrokerTypeOK'
  <2> SUFFICES ASSUME NEW h \in Hosts, NEW l \in LinkStates, LoseConsumer(h, l),
                      cancels' \in [Hosts -> SUBSET Calls]
               PROVE  BrokerTypeOK'
    OBVIOUS
  <2>1. {CallOf(d) : d \in Unacked(h)} \subseteq Calls
    BY DEF Unacked, CallOf, Deliveries
  <2>2. tag' \in [Deliveries -> TagStates]
    BY DEF LoseConsumer, TagStates
  <2> QED
    BY <2>1, <2>2 DEF LoseConsumer
<1>6. \A d \in Deliveries, s \in TagStates : Settle(d, s) => BrokerTypeOK'
  <2> SUFFICES ASSUME NEW d \in Deliveries, NEW s \in TagStates, Settle(d, s)
               PROVE  BrokerTypeOK'
    OBVIOUS
  <2>1. CASE tag[d] = "unacked"
    BY <2>1 DEF Settle, CallOf, Deliveries, TagStates
  <2>2. CASE tag[d] # "unacked"
    <3>1. {CallOf(e) : e \in Unacked(site[d])} \subseteq Calls
      BY DEF Unacked, CallOf, Deliveries
    <3>2. LoseConsumer(site[d], "faulted") /\ UNCHANGED cancels
      BY <2>2 DEF Settle
    <3>3. tag' \in [Deliveries -> TagStates]
      BY <3>2 DEF LoseConsumer, TagStates
    <3>4. link' \in [Hosts -> LinkStates]
      BY <3>2 DEF LoseConsumer, LinkStates
    <3> QED
      BY <3>1, <3>2, <3>3, <3>4 DEF LoseConsumer
  <2> QED
    BY <2>1, <2>2
<1>7. UNCHANGED brokerVars => BrokerTypeOK'
  BY DEF brokerVars
<1> QED
  BY <1>1, <1>2, <1>3, <1>4, <1>5, <1>6, <1>7

\* Every step of a client keeps the types.
LEMMA ClientStepType ==
  ASSUME BrokerTypeOK, ClientTypeOK, NEW c \in Calls, ClientStep(c)
  PROVE  BrokerTypeOK' /\ ClientTypeOK'
<1> USE DEF ClientTypeOK, Phases, Completions, MessageKinds, ReplyKinds,
            RequestStatus, Exceptions, TimerStates, RegStates
<1>1. CASE Invoke(c)
  BY <1>1, BrokerOperationsType DEF Invoke
<1>2. CASE SendRequest(c)
  BY <1>2, BrokerOperationsType DEF SendRequest
<1>3. CASE Resume(c)
  <2>1. StatusOf(tcs[c]) \in RequestStatus
    BY DEF StatusOf
  <2>2. ExceptionOf(tcs[c]) \in Exceptions
    BY DEF ExceptionOf
  <2> QED
    BY <1>3, <2>1, <2>2, BrokerOperationsType DEF Resume
<1>4. CASE Return(c)
  BY <1>4, BrokerOperationsType DEF Return
<1>5. CASE CallerCancel(c)
  BY <1>5, BrokerOperationsType DEF CallerCancel
<1>6. ASSUME NEW m \in inbound, m.call = c, Receive(m)
      PROVE  BrokerTypeOK' /\ ClientTypeOK'
  <2>1. m.kind \in MessageKinds
    BY DEF BrokerTypeOK, Messages
  <2>2. BrokerTypeOK'
    BY <1>6 DEF Receive, BrokerTypeOK
  <2> QED
    BY <1>6, <2>1, <2>2 DEF Receive
<1>7. CASE OnResponse(c)
  BY <1>6, <1>7 DEF OnResponse
<1>8. CASE OnBasicReturn(c)
  BY <1>6, <1>8 DEF OnBasicReturn
<1>9. CASE TryComplete(c)
  BY <1>9, BrokerOperationsType DEF TryComplete
<1>10. CASE TimerRemoves(c)
  BY <1>10, BrokerOperationsType DEF TimerRemoves
<1>11. CASE TimerMarks(c)
  BY <1>11, BrokerOperationsType DEF TimerMarks
<1>12. CASE TimerFaults(c)
  BY <1>12, BrokerOperationsType DEF TimerFaults
<1>13. CASE TimerFaultsInline(c)
  BY <1>13, BrokerOperationsType DEF TimerFaultsInline, StatusOf, ExceptionOf
<1>14. CASE TimerCancels(c)
  BY <1>14, BrokerOperationsType DEF TimerCancels
<1> QED
  BY <1>1, <1>2, <1>3, <1>4, <1>5, <1>7, <1>8, <1>9, <1>10, <1>11, <1>12, <1>13, <1>14
     DEF ClientStep

\* A delivery that waits for, or has decided on, a re-execution is entitled to it.
BackoffBounded ==
  \A d \in Deliveries :
    pc[d] = "backoff" \/ (pc[d] = "ran" /\ outcome[d] = "reexecute") => MayRetry(d)

\* What an execution's own step does to the types.
LEMMA ExecuteType ==
  ASSUME BrokerTypeOK, HostTypeOK, BackoffBounded, NEW d \in Deliveries, Execute(d)
  PROVE  BrokerTypeOK' /\ HostTypeOK' /\ BackoffBounded'
<1> USE HostAssumption, BrokerAssumption
    DEF HostTypeOK, BackoffBounded, MayRetry, PCs, Ends, AllOutcomes, Goto, CallOf
<1>1. CASE Begin(d)
  <2>1. d[1] \in Calls /\ d[2] \in 0..MaxDeliveries
    BY DEF Deliveries
  <2>2. ongoing' = [ongoing EXCEPT ![site[d]] = [ongoing[site[d]] EXCEPT ![d[1]] = d[2]]]
    BY <1>1 DEF Begin
  <2>3. ongoing' \in [Hosts -> [Calls -> 0..MaxDeliveries]]
    BY <2>1, <2>2
  <2>4. BrokerTypeOK'
    BY <1>1, BrokerOperationsType DEF Begin
  <2>5. runs' \in [Deliveries -> 0..(MaxRetries + 2)]
    BY <1>1 DEF Begin
  <2> QED
    BY <1>1, <2>3, <2>4, <2>5 DEF Begin
<1>2. CASE \E o \in AllOutcomes : Complete(d, o)
  BY <1>2, BrokerOperationsType DEF Complete
<1>3. CASE PipelineThrows(d)
  BY <1>3, BrokerOperationsType DEF PipelineThrows
<1>4. CASE Conflict(d)
  BY <1>4, BrokerOperationsType DEF Conflict
<1>5. CASE BackoffElapses(d)
  BY <1>5, BrokerOperationsType DEF BackoffElapses
<1>6. CASE BackoffAborted(d)
  BY <1>6, BrokerOperationsType DEF BackoffAborted
<1>7. CASE ReExecute(d)
  BY <1>7, BrokerOperationsType DEF ReExecute
<1>8. CASE Reject(d)
  BY <1>8, BrokerOperationsType DEF Reject, TagStates
<1>9. CASE ReturnDefaultThrows(d)
  BY <1>9, BrokerOperationsType DEF ReturnDefaultThrows
<1>10. CASE Reply(d)
  <2>1. ReplyKind(d) \in ReplyKinds
    BY DEF ReplyKind, ReplyKinds
  <2>2. "null" \in ReplyKinds
    BY DEF ReplyKinds
  <2> QED
    BY <1>10, <2>1, <2>2, BrokerOperationsType DEF Reply
<1>11. CASE Ack(d)
  BY <1>11, BrokerOperationsType DEF Ack, TagStates
<1>12. CASE Nack(d)
  BY <1>12, BrokerOperationsType DEF Nack, TagStates
<1>13. CASE Finish(d)
  <2>1. ongoing' = [ongoing EXCEPT ![site[d]] = [ongoing[site[d]] EXCEPT ![d[1]] = 0]]
    BY <1>13 DEF Finish
  <2>a. d[1] \in Calls /\ 0 \in 0..MaxDeliveries
    BY DEF Deliveries
  <2>2. ongoing' \in [Hosts -> [Calls -> 0..MaxDeliveries]]
    BY <2>1, <2>a
  <2>3. BrokerTypeOK'
    BY <1>13, BrokerOperationsType DEF Finish
  <2>4. runs' \in [Deliveries -> 0..(MaxRetries + 2)]
    BY <1>13 DEF Finish
  <2>5. BackoffBounded'
    BY <1>13 DEF Finish
  <2>6. disposed' \subseteq Deliveries
    BY <1>13 DEF Finish
  <2> QED
    BY <1>13, <2>2, <2>3, <2>4, <2>5, <2>6 DEF Finish
<1> QED
  BY <1>1, <1>2, <1>3, <1>4, <1>5, <1>6, <1>7, <1>8, <1>9, <1>10, <1>11, <1>12, <1>13
     DEF Execute

LEMMA HostStepType ==
  ASSUME BrokerTypeOK, HostTypeOK, BackoffBounded, HostStep
  PROVE  BrokerTypeOK' /\ HostTypeOK' /\ BackoffBounded'
<1> USE HostAssumption, BrokerAssumption
    DEF HostTypeOK, BackoffBounded, MayRetry, PCs, Goto
<1>1. ASSUME NEW h \in Hosts, Start(h)
      PROVE  BrokerTypeOK' /\ HostTypeOK' /\ BackoffBounded'
  <2>1. BrokerTypeOK'
    BY <1>1 DEF Start, BrokerTypeOK, LinkStates
  <2> QED
    BY <1>1, <2>1 DEF Start, hostVars
<1>2. ASSUME NEW h \in Hosts, Stop(h)
      PROVE  BrokerTypeOK' /\ HostTypeOK' /\ BackoffBounded'
  <2>1. cancels' \in [Hosts -> SUBSET Calls]
    BY <1>2 DEF Stop, BrokerTypeOK
  <2>2. BrokerTypeOK'
    BY <1>2, <2>1, BrokerOperationsType DEF Stop, LinkStates
  <2> QED
    BY <1>2, <2>2 DEF Stop
<1>3. ASSUME NEW h \in Hosts, Crash(h)
      PROVE  BrokerTypeOK' /\ HostTypeOK' /\ BackoffBounded'
  <2>1. cancels' \in [Hosts -> SUBSET Calls]
    BY <1>3 DEF Crash, BrokerTypeOK
  <2>2. BrokerTypeOK'
    BY <1>3, <2>1, BrokerOperationsType DEF Crash, LinkStates
  <2>3. ongoing' \in [Hosts -> [Calls -> 0..MaxDeliveries]]
    BY <1>3 DEF Crash
  <2>4. pc' \in [Deliveries -> PCs] /\ runs' \in [Deliveries -> 0..(MaxRetries + 2)]
    BY <1>3 DEF Crash
  <2>5. BackoffBounded'
    BY <1>3 DEF Crash
  <2>6. aborted' \subseteq Deliveries /\ disposed' \subseteq Deliveries
    BY <1>3 DEF Crash
  <2> QED
    BY <1>3, <2>2, <2>3, <2>4, <2>5, <2>6 DEF Crash
<1>4. ASSUME NEW h \in Hosts, NEW c \in Calls, OnInvokeRequest(h, c)
      PROVE  BrokerTypeOK' /\ HostTypeOK' /\ BackoffBounded'
  <2>1. BrokerTypeOK'
    BY <1>4, BrokerOperationsType DEF OnInvokeRequest
  <2> QED
    BY <1>4, <2>1 DEF OnInvokeRequest
<1>5. ASSUME NEW h \in Hosts, NEW c \in Calls, OnCancelRequest(h, c)
      PROVE  BrokerTypeOK' /\ HostTypeOK' /\ BackoffBounded'
  <2>1. BrokerTypeOK'
    BY <1>5 DEF OnCancelRequest, BrokerTypeOK
  <2>2. ongoing[h][c] # 0 => <<c, ongoing[h][c]>> \in Deliveries
    BY DEF Deliveries
  <2> QED
    BY <1>5, <2>1, <2>2 DEF OnCancelRequest
<1>6. ASSUME NEW d \in Deliveries, Execute(d)
      PROVE  BrokerTypeOK' /\ HostTypeOK' /\ BackoffBounded'
  BY <1>6, ExecuteType
<1> QED
  BY <1>1, <1>2, <1>3, <1>4, <1>5, <1>6 DEF HostStep

TypeInv == TypeOK /\ BackoffBounded

LEMMA TypeInvInit == Init => TypeInv
<1> SUFFICES ASSUME Init PROVE TypeInv
  OBVIOUS
<1> USE BrokerAssumption, HostAssumption DEF Init
<1>1. BrokerTypeOK
  BY DEF BrokerInit, BrokerTypeOK, TagStates, LinkStates
<1>2. ClientTypeOK
  BY DEF ClientInit, ClientTypeOK, Phases, Completions, MessageKinds, ReplyKinds,
         RequestStatus, Exceptions, TimerStates, RegStates
<1>3. HostTypeOK
  BY DEF HostInit, HostTypeOK, PCs, Ends
<1>4. BackoffBounded
  BY DEF HostInit, BackoffBounded
<1> QED
  BY <1>1, <1>2, <1>3, <1>4 DEF TypeInv, TypeOK

LEMMA TypeInvNext == TypeInv /\ [Next]_vars => TypeInv'
<1> SUFFICES ASSUME TypeInv, [Next]_vars PROVE TypeInv'
  OBVIOUS
<1> USE DEF TypeInv, TypeOK
<1>1. CASE Host
  <2>1. BrokerTypeOK' /\ HostTypeOK' /\ BackoffBounded'
    BY <1>1, HostStepType DEF Host
  <2>2. ClientTypeOK'
    BY <1>1 DEF Host, clientVars, ClientTypeOK
  <2> QED
    BY <2>1, <2>2
<1>2. ASSUME NEW c \in Calls, Client(c)
      PROVE  TypeInv'
  <2>1. BrokerTypeOK' /\ ClientTypeOK'
    BY <1>2, ClientStepType DEF Client
  <2>2. HostTypeOK' /\ BackoffBounded'
    BY <1>2 DEF Client, hostVars, HostTypeOK, BackoffBounded, MayRetry
  <2> QED
    BY <2>1, <2>2
<1>3. CASE UNCHANGED vars
  BY <1>3 DEF vars, brokerVars, clientVars, hostVars, BrokerTypeOK, ClientTypeOK,
              HostTypeOK, BackoffBounded, MayRetry
<1> QED
  BY <1>1, <1>2, <1>3 DEF Next

\* Every variable keeps its type and no delivery is executed more than
\* MaxRetries + 2 times, in every behaviour of the system.
THEOREM TypeCorrect == Spec => []TypeOK
<1>1. Spec => []TypeInv
  BY TypeInvInit, TypeInvNext, PTL DEF Spec
<1>2. TypeInv => TypeOK
  BY DEF TypeInv
<1> QED
  BY <1>1, <1>2, PTL

-----------------------------------------------------------------------------
\* A call succeeds only if it was executed to an end.  The proof follows the result
\* from the execution that produced it to the caller: the response on its way, the
\* consumer's hands, the TaskCompletionSource, the exception that is not thrown.

\* The outcomes for which a response carries no exception, and the calls with one.
Answers == {"value", "default", "reject"}
Answered == {CallOf(d) : d \in {e \in Deliveries : outcome[e] \in Answers}}

\* Only a request that was rejected is answered after it was handed back.
RejectedByChoice == \A d \in Deliveries : pc[d] = "rejected" => outcome[d] = "reject"

\* Without RejectRequest there is no such request.
NeverRejected == \A d \in Deliveries : outcome[d] # "reject"

\* A delivery number that has not been given out is untouched.
FreshDeliveries ==
  \A d \in Deliveries : d[2] > delivered[d[1]] => pc[d] = "none" /\ site[d] = Nowhere

\* A delivery has no result before its execution ends, so none is overwritten.
NoEarlyResult ==
  \A d \in Deliveries : pc[d] \in {"none", "buffered", "running", "backoff"} =>
    outcome[d] \notin Answers

HostResults == RejectedByChoice /\ FreshDeliveries /\ NoEarlyResult

Successes == {"value", "null"}

ResultsAreAnswers ==
  /\ \A m \in inbound : m.kind \in Successes => m.call \in Answered
  /\ \A c \in Calls : held[c] \in Successes => c \in Answered
  /\ \A c \in Calls : tcs[c] \in Successes => c \in Answered
  /\ \A c \in Calls :
       phase[c] \in {"closing", "returned"} /\ exception[c] = "none" => c \in Answered

\* What a host's own step preserves, and that it loses no result.
LEMMA ExecuteResults ==
  ASSUME BrokerTypeOK, HostTypeOK, HostResults,
         NEW d \in Deliveries, Execute(d)
  PROVE  HostResults' /\ Answered \subseteq Answered'
<1> USE DEF HostResults, RejectedByChoice, FreshDeliveries, NoEarlyResult, Answers, Answered,
            Goto, HostTypeOK
<1>1. CASE Begin(d)
  BY <1>1 DEF Begin, brokerVars
<1>2. CASE \E o \in AllOutcomes : Complete(d, o)
  BY <1>2 DEF Complete, brokerVars
<1>3. CASE PipelineThrows(d)
  BY <1>3 DEF PipelineThrows, brokerVars
<1>4. CASE Conflict(d)
  BY <1>4 DEF Conflict, brokerVars
<1>5. CASE BackoffElapses(d)
  BY <1>5 DEF BackoffElapses, brokerVars
<1>6. CASE BackoffAborted(d)
  BY <1>6 DEF BackoffAborted, brokerVars
<1>7. CASE ReExecute(d)
  BY <1>7 DEF ReExecute, brokerVars
<1>8. CASE Reject(d)
  BY <1>8 DEF Reject, Settle, LoseConsumer, brokerVars
<1>9. CASE ReturnDefaultThrows(d)
  BY <1>9 DEF ReturnDefaultThrows, brokerVars
<1>10. CASE Reply(d)
  BY <1>10 DEF Reply, ResponseReady, PublishReply, brokerVars
<1>11. CASE Ack(d)
  BY <1>11 DEF Ack, Settle, LoseConsumer, brokerVars
<1>12. CASE Nack(d)
  BY <1>12 DEF Nack, Settle, LoseConsumer, brokerVars
<1>13. CASE Finish(d)
  BY <1>13 DEF Finish, brokerVars
<1> QED
  BY <1>1, <1>2, <1>3, <1>4, <1>5, <1>6, <1>7, <1>8, <1>9, <1>10, <1>11, <1>12, <1>13
     DEF Execute

LEMMA HostStepResults ==
  ASSUME BrokerTypeOK, HostTypeOK, HostResults, HostStep
  PROVE  HostResults' /\ Answered \subseteq Answered'
<1> USE BrokerAssumption
    DEF HostResults, RejectedByChoice, FreshDeliveries, NoEarlyResult, Answers, Answered,
        HostTypeOK
<1>1. ASSUME NEW h \in Hosts, Start(h) \/ Stop(h) \/ Crash(h)
      PROVE  HostResults' /\ Answered \subseteq Answered'
  BY <1>1 DEF Start, Stop, Crash, LoseConsumer, hostVars
<1>2. ASSUME NEW h \in Hosts, NEW c \in Calls, OnInvokeRequest(h, c)
      PROVE  HostResults' /\ Answered \subseteq Answered'
  <2> DEFINE e == <<c, delivered[c] + 1>>
  <2>1. e \in Deliveries /\ e[1] = c /\ e[2] = delivered[c] + 1 /\ delivered[c] \in Nat
    BY <1>2 DEF OnInvokeRequest, HandOut, Deliveries, BrokerTypeOK
  <2>2. pc[e] = "none"
    BY <2>1
  <2>3. /\ pc' = [pc EXCEPT ![e] = "buffered"]
        /\ delivered' = [delivered EXCEPT ![c] = @ + 1]
        /\ site' = [site EXCEPT ![e] = h]
        /\ outcome' = outcome
    BY <1>2 DEF OnInvokeRequest, HandOut, Goto
  <2>4. ASSUME NEW d \in Deliveries, d[2] > delivered'[d[1]]
        PROVE  pc'[d] = "none" /\ site'[d] = Nowhere
    <3>1. d[1] \in Calls /\ d[2] \in Nat
      BY DEF Deliveries
    <3>2. d # e
      BY <2>1, <2>3, <2>4, <3>1 DEF BrokerTypeOK
    <3>3. d[2] > delivered[d[1]]
      BY <2>1, <2>3, <2>4, <3>1 DEF BrokerTypeOK
    <3> QED
      BY <2>3, <3>2, <3>3 DEF BrokerTypeOK
  <2>5. RejectedByChoice' /\ NoEarlyResult'
    BY <2>1, <2>2, <2>3
  <2>6. Answered \subseteq Answered'
    BY <2>3
  <2> QED
    BY <2>4, <2>5, <2>6
<1>3. ASSUME NEW h \in Hosts, NEW c \in Calls, OnCancelRequest(h, c)
      PROVE  HostResults' /\ Answered \subseteq Answered'
  BY <1>3 DEF OnCancelRequest
<1>4. ASSUME NEW d \in Deliveries, Execute(d)
      PROVE  HostResults' /\ Answered \subseteq Answered'
  BY <1>4, ExecuteResults
<1> QED
  BY <1>1, <1>2, <1>3, <1>4 DEF HostStep

\* The only message a host adds is the response of the execution at hand.
LEMMA HostStepInbound ==
  ASSUME HostStep
  PROVE  \/ inbound' = inbound
         \/ \E d \in Deliveries :
              /\ ResponseReady(d)
              /\ PublishReply(d, IF pc[d] = "rejected" THEN "null" ELSE ReplyKind(d))
<1>1. ASSUME NEW d \in Deliveries, Execute(d), ~Reply(d)
      PROVE  inbound' = inbound
  BY <1>1 DEF Execute, Begin, Complete, PipelineThrows, Conflict, BackoffElapses,
              BackoffAborted, ReExecute, Reject, ReturnDefaultThrows, Ack, Nack, Finish,
              Settle, LoseConsumer, brokerVars
<1>2. ASSUME NEW d \in Deliveries, Reply(d)
      PROVE  \/ inbound' = inbound
             \/ /\ ResponseReady(d)
                /\ PublishReply(d, IF pc[d] = "rejected" THEN "null" ELSE ReplyKind(d))
  BY <1>2 DEF Reply, brokerVars
<1>3. ASSUME NEW h \in Hosts, Start(h) \/ Stop(h) \/ Crash(h)
      PROVE  inbound' = inbound
  BY <1>3 DEF Start, Stop, Crash, LoseConsumer
<1>4. ASSUME NEW h \in Hosts, NEW c \in Calls, OnInvokeRequest(h, c) \/ OnCancelRequest(h, c)
      PROVE  inbound' = inbound
  BY <1>4 DEF OnInvokeRequest, OnCancelRequest, HandOut
<1> QED
  BY <1>1, <1>2, <1>3, <1>4 DEF HostStep

\* What a replica publishes for d.
ResponseKind(d) == IF pc[d] = "rejected" THEN "null" ELSE ReplyKind(d)

\* A response that reads as a success comes from an execution that ended in no
\* exception, or was rejected.
LEMMA SuccessfulReply ==
  ASSUME RejectedByChoice, NEW d \in Deliveries, ResponseReady(d),
         ResponseKind(d) \in Successes
  PROVE  outcome[d] \in Answers
<1>1. CASE pc[d] = "rejected"
  BY <1>1 DEF RejectedByChoice, Answers
<1>2. CASE pc[d] # "rejected" /\ d \in aborted
  BY <1>2 DEF ResponseKind, ReplyKind, Successes
<1>3. CASE pc[d] # "rejected" /\ d \notin aborted
  BY <1>3 DEF ResponseKind, ReplyKind, ResponseReady, Successes, Answers
<1> QED
  BY <1>1, <1>2, <1>3

LEMMA HostStepAnswered ==
  ASSUME BrokerTypeOK, HostTypeOK, HostResults,
         ResultsAreAnswers, Host
  PROVE  ResultsAreAnswers'
<1>1. Answered \subseteq Answered'
  BY HostStepResults DEF Host
<1>2. UNCHANGED <<held, tcs, phase, exception>>
  BY DEF Host, clientVars
<1>3. ASSUME NEW m \in inbound', m.kind \in Successes
      PROVE  m.call \in Answered'
  <2>1. CASE inbound' = inbound
    BY <1>1, <1>3, <2>1 DEF ResultsAreAnswers
  <2>2. ASSUME NEW d \in Deliveries, ResponseReady(d),
               PublishReply(d, IF pc[d] = "rejected" THEN "null" ELSE ReplyKind(d))
        PROVE  m.call \in Answered'
    <3>1. CASE m \in inbound
      BY <1>1, <1>3, <3>1 DEF ResultsAreAnswers
    <3>2. CASE m \notin inbound
      <4>1. m.call = d[1] /\ m.kind = ResponseKind(d)
        BY <1>3, <2>2, <3>2 DEF PublishReply, ResponseKind
      <4>2. outcome[d] \in Answers
        BY <1>3, <2>2, <4>1, SuccessfulReply DEF HostResults
      <4> QED
        BY <1>1, <4>1, <4>2 DEF Answered, CallOf
    <3> QED
      BY <3>1, <3>2
  <2> QED
    BY <2>1, <2>2, HostStepInbound DEF Host
<1> QED
  BY <1>1, <1>2, <1>3 DEF ResultsAreAnswers

LEMMA ClientStepAnswered ==
  ASSUME BrokerTypeOK, ClientTypeOK, ResultsAreAnswers, NEW c \in Calls, Client(c)
  PROVE  ResultsAreAnswers'
<1> USE DEF ResultsAreAnswers, ClientTypeOK, Successes
<1>0. Answered' = Answered
  BY DEF Client, hostVars, Answered
<1>1. CASE Invoke(c)
  BY <1>0, <1>1 DEF Invoke, brokerVars
<1>2. CASE SendRequest(c)
  BY <1>0, <1>2 DEF SendRequest, PublishRequest
<1>3. CASE Resume(c)
  <2>1. tcs[c] \in Successes \/ ExceptionOf(tcs[c]) # "none"
    BY <1>3 DEF Resume, ExceptionOf, Completions, MessageKinds, ReplyKinds
  <2> QED
    BY <1>0, <1>3, <2>1 DEF Resume, brokerVars
<1>4. CASE Return(c)
  BY <1>0, <1>4 DEF Return, brokerVars
<1>5. CASE CallerCancel(c)
  BY <1>0, <1>5 DEF CallerCancel, BroadcastCancel
<1>6. CASE OnResponse(c)
  BY <1>0, <1>6 DEF OnResponse, Receive
<1>7. CASE OnBasicReturn(c)
  BY <1>0, <1>7 DEF OnBasicReturn, Receive
<1>8. CASE TryComplete(c)
  BY <1>0, <1>8 DEF TryComplete, brokerVars
<1>9. CASE TimerRemoves(c) \/ TimerMarks(c)
  BY <1>0, <1>9 DEF TimerRemoves, TimerMarks, brokerVars
<1>10. CASE TimerFaults(c)
  BY <1>0, <1>10 DEF TimerFaults, brokerVars
<1>11. CASE TimerFaultsInline(c)
  BY <1>0, <1>11 DEF TimerFaultsInline, ExceptionOf, brokerVars
<1>12. CASE TimerCancels(c)
  BY <1>0, <1>12 DEF TimerCancels, BroadcastCancel, brokerVars
<1> QED
  BY <1>1, <1>2, <1>3, <1>4, <1>5, <1>6, <1>7, <1>8, <1>9, <1>10, <1>11, <1>12
     DEF Client, ClientStep

SuccessInv == TypeInv /\ HostResults /\ ResultsAreAnswers

LEMMA SuccessInvInit == Init => SuccessInv
<1> SUFFICES ASSUME Init PROVE HostResults /\ ResultsAreAnswers
  BY TypeInvInit DEF SuccessInv
<1>1. HostResults
  BY DEF Init, HostInit, BrokerInit, HostResults, RejectedByChoice, FreshDeliveries,
         NoEarlyResult, Answers
<1>2. ResultsAreAnswers
  BY DEF Init, BrokerInit, ClientInit, ResultsAreAnswers, Successes
<1> QED
  BY <1>1, <1>2

LEMMA SuccessInvNext == SuccessInv /\ [Next]_vars => SuccessInv'
<1> SUFFICES ASSUME SuccessInv, [Next]_vars
             PROVE  HostResults' /\ ResultsAreAnswers'
  BY TypeInvNext DEF SuccessInv
<1> USE DEF SuccessInv, TypeInv, TypeOK
<1>1. CASE Host
  BY <1>1, HostStepResults, HostStepAnswered DEF Host
<1>2. ASSUME NEW c \in Calls, Client(c)
      PROVE  HostResults' /\ ResultsAreAnswers'
  <2>1. ResultsAreAnswers'
    BY <1>2, ClientStepAnswered
  <2>2. UNCHANGED <<pc, outcome, delivered, site>>
    BY <1>2 DEF Client, ClientStep, hostVars, brokerVars, Invoke, SendRequest, Resume,
                Return, CallerCancel, OnResponse, OnBasicReturn, Receive, TryComplete,
                TimerRemoves, TimerMarks, TimerFaults, TimerFaultsInline, TimerCancels,
                PublishRequest, BroadcastCancel
  <2> QED
    BY <2>1, <2>2 DEF HostResults, RejectedByChoice, FreshDeliveries, NoEarlyResult
<1>3. CASE UNCHANGED vars
  BY <1>3 DEF vars, brokerVars, clientVars, hostVars, HostResults, RejectedByChoice,
              FreshDeliveries, NoEarlyResult, ResultsAreAnswers, Answered
<1> QED
  BY <1>1, <1>2, <1>3 DEF Next

LEMMA SuccessInvOwn == SuccessInv => SuccessIsOwn
<1> SUFFICES ASSUME SuccessInv, NEW c \in Calls, Succeeded(c)
             PROVE  \E d \in Deliveries : CallOf(d) = c /\ outcome[d] \in Answers
  BY DEF SuccessIsOwn, Answers
<1>1. c \in Answered
  BY DEF SuccessInv, ResultsAreAnswers, Succeeded
<1> QED
  BY <1>1 DEF Answered

\* In every system, a call that returns without an exception was executed, by some
\* replica, to an end that is none: no response of another call completes it.
THEOREM SuccessesAreOwn == Spec => []SuccessIsOwn
  BY SuccessInvInit, SuccessInvNext, SuccessInvOwn, PTL DEF Spec

LEMMA NeverRejectedNext ==
  ASSUME "reject" \notin Outcomes, TypeInv, NeverRejected, [Next]_vars
  PROVE  NeverRejected'
<1> USE DEF NeverRejected, TypeInv, TypeOK, HostTypeOK
<1>1. ASSUME NEW d \in Deliveries, Execute(d)
      PROVE  NeverRejected'
  <2>1. CASE \E o \in AllOutcomes : Complete(d, o)
    BY <2>1 DEF Complete
  <2>2. CASE PipelineThrows(d) \/ Conflict(d) \/ BackoffElapses(d)
    BY <2>2 DEF PipelineThrows, Conflict, BackoffElapses
  <2>3. CASE UNCHANGED outcome
    BY <2>3
  <2> QED
    BY <1>1, <2>1, <2>2, <2>3
       DEF Execute, Begin, BackoffAborted, ReExecute, Reject, ReturnDefaultThrows, Reply,
           Ack, Nack, Finish
<1>2. CASE UNCHANGED outcome
  BY <1>2
<1> QED
  BY <1>1, <1>2 DEF Next, Host, HostStep, Start, Stop, Crash, OnInvokeRequest,
                    OnCancelRequest, Client, hostVars, vars

\* In every system whose filters never choose RejectRequest, a call that returns
\* without an exception was executed to a result by some replica.
THEOREM SuccessIsComputed ==
  ASSUME "reject" \notin Outcomes
  PROVE  Spec => []SuccessWasComputed
<1> DEFINE Inv == TypeInv /\ NeverRejected
<1>1. Init => Inv
  BY TypeInvInit DEF Init, HostInit, NeverRejected
<1>2. Inv /\ [Next]_vars => Inv'
  BY TypeInvNext, NeverRejectedNext
<1>3. Inv /\ SuccessIsOwn => SuccessWasComputed
  BY DEF NeverRejected, SuccessIsOwn, SuccessWasComputed, Computed
<1> QED
  BY <1>1, <1>2, <1>3, SuccessesAreOwn, PTL DEF Spec

-----------------------------------------------------------------------------
\* A call ends as aborted only if its caller cancelled it.  A cancellation is also
\* broadcast by the timer, but by then the call's TaskCompletionSource is completed
\* and nothing that comes of that message can reach the caller.

\* The calls a cancellation may have been broadcast for.
Cancellable == callerCancelled \union {c \in Calls : tcs[c] # "open"}

AbortsAreWanted ==
  /\ \A h \in Hosts : cancels[h] \subseteq Cancellable
  /\ \A d \in aborted : CallOf(d) \in Cancellable
  /\ \A m \in inbound : m.kind = "canceled" => m.call \in Cancellable
  /\ \A c \in Calls : held[c] = "canceled" => c \in Cancellable
  /\ \A c \in Calls : tcs[c] = "canceled" => c \in callerCancelled
  /\ \A c \in Calls : status[c] = "Aborted" => c \in callerCancelled
  /\ \A c \in Calls : timer[c] = "completed" => tcs[c] # "open"

LEMMA HostStepAborts ==
  ASSUME BrokerTypeOK, HostTypeOK, AbortsAreWanted, Host
  PROVE  AbortsAreWanted'
<1>1. UNCHANGED <<callerCancelled, held, tcs, status, timer>>
  BY DEF Host, clientVars
<1>2. Cancellable' = Cancellable
  BY <1>1 DEF Cancellable
<1>3. (\A h \in Hosts : cancels'[h] \subseteq cancels[h])
      /\ (\A d \in aborted' : CallOf(d) \in Cancellable)
  <2>1. ASSUME NEW d \in Deliveries, Execute(d)
        PROVE  cancels' = cancels /\ aborted' \subseteq aborted
    BY <2>1 DEF Execute, Begin, Complete, PipelineThrows, Conflict, BackoffElapses,
                BackoffAborted, ReExecute, Reject, ReturnDefaultThrows, Reply, Ack, Nack,
                Finish, Settle, LoseConsumer, PublishReply, brokerVars
  <2>2. ASSUME NEW h \in Hosts, Start(h) \/ Stop(h) \/ Crash(h)
        PROVE  (\A g \in Hosts : cancels'[g] \subseteq cancels[g]) /\ aborted' \subseteq aborted
    BY <2>2 DEF Start, Stop, Crash, LoseConsumer, hostVars, BrokerTypeOK
  <2>3. ASSUME NEW h \in Hosts, NEW c \in Calls, OnInvokeRequest(h, c)
        PROVE  cancels' = cancels /\ aborted' = aborted
    BY <2>3 DEF OnInvokeRequest, HandOut
  <2>4. ASSUME NEW h \in Hosts, NEW c \in Calls, OnCancelRequest(h, c)
        PROVE  (\A g \in Hosts : cancels'[g] \subseteq cancels[g])
               /\ (\A d \in aborted' : CallOf(d) \in Cancellable)
    BY <2>4 DEF OnCancelRequest, BrokerTypeOK, AbortsAreWanted, CallOf
  <2> QED
    BY <2>1, <2>2, <2>3, <2>4 DEF Host, HostStep, AbortsAreWanted
<1>4. ASSUME NEW m \in inbound', m.kind = "canceled"
      PROVE  m.call \in Cancellable
  <2>1. CASE m \in inbound
    BY <1>4, <2>1 DEF AbortsAreWanted
  <2>2. CASE m \notin inbound
    <3>1. PICK d \in Deliveries :
            PublishReply(d, IF pc[d] = "rejected" THEN "null" ELSE ReplyKind(d))
      BY <1>4, <2>2, HostStepInbound DEF Host
    <3>2. m.call = CallOf(d) /\ ReplyKind(d) = "canceled"
      BY <1>4, <2>2, <3>1 DEF PublishReply, CallOf
    <3>3. d \in aborted
      BY <3>2 DEF ReplyKind
    <3> QED
      BY <3>2, <3>3 DEF AbortsAreWanted
  <2> QED
    BY <2>1, <2>2
<1> QED
  BY <1>1, <1>2, <1>3, <1>4 DEF AbortsAreWanted

LEMMA ClientStepAborts ==
  ASSUME BrokerTypeOK, ClientTypeOK, AbortsAreWanted, NEW c \in Calls, Client(c)
  PROVE  AbortsAreWanted'
<1> USE DEF AbortsAreWanted, Cancellable, ClientTypeOK, BrokerTypeOK
<1>0. aborted' = aborted
  BY DEF Client, hostVars
<1>1. CASE Invoke(c)
  BY <1>0, <1>1 DEF Invoke, brokerVars
<1>2. CASE SendRequest(c)
  BY <1>0, <1>2 DEF SendRequest, PublishRequest
<1>3. CASE Resume(c)
  <2>1. StatusOf(tcs[c]) = "Aborted" => tcs[c] = "canceled"
    BY DEF StatusOf
  <2> QED
    BY <1>0, <1>3, <2>1 DEF Resume, brokerVars
<1>4. CASE Return(c)
  BY <1>0, <1>4 DEF Return, brokerVars
<1>5. CASE CallerCancel(c)
  BY <1>0, <1>5 DEF CallerCancel, BroadcastCancel
<1>6. CASE OnResponse(c)
  BY <1>0, <1>6 DEF OnResponse, Receive
<1>7. CASE OnBasicReturn(c)
  BY <1>0, <1>7 DEF OnBasicReturn, Receive
<1>8. CASE TryComplete(c)
  BY <1>0, <1>8 DEF TryComplete, brokerVars
<1>9. CASE TimerRemoves(c) \/ TimerMarks(c)
  BY <1>0, <1>9 DEF TimerRemoves, TimerMarks, brokerVars
<1>10. CASE TimerFaults(c)
  BY <1>0, <1>10 DEF TimerFaults, brokerVars
<1>11. CASE TimerFaultsInline(c)
  BY <1>0, <1>11 DEF TimerFaultsInline, StatusOf, brokerVars
<1>12. CASE TimerCancels(c)
  BY <1>0, <1>12 DEF TimerCancels, BroadcastCancel, brokerVars
<1> QED
  BY <1>1, <1>2, <1>3, <1>4, <1>5, <1>6, <1>7, <1>8, <1>9, <1>10, <1>11, <1>12
     DEF Client, ClientStep

LEMMA AbortsAreWantedHolds == Spec => [](TypeInv /\ AbortsAreWanted)
<1> DEFINE Inv == TypeInv /\ AbortsAreWanted
<1>1. Init => Inv
  <2> SUFFICES ASSUME Init PROVE AbortsAreWanted
    BY TypeInvInit
  <2> QED
    BY DEF Init, BrokerInit, ClientInit, HostInit, AbortsAreWanted
<1>2. Inv /\ [Next]_vars => Inv'
  <2> SUFFICES ASSUME Inv, [Next]_vars PROVE AbortsAreWanted'
    BY TypeInvNext
  <2> USE DEF TypeInv, TypeOK
  <2>1. CASE Host
    BY <2>1, HostStepAborts
  <2>2. ASSUME NEW c \in Calls, Client(c)
        PROVE  AbortsAreWanted'
    BY <2>2, ClientStepAborts
  <2>3. CASE UNCHANGED vars
    BY <2>3 DEF vars, brokerVars, clientVars, hostVars, AbortsAreWanted, Cancellable
  <2> QED
    BY <2>1, <2>2, <2>3 DEF Next
<1> QED
  BY <1>1, <1>2, PTL DEF Spec

\* In every system, a call ends as aborted only if its own caller cancelled it.
THEOREM AbortedOnlyIfCancelled == Spec => []AbortedOnlyOnRequest
<1>1. AbortsAreWanted => AbortedOnlyOnRequest
  BY DEF AbortsAreWanted, AbortedOnlyOnRequest
<1> QED
  BY <1>1, AbortsAreWantedHolds, PTL

-----------------------------------------------------------------------------
\* The outcome of a call does not change after it has returned.

\* While its callback can still touch the call, or the call has not been sent,
\* InvokeRequestAsync has not returned.
ReturnedIsQuiet ==
  \A c \in Calls : phase[c] = "returned" => timer[c] \in {"completed", "over"}

LEMMA ReturnedIsQuietNext ==
  ASSUME ClientTypeOK, ReturnedIsQuiet, [Next]_vars
  PROVE  /\ ReturnedIsQuiet'
         /\ \A c \in Calls : phase[c] = "returned" =>
              UNCHANGED <<phase[c], status[c], exception[c]>>
<1> USE DEF ReturnedIsQuiet, ClientTypeOK
<1>1. CASE Host
  BY <1>1 DEF Host, clientVars
<1>2. ASSUME NEW c \in Calls, Client(c)
      PROVE  /\ ReturnedIsQuiet'
             /\ \A x \in Calls : phase[x] = "returned" =>
                  UNCHANGED <<phase[x], status[x], exception[x]>>
  BY <1>2 DEF Client, ClientStep, Invoke, SendRequest, Resume, Return, CallerCancel,
              OnResponse, OnBasicReturn, Receive, TryComplete, TimerRemoves, TimerMarks,
              TimerFaults, TimerFaultsInline, TimerCancels
<1>3. CASE UNCHANGED vars
  BY <1>3 DEF vars, clientVars
<1> QED
  BY <1>1, <1>2, <1>3 DEF Next

\* In every system, status and exception are final once the call has returned.
THEOREM OutcomeFinal == Spec => OutcomeIsFinal
<1> DEFINE Inv == TypeInv /\ ReturnedIsQuiet
<1>1. Init => Inv
  <2> SUFFICES ASSUME Init PROVE ReturnedIsQuiet
    BY TypeInvInit
  <2> QED
    BY DEF Init, ClientInit, ReturnedIsQuiet
<1>2. Inv /\ [Next]_vars => Inv'
  BY TypeInvNext, ReturnedIsQuietNext DEF TypeInv, TypeOK
<1>3. Inv /\ [Next]_vars =>
        [\A c \in Calls : phase[c] = "returned" =>
           UNCHANGED <<phase[c], status[c], exception[c]>>]_vars
  BY ReturnedIsQuietNext DEF TypeInv, TypeOK
<1> QED
  BY <1>1, <1>2, <1>3, PTL DEF Spec, OutcomeIsFinal
=============================================================================
