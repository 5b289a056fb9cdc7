------------------------- MODULE RpcDeliveryProofs -------------------------
(***************************************************************************)
(* Proofs about deliveries in RpcSystem: what becomes of a request that    *)
(* was handed out, of its answer and of its executions.                    *)
(***************************************************************************)
EXTENDS RpcSystemProofs

-----------------------------------------------------------------------------
\* What steps do to deliveries.

\* The execution has not been decided on yet.
Active == {"buffered", "running", "backoff", "ran"}

Living(d) == pc[d] \notin {"none", "over"}

\* An execution moves its own program counter, and never back to where it is active.
LEMMA ExecuteMoves ==
  ASSUME HostTypeOK, NEW d \in Deliveries, Execute(d)
  PROVE  /\ Living(d)
         /\ \E l \in PCs : /\ pc' = [pc EXCEPT ![d] = l]
                           /\ l # "none"
                           /\ l \in Active => pc[d] \in Active
<1> USE DEF Living, Goto, PCs, Active
<1>1. CASE Begin(d) \/ (\E o \in AllOutcomes : Complete(d, o)) \/ PipelineThrows(d)
  BY <1>1 DEF Begin, Complete, PipelineThrows
<1>2. CASE Conflict(d) \/ BackoffElapses(d) \/ BackoffAborted(d) \/ ReExecute(d)
  BY <1>2 DEF Conflict, BackoffElapses, BackoffAborted, ReExecute
<1>3. CASE Reject(d) \/ ReturnDefaultThrows(d) \/ Reply(d)
  BY <1>3 DEF Reject, ReturnDefaultThrows, Reply, ResponseReady
<1>4. CASE Ack(d) \/ Nack(d) \/ Finish(d)
  BY <1>4 DEF Ack, Nack, Finish
<1> QED
  BY <1>1, <1>2, <1>3, <1>4 DEF Execute

\* It touches the broker's record of deliveries only to settle its own, once it is no
\* longer active, on a channel that is open.
LEMMA ExecuteSettles ==
  ASSUME HostTypeOK, NEW d \in Deliveries, Execute(d)
  PROVE  \/ UNCHANGED <<queued, delivered, site, tag, link>>
         \/ /\ link[site[d]] = "open"
            /\ pc'[d] \notin Active
            /\ \/ Settle(d, "requeued") /\ Reject(d)
               \/ Settle(d, "acked") /\ pc[d] = "replied"
               \/ Settle(d, "dropped")
<1> USE DEF brokerVars, Goto, Active, HostTypeOK
<1>1. CASE Reject(d)
  BY <1>1 DEF Reject
<1>2. CASE Ack(d) \/ Nack(d)
  BY <1>2 DEF Ack, Nack
<1>3. CASE Reply(d)
  BY <1>3 DEF Reply, PublishReply
<1> QED
  BY <1>1, <1>2, <1>3
     DEF Execute, Begin, Complete, PipelineThrows, Conflict, BackoffElapses, BackoffAborted,
         ReExecute, ReturnDefaultThrows, Finish

\* A client's steps do not touch deliveries; only SendRequest puts a call in the queue.
LEMMA ClientLeavesDeliveries ==
  ASSUME NEW c \in Calls, Client(c)
  PROVE  /\ UNCHANGED <<delivered, site, tag, link, pc, ongoing, outcome>>
         /\ \/ queued' = queued /\ ~SendRequest(c)
            \/ SendRequest(c)
<1>1. UNCHANGED <<pc, ongoing, outcome>>
  BY DEF Client, hostVars
<1>2. CASE SendRequest(c)
  BY <1>1, <1>2 DEF SendRequest, PublishRequest
<1> QED
  BY <1>1, <1>2 DEF Client, ClientStep, brokerVars, Invoke, Resume, Return, CallerCancel,
                    OnResponse, OnBasicReturn, Receive, TryComplete, TimerRemoves,
                    TimerMarks, TimerFaults, TimerFaultsInline, TimerCancels,
                    BroadcastCancel

-----------------------------------------------------------------------------
\* The invariant about deliveries.

\* A request that has not been sent is not known to the broker or to a host.
SentFirst ==
  \A c \in Calls : phase[c] \in {"idle", "invoked"} =>
    /\ c \notin queued
    /\ \A d \in Deliveries : CallOf(d) = c => ~Living(d) /\ tag[d] = "unsent"

\* The broker has given the request away and not got it back.
Taken(d) == tag[d] \in {"unacked", "acked", "dropped"}

\* A delivery whose request has not come back is the only one of its request.
OneTaker ==
  \A d \in Deliveries : Taken(d) =>
    /\ CallOf(d) \notin queued
    /\ \A e \in Deliveries : Taken(e) /\ CallOf(e) = CallOf(d) => e = d

\* What runs, runs in a process that has started.
RunsSomewhere == \A d \in Deliveries : Living(d) => site[d] \in Hosts /\ link[site[d]] # "down"

\* While its channel is open, a delivery is not settled before it is executed.
ActiveIsOutstanding ==
  \A d \in Deliveries :
    pc[d] \in Active /\ link[site[d]] = "open" => tag[d] = "unacked"

DeliveryInv == SentFirst /\ OneTaker /\ RunsSomewhere /\ ActiveIsOutstanding

LEMMA LoseConsumerDeliveries ==
  ASSUME BrokerTypeOK, HostTypeOK, DeliveryInv,
         NEW h \in Hosts, NEW l \in LinkStates \ {"open"}, LoseConsumer(h, l),
         UNCHANGED phase,
         \A d \in Deliveries : \/ pc'[d] = pc[d]
                               \/ pc'[d] # "none" /\ pc'[d] \notin Active /\ Living(d)
                               \/ pc'[d] = "over",
         l = "down" => \A d \in Deliveries : site[d] = h => ~Living(d)'
  PROVE  DeliveryInv'
<1> USE DEF DeliveryInv, BrokerTypeOK, HostTypeOK, LoseConsumer
<1>1. /\ site' = site
      /\ \A d \in Deliveries : tag'[d] = IF d \in Unacked(h) THEN "requeued" ELSE tag[d]
      /\ \A g \in Hosts : link'[g] = IF g = h THEN l ELSE link[g]
      /\ queued' \subseteq queued \union {CallOf(d) : d \in Unacked(h)}
  OBVIOUS
<1>2. \A d \in Deliveries : Living(d)' => Living(d)
  BY DEF Living
<1>3. SentFirst'
  BY <1>1, <1>2 DEF SentFirst, Unacked
<1>4. OneTaker'
  BY <1>1 DEF OneTaker, Taken, Unacked
<1>5. RunsSomewhere'
  BY <1>1, <1>2 DEF RunsSomewhere
<1>6. ActiveIsOutstanding'
  <2> SUFFICES ASSUME NEW d \in Deliveries, pc'[d] \in Active, link'[site[d]] = "open"
               PROVE  tag'[d] = "unacked"
    BY <1>1 DEF ActiveIsOutstanding
  <2>1. pc[d] = pc'[d] /\ Living(d)
    BY DEF Active, Living
  <2>2. site[d] \in Hosts /\ site[d] # h /\ link[site[d]] = "open"
    BY <1>1, <2>1 DEF RunsSomewhere
  <2> QED
    BY <1>1, <2>1, <2>2 DEF ActiveIsOutstanding, Unacked
<1> QED
  BY <1>3, <1>4, <1>5, <1>6

LEMMA ExecuteDeliveries ==
  ASSUME BrokerTypeOK, HostTypeOK, DeliveryInv, UNCHANGED phase,
         NEW d \in Deliveries, Execute(d)
  PROVE  DeliveryInv'
<1> USE DEF DeliveryInv, BrokerTypeOK, HostTypeOK
<1>1. PICK l \in PCs : /\ pc' = [pc EXCEPT ![d] = l]
                       /\ l # "none"
                       /\ l \in Active => pc[d] \in Active
  BY ExecuteMoves
<1>2. Living(d) /\ site[d] \in Hosts /\ CallOf(d) \in Calls
  BY ExecuteMoves DEF RunsSomewhere, CallOf, Deliveries
<1>3. \A e \in Deliveries : Living(e)' => Living(e)
  BY <1>1, <1>2 DEF Living
<1>4. CASE UNCHANGED <<queued, delivered, site, tag, link>>
  <2>1. SentFirst' /\ OneTaker' /\ RunsSomewhere'
    BY <1>3, <1>4 DEF SentFirst, OneTaker, Taken, RunsSomewhere
  <2>2. ActiveIsOutstanding'
    BY <1>1, <1>4 DEF ActiveIsOutstanding
  <2> QED
    BY <2>1, <2>2
<1>5. ASSUME NEW s \in {"requeued", "acked", "dropped"}, Settle(d, s), pc'[d] \notin Active,
             link[site[d]] = "open"
      PROVE  DeliveryInv'
  <2>1. CASE tag[d] = "unacked"
    <3>1. /\ UNCHANGED <<delivered, site, link>>
          /\ tag' = [tag EXCEPT ![d] = s]
          /\ queued' \subseteq queued \union {CallOf(d)}
          /\ phase[CallOf(d)] \notin {"idle", "invoked"}
      BY <1>2, <1>5, <2>1 DEF Settle, SentFirst
    <3>1a. queued' = queued \/ s = "requeued"
      BY <1>5, <2>1 DEF Settle
    <3>2. SentFirst'
      BY <1>3, <3>1 DEF SentFirst
    <3>3. OneTaker'
      BY <2>1, <3>1, <3>1a DEF OneTaker, Taken
    <3>4. RunsSomewhere'
      BY <1>3, <3>1 DEF RunsSomewhere
    <3>5. ActiveIsOutstanding'
      BY <1>1, <1>5, <3>1 DEF ActiveIsOutstanding
    <3> QED
      BY <3>2, <3>3, <3>4, <3>5
  <2>2. CASE tag[d] # "unacked"
    <3>1. LoseConsumer(site[d], "faulted")
      BY <1>5, <2>2 DEF Settle
    <3>2. \A e \in Deliveries : \/ pc'[e] = pc[e]
                                \/ pc'[e] # "none" /\ pc'[e] \notin Active /\ Living(e)
      BY <1>1, <1>2, <1>5
    <3> QED
      BY <1>2, <3>1, <3>2, LoseConsumerDeliveries DEF LinkStates
  <2> QED
    BY <2>1, <2>2
<1> QED
  BY <1>4, <1>5, ExecuteSettles

LEMMA DeliveryInvNext == TypeInv /\ HostResults /\ DeliveryInv /\ [Next]_vars => DeliveryInv'
<1> SUFFICES ASSUME TypeInv, HostResults, DeliveryInv, [Next]_vars PROVE DeliveryInv'
  OBVIOUS
<1> USE DEF TypeInv, TypeOK
<1>1. ASSUME NEW h \in Hosts, Start(h), UNCHANGED clientVars
      PROVE  DeliveryInv'
  BY <1>1 DEF Start, hostVars, clientVars, DeliveryInv, SentFirst, OneTaker,
              Taken, RunsSomewhere, ActiveIsOutstanding, Living, Active, BrokerTypeOK
<1>2. ASSUME NEW h \in Hosts, Stop(h), UNCHANGED clientVars
      PROVE  DeliveryInv'
  BY <1>2, LoseConsumerDeliveries DEF Stop, clientVars, LinkStates
<1>3. ASSUME NEW h \in Hosts, Crash(h), UNCHANGED clientVars
      PROVE  DeliveryInv'
  <2>1. \A d \in Deliveries : pc'[d] = IF site[d] = h THEN "over" ELSE pc[d]
    BY <1>3 DEF Crash
  <2>2. LoseConsumer(h, "down") /\ UNCHANGED phase
    BY <1>3 DEF Crash, clientVars
  <2>3. \A d \in Deliveries : site[d] = h => ~Living(d)'
    BY <2>1 DEF Living
  <2> QED
    BY <2>1, <2>2, <2>3, LoseConsumerDeliveries DEF LinkStates
<1>4. ASSUME NEW h \in Hosts, NEW c \in Calls, OnInvokeRequest(h, c), UNCHANGED clientVars
      PROVE  DeliveryInv'
  <2> DEFINE e == <<c, delivered[c] + 1>>
  <2>1. e \in Deliveries /\ CallOf(e) = c
    BY <1>4, BrokerAssumption DEF OnInvokeRequest, HandOut, Deliveries, CallOf, BrokerTypeOK
  <2>2. /\ c \in queued /\ queued' = queued \ {c}
        /\ \A d \in Deliveries : /\ pc'[d] = IF d = e THEN "buffered" ELSE pc[d]
                                 /\ site'[d] = IF d = e THEN h ELSE site[d]
                                 /\ tag'[d] = IF d = e THEN "unacked" ELSE tag[d]
        /\ link' = link /\ link[h] = "open" /\ phase' = phase
    BY <1>4, <2>1 DEF OnInvokeRequest, HandOut, Goto, clientVars, BrokerTypeOK, HostTypeOK
  <2> HIDE DEF e
  <2>3. SentFirst'
    BY <2>1, <2>2 DEF DeliveryInv, SentFirst, Living
  <2>4. OneTaker'
    BY <2>1, <2>2 DEF DeliveryInv, OneTaker, Taken
  <2>5. RunsSomewhere' /\ ActiveIsOutstanding'
    BY <2>1, <2>2 DEF DeliveryInv, RunsSomewhere, ActiveIsOutstanding, Living
  <2> QED
    BY <2>3, <2>4, <2>5 DEF DeliveryInv
<1>5. ASSUME NEW h \in Hosts, NEW c \in Calls, OnCancelRequest(h, c), UNCHANGED clientVars
      PROVE  DeliveryInv'
  BY <1>5 DEF OnCancelRequest, clientVars, DeliveryInv, SentFirst, OneTaker,
              Taken, RunsSomewhere, ActiveIsOutstanding, Living
<1>6. ASSUME NEW d \in Deliveries, Execute(d), UNCHANGED clientVars
      PROVE  DeliveryInv'
  BY <1>6, ExecuteDeliveries DEF clientVars
<1>7. ASSUME NEW c \in Calls, Client(c)
      PROVE  DeliveryInv'
  <2>1. UNCHANGED <<site, tag, link, pc>>
    BY <1>7, ClientLeavesDeliveries
  <2>2. RunsSomewhere' /\ ActiveIsOutstanding'
    BY <2>1 DEF DeliveryInv, RunsSomewhere, ActiveIsOutstanding, Living
  <2>3. CASE SendRequest(c)
    <3>1. /\ phase[c] = "invoked" /\ phase' = [phase EXCEPT ![c] = "awaiting"]
          /\ queued' \subseteq queued \union {c}
      BY <2>3 DEF SendRequest, PublishRequest
    <3>2. SentFirst'
      BY <2>1, <3>1 DEF DeliveryInv, SentFirst, Living, ClientTypeOK
    <3>3. OneTaker'
      BY <2>1, <3>1 DEF DeliveryInv, OneTaker, Taken, SentFirst
    <3> QED
      BY <2>2, <3>2, <3>3 DEF DeliveryInv
  <2>4. CASE ~SendRequest(c)
    <3>1. queued' = queued
      BY <1>7, <2>4, ClientLeavesDeliveries
    <3>2. \A x \in Calls :
            phase'[x] \in {"idle", "invoked"} => phase[x] \in {"idle", "invoked"}
      BY <1>7, <2>4 DEF ClientTypeOK, Client, ClientStep, Invoke, Resume, Return,
                        CallerCancel, OnResponse, OnBasicReturn, Receive, TryComplete,
                        TimerRemoves, TimerMarks, TimerFaults, TimerFaultsInline,
                        TimerCancels
    <3> QED
      BY <2>1, <2>2, <3>1, <3>2 DEF DeliveryInv, SentFirst, OneTaker, Taken, Living
  <2> QED
    BY <2>3, <2>4
<1>8. CASE UNCHANGED vars
  BY <1>8 DEF vars, brokerVars, clientVars, hostVars, DeliveryInv, SentFirst,
              OneTaker, Taken, RunsSomewhere, ActiveIsOutstanding, Living
<1> QED
  BY <1>1, <1>2, <1>3, <1>4, <1>5, <1>6, <1>7, <1>8 DEF Next, Host, HostStep

SystemInv == SuccessInv /\ DeliveryInv

LEMMA SystemInvHolds == Spec => []SystemInv
<1>1. Init => SystemInv
  <2> SUFFICES ASSUME Init PROVE DeliveryInv
    BY SuccessInvInit DEF SystemInv
  <2> QED
    BY DEF Init, BrokerInit, ClientInit, HostInit, DeliveryInv, SentFirst, OneTaker, Taken,
           RunsSomewhere, ActiveIsOutstanding, Living, Active
<1>2. SystemInv /\ [Next]_vars => SystemInv'
  BY SuccessInvNext, DeliveryInvNext DEF SystemInv, SuccessInv
<1> QED
  BY <1>1, <1>2, PTL DEF Spec

\* In every system, two connected replicas never execute one request at once.
THEOREM ExecutionsAreAlone == Spec => []NoConcurrentExecution
<1>1. SystemInv => NoConcurrentExecution
  BY DEF SystemInv, DeliveryInv, ActiveIsOutstanding, OneTaker, Taken,
         NoConcurrentExecution, Executing, Active
<1> QED
  BY <1>1, SystemInvHolds, PTL

-----------------------------------------------------------------------------
\* The broker forgets an answered request only when its answer is safe.

\* Where the answer of d is, once it has been published.
Safe(d) ==
  \/ \E m \in inbound : m.call = CallOf(d) /\ m.from = d[2]
  \/ held[CallOf(d)] # "nothing"
  \/ tcs[CallOf(d)] # "open"
  \/ CallOf(d) \notin requests

AnswersAreSafe == \A d \in Deliveries : pc[d] = "replied" \/ tag[d] = "acked" => Safe(d)

LEMMA HostKeepsAnswers ==
  ASSUME TypeInv, AnswersAreSafe, Host
  PROVE  AnswersAreSafe'
<1> USE DEF TypeInv, TypeOK, BrokerTypeOK, HostTypeOK
<1>1. UNCHANGED <<held, tcs, requests>>
  BY DEF Host, clientVars
<1>2. inbound \subseteq inbound'
  BY HostStepInbound DEF Host, PublishReply
<1>3. \A d \in Deliveries : Safe(d) => Safe(d)'
  BY <1>1, <1>2 DEF Safe
<1>4. ASSUME NEW d \in Deliveries, Execute(d)
      PROVE  AnswersAreSafe'
  <2> SUFFICES ASSUME NEW e \in Deliveries, pc'[e] = "replied" \/ tag'[e] = "acked"
               PROVE  Safe(e)'
    BY DEF AnswersAreSafe
  <2>1. CASE pc[e] = "replied" \/ tag[e] = "acked"
    BY <1>3, <2>1 DEF AnswersAreSafe
  <2>2. CASE tag'[e] = "acked" /\ tag[e] # "acked"
    <3>1. Settle(d, "acked") /\ pc[d] = "replied" /\ e = d
      BY <1>4, <2>2, ExecuteSettles DEF Settle, LoseConsumer
    <3> QED
      BY <1>3, <3>1 DEF AnswersAreSafe
  <2>3. CASE pc'[e] = "replied" /\ pc[e] # "replied"
    <3>1. Reply(d) /\ e = d /\ link[site[d]] = "open"
      BY <1>4, <2>3 DEF Execute, Begin, Complete, PipelineThrows, Conflict, BackoffElapses,
                        BackoffAborted, ReExecute, Reject, ReturnDefaultThrows, Reply, Ack,
                        Nack, Finish, Goto
    <3>2. PICK k : PublishReply(d, k)
      BY <3>1 DEF Reply
    <3> DEFINE m == [call |-> d[1], from |-> d[2], kind |-> k]
    <3>3. m \in inbound' /\ m.call = CallOf(d) /\ m.from = d[2]
      BY <3>2 DEF PublishReply, CallOf
    <3> QED
      BY <3>1, <3>3 DEF Safe
  <2> QED
    BY <2>1, <2>2, <2>3
<1>5. ASSUME NEW h \in Hosts, Start(h) \/ Stop(h) \/ Crash(h)
      PROVE  AnswersAreSafe'
  <2>1. \A d \in Deliveries : pc'[d] \in {pc[d], "over"} /\ tag'[d] \in {tag[d], "requeued"}
    BY <1>5 DEF Start, Stop, Crash, LoseConsumer, hostVars
  <2> QED
    BY <1>3, <2>1 DEF AnswersAreSafe
<1>6. ASSUME NEW h \in Hosts, NEW c \in Calls, OnInvokeRequest(h, c) \/ OnCancelRequest(h, c)
      PROVE  AnswersAreSafe'
  <2>1. \A d \in Deliveries : pc'[d] \in {pc[d], "buffered"} /\ tag'[d] \in {tag[d], "unacked"}
    BY <1>6 DEF OnInvokeRequest, OnCancelRequest, HandOut, Goto
  <2> QED
    BY <1>3, <2>1 DEF AnswersAreSafe
<1> QED
  BY <1>4, <1>5, <1>6 DEF Host, HostStep

LEMMA ClientKeepsAnswers ==
  ASSUME TypeInv, SentFirst, AnswersAreSafe, NEW c \in Calls, Client(c)
  PROVE  AnswersAreSafe'
<1> USE DEF TypeInv, TypeOK, ClientTypeOK, BrokerTypeOK, Safe
<1>1. UNCHANGED <<tag, pc>>
  BY ClientLeavesDeliveries
<1> SUFFICES ASSUME NEW d \in Deliveries, pc[d] = "replied" \/ tag[d] = "acked"
             PROVE  Safe(d)'
  BY <1>1 DEF AnswersAreSafe
<1>2. Safe(d) /\ CallOf(d) \in Calls
  BY DEF AnswersAreSafe, CallOf, Deliveries
<1>3. CASE SendRequest(c)
  <2>1. CallOf(d) # c
    BY <1>3 DEF SendRequest, SentFirst, Living
  <2> QED
    BY <1>2, <1>3, <2>1 DEF SendRequest, PublishRequest
<1>4. ASSUME NEW m \in inbound, Receive(m)
      PROVE  Safe(d)'
  <2>1. m.kind # "nothing" /\ m.call \in Calls
    BY DEF Messages, MessageKinds, ReplyKinds
  <2> QED
    BY <1>2, <1>4, <2>1 DEF Receive
<1>5. CASE OnResponse(c) \/ OnBasicReturn(c)
  BY <1>4, <1>5 DEF OnResponse, OnBasicReturn
<1>6. CASE TryComplete(c)
  BY <1>2, <1>6 DEF TryComplete, brokerVars, MessageKinds, ReplyKinds
<1>7. CASE TimerFaults(c) \/ TimerFaultsInline(c) \/ TimerRemoves(c)
  BY <1>2, <1>7 DEF TimerFaults, TimerFaultsInline, TimerRemoves, brokerVars
<1>8. CASE UNCHANGED <<inbound, held, tcs, requests>>
  BY <1>2, <1>8
<1> QED
  BY <1>3, <1>5, <1>6, <1>7, <1>8
     DEF Client, ClientStep, Invoke, Resume, Return, CallerCancel, TimerMarks, TimerCancels,
         BroadcastCancel, brokerVars

\* In every system, a request is acknowledged only when its answer is on its way to
\* its caller, there already, or no longer wanted.
THEOREM AckedIsAnswered == Spec => []AckedAnswerNotLost
<1> DEFINE Inv == SystemInv /\ AnswersAreSafe
<1>1. Init => AnswersAreSafe
  BY DEF Init, BrokerInit, HostInit, AnswersAreSafe
<1>2. SystemInv /\ AnswersAreSafe /\ [Next]_vars => AnswersAreSafe'
  <2> SUFFICES ASSUME SystemInv, AnswersAreSafe, [Next]_vars PROVE AnswersAreSafe'
    OBVIOUS
  <2> USE DEF SystemInv, SuccessInv, DeliveryInv
  <2>1. CASE Host
    BY <2>1, HostKeepsAnswers
  <2>2. ASSUME NEW c \in Calls, Client(c)
        PROVE  AnswersAreSafe'
    BY <2>2, ClientKeepsAnswers
  <2>3. CASE UNCHANGED vars
    BY <2>3 DEF vars, brokerVars, clientVars, hostVars, AnswersAreSafe, Safe
  <2> QED
    BY <2>1, <2>2, <2>3 DEF Next
<1>3. AnswersAreSafe => AckedAnswerNotLost
  BY DEF AnswersAreSafe, AckedAnswerNotLost, Safe
<1> QED
  BY <1>1, <1>2, <1>3, SystemInvHolds, PTL DEF Spec

-----------------------------------------------------------------------------
\* The status that filters see agrees with the outcome, or the timer had removed the
\* call from _requests before it was answered.

StatusFollows ==
  \A c \in Calls :
    /\ timer[c] \in {"removed", "marked"} => c \notin requests /\ phase[c] # "invoked"
    /\ phase[c] = "invoked" => timer[c] = "unset"
    /\ phase[c] = "idle" => timer[c] = "unset"
    /\ phase[c] \in {"closing", "returned"} =>
         /\ tcs[c] # "open"
         /\ \/ status[c] = StatusOf(tcs[c])
            \/ status[c] = "TimedOut" /\ c \notin requests

LEMMA StatusFollowsNext ==
  ASSUME TypeInv, StatusFollows, [Next]_vars
  PROVE  StatusFollows'
<1> USE DEF TypeInv, TypeOK, ClientTypeOK, StatusFollows
<1>1. CASE Host \/ UNCHANGED vars
  BY <1>1 DEF Host, vars, clientVars
<1>2. ASSUME NEW c \in Calls, Client(c)
      PROVE  StatusFollows'
  <2>1. CASE Invoke(c) \/ SendRequest(c)
    BY <2>1 DEF Invoke, SendRequest
  <2>2. CASE Resume(c) \/ Return(c)
    BY <2>2 DEF Resume, Return
  <2>3. CASE TryComplete(c)
    BY <2>3 DEF TryComplete
  <2>4. CASE TimerRemoves(c) \/ TimerMarks(c)
    BY <2>4 DEF TimerRemoves, TimerMarks
  <2>5. CASE TimerFaults(c) \/ TimerFaultsInline(c)
    BY <2>5 DEF TimerFaults, TimerFaultsInline
  <2>6. CASE CallerCancel(c) \/ OnResponse(c) \/ OnBasicReturn(c) \/ TimerCancels(c)
    BY <2>6 DEF CallerCancel, OnResponse, OnBasicReturn, Receive, TimerCancels
  <2> QED
    BY <1>2, <2>1, <2>2, <2>3, <2>4, <2>5, <2>6 DEF Client, ClientStep
<1> QED
  BY <1>1, <1>2 DEF Next

LEMMA StatusFollowsHolds == Spec => [](TypeInv /\ StatusFollows)
<1>1. Init => TypeInv /\ StatusFollows
  BY TypeInvInit DEF Init, ClientInit, StatusFollows
<1>2. TypeInv /\ StatusFollows /\ [Next]_vars => (TypeInv /\ StatusFollows)'
  BY TypeInvNext, StatusFollowsNext
<1> QED
  BY <1>1, <1>2, PTL DEF Spec

\* In every system, the status and the result of a call that has returned agree,
\* unless the timer removed the call first and lost to its response.
THEOREM StatusAgrees == Spec => []StatusAgreesOrTimerRaced
<1>1. StatusFollows => StatusAgreesOrTimerRaced
  <2> SUFFICES ASSUME StatusFollows, NEW c \in Calls, phase[c] = "returned"
               PROVE  \/ status[c] = StatusOf(tcs[c])
                      \/ status[c] = "TimedOut" /\ c \notin requests /\ tcs[c] # "timeout"
    BY DEF StatusAgreesOrTimerRaced
  <2>1. StatusOf("timeout") = "TimedOut"
    BY DEF StatusOf
  <2> QED
    BY <2>1 DEF StatusFollows
<1> QED
  BY <1>1, StatusFollowsHolds, PTL

-----------------------------------------------------------------------------
\* A running action can be cancelled.  With RejectRequest a replica can be given the
\* request again while it still answers it, and removes the token of the second execution
\* when it has finished the first; by then it has lost its channel.

\* ExecuteRequestAsync has registered a token and is still deciding what to answer.
Begun == {"running", "backoff", "ran"}

\* Deliveries of one request to one host share an entry of _ongoingRequests.
Beside(d, e) == CallOf(d) = CallOf(e) /\ site[d] = site[e]

\* Deliveries are numbered in the order they are handed out.
HandedOut == \A d \in Deliveries : site[d] \in Hosts => d[2] <= delivered[CallOf(d)]

OneActive ==
  \A d, e \in Deliveries :
    pc[d] \in Active /\ pc[e] \in Active /\ Beside(d, e) => d = e

\* Only an execution that has rejected the request ends beside one that is active.
RejectedAhead ==
  \A d, e \in Deliveries :
    /\ pc[d] \in Active
    /\ Living(e) /\ pc[e] \notin Active
    /\ Beside(d, e)
    => outcome[e] = "reject" /\ e[2] < d[2]

\* On an open channel, only a rejected request has gone back to the broker.
HeldOrRejected ==
  \A d \in Deliveries :
    Living(d) /\ pc[d] \notin Active /\ link[site[d]] = "open" =>
      Taken(d) \/ (outcome[d] = "reject" /\ pc[d] \in {"rejected", "replied"})

HasToken(d) ==
  \/ ongoing[site[d]][CallOf(d)] = d[2]
  \/ /\ ongoing[site[d]][CallOf(d)] = 0
     /\ link[site[d]] # "open"
     /\ \E e \in Deliveries : RejectedBefore(e, d)

BegunHaveTokens == \A d \in Deliveries : pc[d] \in Begun => HasToken(d)

TokenInv == HandedOut /\ OneActive /\ RejectedAhead /\ HeldOrRejected /\ BegunHaveTokens

\* An execution that leaves the active states had its entry for itself until then.
LEMMA StepsBeside ==
  ASSUME TokenInv, UNCHANGED <<site, delivered>>,
         \A e \in Deliveries : Living(e)' => Living(e),
         \A e \in Deliveries : pc'[e] \in Active => pc[e] \in Active,
         \A e \in Deliveries :
           Living(e)' /\ pc[e] \notin Active => outcome'[e] = outcome[e]
  PROVE  HandedOut' /\ OneActive' /\ RejectedAhead'
<1> USE DEF TokenInv, Beside
<1>1. HandedOut'
  BY DEF HandedOut
<1>2. OneActive'
  BY DEF OneActive
<1>3. ASSUME NEW d \in Deliveries, NEW e \in Deliveries, pc'[d] \in Active, Living(e)',
             pc'[e] \notin Active, Beside(d, e)'
      PROVE  outcome'[e] = "reject" /\ e[2] < d[2]
  <2>1. pc[d] \in Active /\ Living(e) /\ Beside(d, e) /\ d # e
    BY <1>3
  <2>2. pc[e] \notin Active
    BY <2>1 DEF OneActive
  <2> QED
    BY <1>3, <2>1, <2>2 DEF RejectedAhead
<1> QED
  BY <1>1, <1>2, <1>3 DEF RejectedAhead

LEMMA TokenIsKept ==
  ASSUME NEW d \in Deliveries, HasToken(d), site' = site,
         UNCHANGED ongoing[site[d]][CallOf(d)],
         link[site[d]] # "open" => link'[site[d]] # "open",
         \A e \in Deliveries :
           Beside(e, d) /\ pc[e] = "over" => pc'[e] = "over" /\ outcome'[e] = outcome[e]
  PROVE  HasToken(d)'
BY DEF HasToken, RejectedBefore, Beside

\* When a channel closes, the broker takes back the requests of its host alone.
LEMMA LoseConsumerHeld ==
  ASSUME BrokerTypeOK, DeliveryInv, TokenInv,
         NEW h \in Hosts, NEW l \in LinkStates \ {"open"}, LoseConsumer(h, l),
         \A e \in Deliveries : Living(e)' => Living(e),
         \A e \in Deliveries : site[e] # h => UNCHANGED <<pc[e], outcome[e]>>
  PROVE  HeldOrRejected'
<1>1. /\ site' = site
      /\ \A d \in Deliveries : tag'[d] = IF d \in Unacked(h) THEN "requeued" ELSE tag[d]
      /\ \A g \in Hosts : link'[g] = IF g = h THEN l ELSE link[g]
  BY DEF LoseConsumer, BrokerTypeOK
<1> SUFFICES ASSUME NEW d \in Deliveries, Living(d)', pc'[d] \notin Active,
                    link'[site[d]] = "open"
             PROVE  Taken(d)' \/ (outcome'[d] = "reject" /\ pc'[d] \in {"rejected", "replied"})
  BY <1>1 DEF HeldOrRejected
<1>2. site[d] \in Hosts /\ site[d] # h /\ link[site[d]] = "open"
  BY <1>1 DEF DeliveryInv, RunsSomewhere
<1>3. UNCHANGED <<pc[d], outcome[d], tag[d]>> /\ Living(d)
  BY <1>1, <1>2 DEF Unacked
<1> QED
  BY <1>2, <1>3 DEF TokenInv, HeldOrRejected, Taken

\* What an execution may change: its outcome while it is active, its own entry of
\* _ongoingRequests when it begins and when it finishes.
LEMMA ExecuteWrites ==
  ASSUME HostTypeOK, NEW d \in Deliveries, Execute(d)
  PROVE  /\ \A e \in Deliveries : e # d => UNCHANGED <<pc[e], outcome[e]>>
         /\ pc[d] \notin Active => outcome' = outcome
         /\ Begin(d) \/ Finish(d) \/ (ongoing' = ongoing /\ (pc'[d] \in Begun => pc[d] \in Begun))
<1> USE DEF HostTypeOK, Goto, Active, Begun
<1>1. CASE Begin(d) \/ (\E o \in AllOutcomes : Complete(d, o)) \/ PipelineThrows(d)
  BY <1>1 DEF Begin, Complete, PipelineThrows
<1>2. CASE Conflict(d) \/ BackoffElapses(d) \/ BackoffAborted(d) \/ ReExecute(d)
  BY <1>2 DEF Conflict, BackoffElapses, BackoffAborted, ReExecute
<1>3. CASE Reject(d) \/ ReturnDefaultThrows(d) \/ Reply(d)
  BY <1>3 DEF Reject, ReturnDefaultThrows, Reply, ResponseReady
<1>4. CASE Ack(d) \/ Nack(d) \/ Finish(d)
  BY <1>4 DEF Ack, Nack, Finish
<1> QED
  BY <1>1, <1>2, <1>3, <1>4 DEF Execute

LEMMA ExecuteHeld ==
  ASSUME TypeInv, DeliveryInv, TokenInv, NEW d \in Deliveries, Execute(d)
  PROVE  HeldOrRejected'
<1> USE DEF TypeInv, TypeOK, BrokerTypeOK, HostTypeOK
<1>1. /\ Living(d) /\ site[d] \in Hosts
      /\ \A e \in Deliveries : Living(e)' => Living(e)
      /\ \A e \in Deliveries : e # d => UNCHANGED <<pc[e], outcome[e]>>
  BY ExecuteMoves, ExecuteWrites DEF DeliveryInv, RunsSomewhere, Living
<1>2. CASE UNCHANGED <<queued, delivered, site, tag, link>>
  <2> SUFFICES ASSUME NEW e \in Deliveries, Living(e)', pc'[e] \notin Active,
                      link[site[e]] = "open"
               PROVE  Taken(e) \/ (outcome'[e] = "reject" /\ pc'[e] \in {"rejected", "replied"})
    BY <1>2 DEF HeldOrRejected, Taken
  <2>1. CASE e # d
    BY <1>1, <2>1 DEF TokenInv, HeldOrRejected
  <2>2. CASE e = d /\ pc[d] \in Active
    BY <2>2 DEF DeliveryInv, ActiveIsOutstanding, Taken
  <2>3. CASE e = d /\ pc[d] \notin Active
    <3>1. Taken(d) \/ (outcome[d] = "reject" /\ pc[d] \in {"rejected", "replied"})
      BY <1>1, <2>3 DEF TokenInv, HeldOrRejected
    <3>2. CASE pc[d] = "rejected" /\ outcome[d] = "reject"
      <4>1. Reply(d)
        BY <3>2 DEF Execute, Begin, Complete, PipelineThrows, Conflict, BackoffElapses,
                    BackoffAborted, ReExecute, Reject, ReturnDefaultThrows, Ack, Nack, Finish
      <4> QED
        BY <2>3, <3>2, <4>1 DEF Reply, Goto
    <3>3. CASE pc[d] = "replied"
      <4>1. Ack(d)
        BY <3>3 DEF Execute, Begin, Complete, PipelineThrows, Conflict, BackoffElapses,
                    BackoffAborted, ReExecute, Reject, ReturnDefaultThrows, Reply,
                    ResponseReady, Nack, Finish
      <4>2. Settle(d, "acked")
        BY <2>3, <4>1 DEF Ack
      <4> QED
        BY <1>2, <1>1, <2>3, <4>2 DEF Settle, LoseConsumer
    <3> QED
      BY <2>3, <3>1, <3>2, <3>3
  <2> QED
    BY <2>1, <2>2, <2>3
<1>3. ASSUME NEW s \in {"requeued", "acked", "dropped"}, Settle(d, s),
             s = "requeued" => Reject(d), link[site[d]] = "open"
      PROVE  HeldOrRejected'
  <2>1. CASE tag[d] = "unacked"
    <3>1. UNCHANGED <<site, link>> /\ tag' = [tag EXCEPT ![d] = s]
      BY <1>3, <2>1 DEF Settle
    <3>2. s = "requeued" => outcome'[d] = "reject" /\ pc'[d] = "rejected"
      BY <1>3 DEF Reject, Goto
    <3> SUFFICES ASSUME NEW e \in Deliveries, Living(e)', pc'[e] \notin Active,
                        link[site[e]] = "open"
                 PROVE  \/ Taken(e)'
                        \/ outcome'[e] = "reject" /\ pc'[e] \in {"rejected", "replied"}
      BY <3>1 DEF HeldOrRejected
    <3>3. CASE e = d
      BY <3>1, <3>2, <3>3 DEF Taken
    <3>4. CASE e # d
      BY <1>1, <3>1, <3>4 DEF TokenInv, HeldOrRejected, Taken
    <3> QED
      BY <3>3, <3>4
  <2>2. CASE tag[d] # "unacked"
    <3>1. LoseConsumer(site[d], "faulted")
      BY <1>3, <2>2 DEF Settle
    <3> QED
      BY <1>1, <3>1, LoseConsumerHeld DEF LinkStates
  <2> QED
    BY <2>1, <2>2
<1> QED
  BY <1>2, <1>3, ExecuteSettles

\* An execution that finishes beside one that has begun has rejected the request, and
\* by its acknowledgement lost the channel.
LEMMA FinishBeside ==
  ASSUME TypeInv, DeliveryInv, TokenInv, NEW d \in Deliveries, NEW e \in Deliveries,
         Finish(d), e # d, pc[e] \in Begun, Beside(d, e)
  PROVE  HasToken(e)'
<1> USE DEF TypeInv, TypeOK, BrokerTypeOK, HostTypeOK
<1>1. /\ pc[d] = "settled" /\ Living(d) /\ pc[d] \notin Active /\ pc[e] \in Active
      /\ site[d] \in Hosts /\ CallOf(d) \in Calls
  BY DEF Finish, Living, Active, Begun, DeliveryInv, RunsSomewhere, CallOf, Deliveries
<1>2. outcome[d] = "reject" /\ d[2] < e[2]
  BY <1>1 DEF TokenInv, RejectedAhead, Beside
<1>3. link[site[d]] # "open"
  <2> SUFFICES ASSUME link[site[d]] = "open" PROVE FALSE
    OBVIOUS
  <2>1. Taken(d)
    BY <1>1 DEF TokenInv, HeldOrRejected
  <2>2. Taken(e)
    BY <1>1 DEF DeliveryInv, ActiveIsOutstanding, Taken, Beside
  <2> QED
    BY <2>1, <2>2 DEF DeliveryInv, OneTaker, Beside
<1>4. /\ UNCHANGED <<site, link, outcome>>
      /\ ongoing'[site[d]][CallOf(d)] = 0
      /\ pc'[d] = "over"
  BY <1>1 DEF Finish, Goto, brokerVars
<1>5. RejectedBefore(d, e)'
  BY <1>2, <1>4 DEF RejectedBefore, Beside
<1> QED
  BY <1>3, <1>4, <1>5 DEF HasToken, Beside

LEMMA ExecuteTokens ==
  ASSUME TypeInv, DeliveryInv, TokenInv, NEW d \in Deliveries, Execute(d)
  PROVE  TokenInv'
<1> USE DEF TypeInv, TypeOK, BrokerTypeOK, HostTypeOK
<1>1. /\ Living(d) /\ site[d] \in Hosts /\ CallOf(d) \in Calls
      /\ \A e \in Deliveries : Living(e)' => Living(e)
      /\ \A e \in Deliveries : pc'[e] \in Active => pc[e] \in Active
      /\ \A e \in Deliveries : e # d => UNCHANGED <<pc[e], outcome[e]>>
      /\ \A e \in Deliveries : pc[e] \notin Active => outcome'[e] = outcome[e]
  <2>1. PICK l \in PCs : /\ pc' = [pc EXCEPT ![d] = l]
                         /\ l # "none"
                         /\ l \in Active => pc[d] \in Active
    BY ExecuteMoves
  <2>2. Living(d) /\ site[d] \in Hosts /\ CallOf(d) \in Calls
    BY ExecuteMoves DEF DeliveryInv, RunsSomewhere, CallOf, Deliveries
  <2>3. \A e \in Deliveries : Living(e)' => Living(e)
    BY <2>1, <2>2 DEF Living
  <2>4. \A e \in Deliveries : pc'[e] \in Active => pc[e] \in Active
    BY <2>1
  <2> QED
    BY <2>2, <2>3, <2>4, ExecuteWrites
<1>2. /\ UNCHANGED <<site, delivered>>
      /\ \A g \in Hosts : link[g] # "open" => link'[g] # "open"
  <2>1. ASSUME NEW s \in TagStates, Settle(d, s)
        PROVE  /\ UNCHANGED <<site, delivered>>
               /\ \A g \in Hosts : link[g] # "open" => link'[g] # "open"
    BY <1>1, <2>1 DEF Settle, LoseConsumer
  <2> QED
    BY <2>1, ExecuteSettles DEF TagStates
<1>3. HandedOut' /\ OneActive' /\ RejectedAhead'
  BY <1>1, <1>2, StepsBeside
<1>4. HeldOrRejected'
  BY ExecuteHeld
<1>5. ASSUME NEW e \in Deliveries, pc'[e] \in Begun
      PROVE  HasToken(e)'
  <2>1. pc[e] \in Active /\ site[e] \in Hosts /\ CallOf(e) \in Calls
    BY <1>1, <1>5 DEF Begun, Active, Living, DeliveryInv, RunsSomewhere, CallOf, Deliveries
  <2>2. ASSUME pc[e] \in Begun, UNCHANGED ongoing[site[e]][CallOf(e)]
        PROVE  HasToken(e)'
    <3>1. HasToken(e)
      BY <2>2 DEF TokenInv, BegunHaveTokens
    <3>2. \A f \in Deliveries : pc[f] = "over" => pc'[f] = "over" /\ outcome'[f] = outcome[f]
      BY <1>1 DEF Living
    <3> QED
      BY <1>2, <2>1, <2>2, <3>1, <3>2, TokenIsKept
  <2>3. CASE Begin(d) /\ e = d
    BY <1>1, <1>2, <2>3 DEF Begin, CallOf, HasToken
  <2>4. CASE (Begin(d) \/ Finish(d)) /\ e # d /\ ~Beside(d, e)
    <3>1. ongoing'[site[e]][CallOf(e)] = ongoing[site[e]][CallOf(e)]
      BY <1>1, <2>1, <2>4 DEF Begin, Finish, CallOf, Beside
    <3> QED
      BY <1>1, <1>2, <1>5, <2>2, <2>4, <3>1
  <2>5. CASE Begin(d) /\ e # d /\ Beside(d, e)
    BY <2>1, <2>5 DEF Begin, Active, TokenInv, OneActive
  <2>6. CASE Finish(d) /\ e # d /\ Beside(d, e)
    BY <1>1, <1>5, <2>6, FinishBeside
  <2>7. CASE Finish(d) /\ e = d
    BY <1>5, <2>7 DEF Finish, Goto, Begun
  <2>8. CASE ~Begin(d) /\ ~Finish(d)
    <3>1. ongoing' = ongoing /\ (pc'[d] \in Begun => pc[d] \in Begun)
      BY <2>8, ExecuteWrites
    <3>2. pc[e] \in Begun
      BY <1>1, <1>5, <3>1
    <3> QED
      BY <1>2, <2>2, <3>1, <3>2
  <2> QED
    BY <2>3, <2>4, <2>5, <2>6, <2>7, <2>8
<1> QED
  BY <1>3, <1>4, <1>5 DEF TokenInv, BegunHaveTokens

\* A request is handed to a host that does not hold it: what the host still executes of it
\* has been rejected.
LEMMA HandOutTokens ==
  ASSUME TypeInv, DeliveryInv, TokenInv, NEW h \in Hosts, NEW c \in Calls, OnInvokeRequest(h, c)
  PROVE  TokenInv'
<1> USE DEF TypeInv, TypeOK, BrokerTypeOK, HostTypeOK
<1>1. PICK n \in Deliveries : n = <<c, delivered[c] + 1>> /\ CallOf(n) = c
  BY BrokerAssumption DEF OnInvokeRequest, HandOut, Deliveries, CallOf
<1>2. /\ c \in queued /\ link[h] = "open" /\ UNCHANGED <<link, ongoing, outcome>>
      /\ \A x \in Calls : delivered'[x] = IF x = c THEN delivered[c] + 1 ELSE delivered[x]
      /\ \A d \in Deliveries : /\ pc'[d] = IF d = n THEN "buffered" ELSE pc[d]
                               /\ site'[d] = IF d = n THEN h ELSE site[d]
                               /\ tag'[d] = IF d = n THEN "unacked" ELSE tag[d]
  BY <1>1 DEF OnInvokeRequest, HandOut, Goto
<1>3. \A d \in Deliveries : CallOf(d) \in Calls /\ d[2] \in Nat /\ delivered[CallOf(d)] \in Nat
  BY BrokerAssumption DEF CallOf, Deliveries
<1>4. \A d \in Deliveries : site[d] \in Hosts /\ CallOf(d) = c => d # n /\ d[2] < n[2]
  BY <1>1, <1>3 DEF TokenInv, HandedOut
<1>5. \A d \in Deliveries : Living(d) /\ CallOf(d) = c /\ site[d] = h =>
        pc[d] \notin Active /\ outcome[d] = "reject"
  BY <1>2 DEF DeliveryInv, OneTaker, ActiveIsOutstanding, Taken, TokenInv, HeldOrRejected
<1>6. HandedOut'
  <2> SUFFICES ASSUME NEW d \in Deliveries, site'[d] \in Hosts
               PROVE  d[2] <= delivered'[CallOf(d)]
    BY DEF HandedOut
  <2>1. CASE d = n
    BY <1>1, <1>2, <1>3, <2>1
  <2>2. CASE d # n
    BY <1>2, <1>3, <2>2 DEF TokenInv, HandedOut
  <2> QED
    BY <2>1, <2>2
<1>7. \A d \in Deliveries : Living(d) => d # n
  BY <1>1, <1>4 DEF DeliveryInv, RunsSomewhere
<1>8. OneActive'
  <2> SUFFICES ASSUME NEW d \in Deliveries, NEW e \in Deliveries, pc'[d] \in Active,
                      pc'[e] \in Active, Beside(d, e)', d # e
               PROVE  FALSE
    BY DEF OneActive
  <2>1. CASE d # n /\ e # n
    BY <1>2, <2>1 DEF TokenInv, OneActive, Beside
  <2>2. CASE d = n
    BY <1>1, <1>2, <1>5, <2>2 DEF Beside, Living, Active
  <2>3. CASE e = n
    BY <1>1, <1>2, <1>5, <2>3 DEF Beside, Living, Active
  <2> QED
    BY <2>1, <2>2, <2>3
<1>9. RejectedAhead'
  <2> SUFFICES ASSUME NEW d \in Deliveries, NEW e \in Deliveries, pc'[d] \in Active,
                      Living(e)', pc'[e] \notin Active, Beside(d, e)'
               PROVE  outcome[e] = "reject" /\ e[2] < d[2]
    BY <1>2 DEF RejectedAhead
  <2>1. e # n /\ Living(e) /\ pc[e] \notin Active /\ site'[e] = site[e]
    BY <1>2 DEF Active, Living
  <2>2. CASE d # n
    BY <1>2, <2>1, <2>2 DEF TokenInv, RejectedAhead, Beside
  <2>3. CASE d = n
    <3>1. CallOf(e) = c /\ site[e] = h
      BY <1>1, <1>2, <2>1, <2>3 DEF Beside
    <3> QED
      BY <1>4, <1>5, <2>1, <2>3, <3>1
  <2> QED
    BY <2>2, <2>3
<1>10. HeldOrRejected'
  <2> SUFFICES ASSUME NEW d \in Deliveries, Living(d)', pc'[d] \notin Active,
                      link[site'[d]] = "open"
               PROVE  Taken(d)' \/ (outcome[d] = "reject" /\ pc'[d] \in {"rejected", "replied"})
    BY <1>2 DEF HeldOrRejected
  <2>1. d # n /\ Living(d) /\ UNCHANGED <<pc[d], site[d], tag[d]>>
    BY <1>2 DEF Active, Living
  <2> QED
    BY <2>1 DEF TokenInv, HeldOrRejected, Taken
<1>11. ASSUME NEW d \in Deliveries, pc'[d] \in Begun
       PROVE  HasToken(d)'
  <2>1. d # n /\ pc[d] \in Begun /\ Living(d) /\ site'[d] = site[d] /\ site[d] \in Hosts
    BY <1>2, <1>11 DEF Begun, Living, DeliveryInv, RunsSomewhere
  <2>2. HasToken(d)
    BY <2>1 DEF TokenInv, BegunHaveTokens
  <2>3. ASSUME NEW e \in Deliveries, RejectedBefore(e, d)
        PROVE  RejectedBefore(e, d)'
    <3>1. e # n
      BY <1>1, <1>4, <2>1, <2>3 DEF RejectedBefore
    <3> QED
      BY <1>2, <2>1, <2>3, <3>1 DEF RejectedBefore
  <2> QED
    BY <1>2, <2>1, <2>2, <2>3 DEF HasToken
<1> QED
  BY <1>6, <1>8, <1>9, <1>10, <1>11 DEF TokenInv, BegunHaveTokens

LEMMA TokenInvNext == TypeInv /\ DeliveryInv /\ TokenInv /\ [Next]_vars => TokenInv'
<1> SUFFICES ASSUME TypeInv, DeliveryInv, TokenInv, [Next]_vars PROVE TokenInv'
  OBVIOUS
<1> USE DEF TypeInv, TypeOK, BrokerTypeOK, HostTypeOK
<1>1. ASSUME NEW h \in Hosts, NEW l \in LinkStates \ {"open"}, LoseConsumer(h, l),
             UNCHANGED outcome,
             \A d \in Deliveries : site[d] # h => UNCHANGED pc[d],
             \A g \in Hosts : g # h => UNCHANGED ongoing[g],
             \/ UNCHANGED <<pc, ongoing>>
             \/ \A d \in Deliveries : site[d] = h => pc'[d] = "over"
      PROVE  TokenInv'
  <2>1. /\ UNCHANGED <<site, delivered>>
        /\ \A g \in Hosts : link[g] # "open" => link'[g] # "open"
    BY <1>1 DEF LoseConsumer
  <2>2. /\ \A d \in Deliveries : Living(d)' => Living(d)
        /\ \A d \in Deliveries : pc'[d] \in Active => pc[d] \in Active
    BY <1>1 DEF Living, Active
  <2>3. HandedOut' /\ OneActive' /\ RejectedAhead'
    BY <1>1, <2>1, <2>2, StepsBeside
  <2>4. HeldOrRejected'
    BY <1>1, <2>2, LoseConsumerHeld
  <2>5. ASSUME NEW d \in Deliveries, pc'[d] \in Begun
        PROVE  HasToken(d)'
    <3>1. pc[d] \in Begun /\ site[d] \in Hosts
      BY <1>1, <2>5 DEF Begun, Living, DeliveryInv, RunsSomewhere
    <3>2. HasToken(d)
      BY <3>1 DEF TokenInv, BegunHaveTokens
    <3>3. \A e \in Deliveries : Beside(e, d) /\ pc[e] = "over" => pc'[e] = "over"
      BY <1>1 DEF Beside
    <3>4. ongoing'[site[d]] = ongoing[site[d]]
      BY <1>1, <2>5, <3>1 DEF Begun
    <3> QED
      BY <1>1, <2>1, <3>1, <3>2, <3>3, <3>4, TokenIsKept
  <2> QED
    BY <2>3, <2>4, <2>5 DEF TokenInv, BegunHaveTokens
<1>2. ASSUME NEW h \in Hosts, Start(h)
      PROVE  TokenInv'
  <2>1. /\ UNCHANGED <<delivered, site, tag, pc, ongoing, outcome>>
        /\ \A g \in Hosts : link'[g] = IF g = h THEN "open" ELSE link[g]
        /\ link[h] = "down"
    BY <1>2 DEF Start, hostVars
  <2>2. \A d \in Deliveries : Living(d) => link'[site[d]] = link[site[d]]
    BY <2>1 DEF DeliveryInv, RunsSomewhere
  <2>3. HandedOut' /\ OneActive' /\ RejectedAhead'
    BY <2>1, StepsBeside DEF Living
  <2>4. HeldOrRejected'
    BY <2>1, <2>2 DEF TokenInv, HeldOrRejected, Living, Taken
  <2>5. BegunHaveTokens'
    BY <2>1, <2>2 DEF TokenInv, BegunHaveTokens, HasToken, RejectedBefore, Living, Begun
  <2> QED
    BY <2>3, <2>4, <2>5 DEF TokenInv
<1>3. ASSUME NEW h \in Hosts, Stop(h)
      PROVE  TokenInv'
  BY <1>1, <1>3 DEF Stop, LinkStates
<1>4. ASSUME NEW h \in Hosts, Crash(h)
      PROVE  TokenInv'
  <2>1. /\ LoseConsumer(h, "down") /\ outcome' = outcome
        /\ \A d \in Deliveries : pc'[d] = IF site[d] = h THEN "over" ELSE pc[d]
        /\ \A g \in Hosts : g # h => ongoing'[g] = ongoing[g]
    BY <1>4 DEF Crash
  <2> QED
    BY <1>1, <2>1 DEF LinkStates
<1>5. ASSUME NEW h \in Hosts, NEW c \in Calls, OnInvokeRequest(h, c)
      PROVE  TokenInv'
  BY <1>5, HandOutTokens
<1>6. ASSUME NEW d \in Deliveries, Execute(d)
      PROVE  TokenInv'
  BY <1>6, ExecuteTokens
<1>7. CASE UNCHANGED <<delivered, site, tag, link, pc, ongoing, outcome>>
  BY <1>7 DEF TokenInv, HandedOut, OneActive, RejectedAhead, HeldOrRejected, BegunHaveTokens,
              HasToken, RejectedBefore, Beside, Living, Taken
<1>8. ASSUME NEW c \in Calls, Client(c)
      PROVE  TokenInv'
  BY <1>7, <1>8, ClientLeavesDeliveries
<1>9. ASSUME NEW h \in Hosts, NEW c \in Calls, OnCancelRequest(h, c)
      PROVE  TokenInv'
  BY <1>7, <1>9 DEF OnCancelRequest
<1>10. CASE UNCHANGED vars
  BY <1>7, <1>10 DEF vars, brokerVars, hostVars
<1> QED
  BY <1>2, <1>3, <1>4, <1>5, <1>6, <1>8, <1>9, <1>10 DEF Next, Host, HostStep

\* In every system, the cancellation of a request finds the token of the execution that
\* is running, unless its host has rejected the request before and lost its channel by
\* answering it nevertheless.
THEOREM ExecutionsAreCancellable == Spec => []ExecutingIsCancellable
<1>1. Init => TokenInv
  BY BrokerAssumption
     DEF Init, BrokerInit, HostInit, TokenInv, HandedOut, OneActive, RejectedAhead,
         HeldOrRejected, BegunHaveTokens, Begun, Living, Active
<1>2. SystemInv /\ TokenInv /\ [Next]_vars => TokenInv'
  BY TokenInvNext DEF SystemInv, SuccessInv
<1>3. TokenInv => ExecutingIsCancellable
  BY DEF TokenInv, BegunHaveTokens, Begun, HasToken, ExecutingIsCancellable, Executing
<1> QED
  BY <1>1, <1>2, <1>3, SystemInvHolds, PTL DEF Spec

-----------------------------------------------------------------------------
\* What a caller is promised: the safety half of RpcPromise.  A filter that chooses
\* RejectRequest breaks it, for its replica answers a call it has not computed.

\* The caller's token is observed from the invocation to the continuation.
ObservedWhileOpen ==
  \A c \in Calls : reg[c] = "active" => phase[c] \in {"invoked", "awaiting"}

PromiseInv ==
  SystemInv /\ NeverRejected /\ AbortsAreWanted /\ StatusFollows /\ ObservedWhileOpen

LEMMA ObservedWhileOpenNext ==
  ASSUME TypeInv, StatusFollows, ObservedWhileOpen, [Next]_vars
  PROVE  ObservedWhileOpen'
<1> USE DEF TypeInv, TypeOK, ClientTypeOK, ObservedWhileOpen
<1>1. CASE Host \/ UNCHANGED vars
  BY <1>1 DEF Host, vars, clientVars
<1>2. ASSUME NEW c \in Calls, Client(c)
      PROVE  ObservedWhileOpen'
  <2>1. CASE Invoke(c) \/ SendRequest(c) \/ Resume(c) \/ Return(c)
    BY <2>1 DEF Invoke, SendRequest, Resume, Return
  <2>2. CASE CallerCancel(c) \/ TimerCancels(c) \/ TimerFaultsInline(c)
    BY <2>2 DEF CallerCancel, TimerCancels, TimerFaultsInline
  <2>3. CASE UNCHANGED <<phase, reg>>
    BY <2>3
  <2> QED
    BY <1>2, <2>1, <2>2, <2>3
       DEF Client, ClientStep, OnResponse, OnBasicReturn, Receive, TryComplete,
           TimerRemoves, TimerMarks, TimerFaults
<1> QED
  BY <1>1, <1>2 DEF Next

LEMMA PromiseInvHolds ==
  ASSUME "reject" \notin Outcomes
  PROVE  Spec => []PromiseInv
<1> DEFINE Rest == NeverRejected /\ ObservedWhileOpen
<1>1. Init => Rest
  BY DEF Init, HostInit, ClientInit, NeverRejected, ObservedWhileOpen
<1>2. TypeInv /\ StatusFollows /\ Rest /\ [Next]_vars => Rest'
  BY NeverRejectedNext, ObservedWhileOpenNext
<1> QED
  BY <1>1, <1>2, SystemInvHolds, AbortsAreWantedHolds, StatusFollowsHolds, PTL
     DEF Spec, PromiseInv

\* With no rejection, what is answered is what is computed.
LEMMA AnsweredIsComputed ==
  ASSUME NeverRejected
  PROVE  Answered = Computed
BY DEF NeverRejected, Answered, Answers, Computed

LEMMA PromiseInit == Init => Promise!Init
<1> SUFFICES ASSUME Init PROVE Promise!Init
  OBVIOUS
<1>1. \A c \in Calls : ResultSeen(c) = "none"
  BY DEF Init, ClientInit, ResultSeen
<1>2. Computed = {}
  BY DEF Init, HostInit, Computed
<1> QED
  BY <1>1, <1>2 DEF Init, ClientInit, Promise!Init

\* A replica's step computes a result of one call that was sent, or none, and
\* the caller sees nothing of it.
LEMMA HostStepComputes ==
  ASSUME PromiseInv, NeverRejected', Host
  PROVE  \/ Computed' = Computed
         \/ \E c \in Calls : ResultSeen(c) # "none" /\ Computed' = Computed \union {c}
<1> USE DEF PromiseInv, SystemInv, SuccessInv, TypeInv, TypeOK
<1>1. Computed \subseteq Computed'
  BY HostStepResults, AnsweredIsComputed DEF Host, Answered, Answers, Computed, NeverRejected
<1>2. ASSUME NEW d \in Deliveries, Execute(d)
      PROVE  \/ Computed' = Computed
             \/ \E c \in Calls : ResultSeen(c) # "none" /\ Computed' = Computed \union {c}
  <2>1. CallOf(d) \in Calls /\ Living(d)
    BY <1>2, ExecuteMoves DEF CallOf, Deliveries
  <2>2. phase[CallOf(d)] # "idle"
    BY <2>1 DEF DeliveryInv, SentFirst
  <2>3. ResultSeen(CallOf(d)) # "none"
    BY <2>2 DEF ResultSeen, StatusOf
  <2>4. \A e \in Deliveries : e # d => outcome'[e] = outcome[e]
    BY <1>2 DEF Execute, Begin, Complete, PipelineThrows, Conflict, BackoffElapses,
                BackoffAborted, ReExecute, Reject, ReturnDefaultThrows, Reply, Ack, Nack,
                Finish, HostTypeOK
  <2>5. Computed' \subseteq Computed \union {CallOf(d)}
    BY <2>4 DEF Computed
  <2> QED
    BY <1>1, <2>1, <2>3, <2>5
<1>3. CASE outcome' = outcome
  BY <1>3 DEF Computed
<1> QED
  BY <1>2, <1>3 DEF Host, HostStep, Start, Stop, Crash, OnInvokeRequest, OnCancelRequest,
                    hostVars

\* What a caller's invocation ends with is backed by a result or by its own wish.
LEMMA EndIsBacked ==
  ASSUME PromiseInv, NEW c \in Calls, tcs[c] # "open"
  PROVE  /\ StatusOf(tcs[c]) \in Promise!Endings
         /\ StatusOf(tcs[c]) = "Sucess" => c \in Computed
         /\ StatusOf(tcs[c]) = "Aborted" => c \in callerCancelled
<1> USE DEF PromiseInv, SystemInv, SuccessInv, TypeInv, TypeOK, ClientTypeOK
<1>1. StatusOf(tcs[c]) \in Promise!Endings
  BY DEF StatusOf, Promise!Endings
<1>2. StatusOf(tcs[c]) = "Sucess" => tcs[c] \in Successes
  BY DEF StatusOf, Completions, MessageKinds, ReplyKinds, Successes
<1>3. StatusOf(tcs[c]) = "Aborted" => tcs[c] = "canceled"
  BY DEF StatusOf
<1> QED
  BY <1>1, <1>2, <1>3, AnsweredIsComputed DEF ResultsAreAnswers, AbortsAreWanted

\* A client's step computes nothing and shows its caller at most a step of RpcPromise.
LEMMA ClientStepPromises ==
  ASSUME PromiseInv, NEW c \in Calls, Client(c)
  PROVE  [Promise!Next]_(Promise!vars)
<1> USE DEF PromiseInv, SystemInv, SuccessInv, TypeInv, TypeOK, ClientTypeOK
<1>0. Computed' = Computed
  BY ClientLeavesDeliveries DEF Computed
<1>1. CASE Invoke(c)
  <2>1. ResultSeen(c) = "none" /\ ResultSeen(c)' = "pending"
    BY <1>1 DEF Invoke, ResultSeen
  <2>2. \A x \in Calls : x # c => ResultSeen(x)' = ResultSeen(x)
    BY <1>1 DEF Invoke, ResultSeen
  <2>3. callerCancelled' = callerCancelled
    BY <1>1 DEF Invoke
  <2>4. Promise!Invoke(c)
    BY <1>0, <2>1, <2>2, <2>3 DEF Promise!Invoke
  <2> QED
    BY <2>4 DEF Promise!Next
<1>2. CASE CallerCancel(c)
  <2>1. ResultSeen(c) = "pending"
    BY <1>2 DEF CallerCancel, ObservedWhileOpen, ResultSeen
  <2>2. \A x \in Calls : ResultSeen(x)' = ResultSeen(x)
    BY <1>2 DEF CallerCancel, ResultSeen
  <2>3. Promise!Cancel(c)
    BY <1>0, <1>2, <2>1, <2>2 DEF CallerCancel, Promise!Cancel
  <2> QED
    BY <2>3 DEF Promise!Next
<1>3. CASE Return(c) \/ TimerFaultsInline(c)
  <2>1. /\ phase[c] \in {"awaiting", "closing"}
        /\ phase' = [phase EXCEPT ![c] = "returned"]
        /\ \A x \in Calls : x # c => tcs'[x] = tcs[x]
        /\ callerCancelled' = callerCancelled
    BY <1>3 DEF Return, TimerFaultsInline, StatusFollows, Phases
  <2>2. /\ StatusOf(tcs'[c]) \in Promise!Endings
        /\ StatusOf(tcs'[c]) = "Sucess" => c \in Computed
        /\ StatusOf(tcs'[c]) = "Aborted" => c \in callerCancelled
    <3>1. CASE Return(c)
      <4>1. tcs[c] # "open" /\ tcs' = tcs
        BY <3>1 DEF Return, StatusFollows
      <4> QED
        BY <4>1, EndIsBacked
    <3>2. CASE TimerFaultsInline(c)
      BY <3>2 DEF TimerFaultsInline, StatusOf, Promise!Endings
    <3> QED
      BY <1>3, <3>1, <3>2
  <2>3. ResultSeen(c) = "pending" /\ ResultSeen(c)' = StatusOf(tcs'[c])
    BY <2>1 DEF ResultSeen
  <2>4. \A x \in Calls : x # c => ResultSeen(x)' = ResultSeen(x)
    BY <2>1 DEF ResultSeen
  <2>5. Promise!End(c, StatusOf(tcs'[c]))
    BY <1>0, <2>1, <2>2, <2>3, <2>4 DEF Promise!End
  <2> QED
    BY <2>2, <2>5 DEF Promise!Next
<1>4. ASSUME /\ callerCancelled' = callerCancelled
             /\ \A x \in Calls :
                  /\ \/ phase'[x] = phase[x]
                     \/ {phase[x], phase'[x]} \subseteq {"invoked", "awaiting", "closing"}
                  /\ phase[x] = "returned" => tcs'[x] = tcs[x]
      PROVE  [Promise!Next]_(Promise!vars)
  <2>1. \A x \in Calls : ResultSeen(x)' = ResultSeen(x)
    BY <1>4 DEF ResultSeen
  <2> QED
    BY <1>0, <1>4, <2>1 DEF Promise!vars
<1>5. CASE SendRequest(c) \/ Resume(c)
  BY <1>4, <1>5 DEF SendRequest, Resume
<1>6. CASE TryComplete(c) \/ TimerFaults(c)
  BY <1>4, <1>6 DEF TryComplete, TimerFaults, StatusFollows
<1>7. CASE OnResponse(c) \/ OnBasicReturn(c) \/ TimerRemoves(c) \/ TimerMarks(c) \/ TimerCancels(c)
  BY <1>4, <1>7 DEF OnResponse, OnBasicReturn, Receive, TimerRemoves, TimerMarks, TimerCancels
<1> QED
  BY <1>1, <1>2, <1>3, <1>5, <1>6, <1>7 DEF Client, ClientStep

LEMMA PromiseStep ==
  ASSUME PromiseInv, NeverRejected', [Next]_vars
  PROVE  [Promise!Next]_(Promise!vars)
<1>1. CASE Host
  <2>1. \A x \in Calls : ResultSeen(x)' = ResultSeen(x)
    BY <1>1 DEF Host, clientVars, ResultSeen
  <2>2. callerCancelled' = callerCancelled
    BY <1>1 DEF Host, clientVars
  <2>3. CASE Computed' = Computed
    BY <2>1, <2>2, <2>3 DEF Promise!vars
  <2>4. ASSUME NEW c \in Calls, ResultSeen(c) # "none", Computed' = Computed \union {c}
        PROVE  Promise!Next
    <3>1. Promise!Execute(c)
      BY <2>1, <2>2, <2>4 DEF Promise!Execute
    <3> QED
      BY <3>1 DEF Promise!Next
  <2> QED
    BY <1>1, <2>3, <2>4, HostStepComputes
<1>2. ASSUME NEW c \in Calls, Client(c)
      PROVE  [Promise!Next]_(Promise!vars)
  BY <1>2, ClientStepPromises
<1>3. CASE UNCHANGED vars
  BY <1>3 DEF vars, clientVars, hostVars, ResultSeen, Computed, Promise!vars
<1> QED
  BY <1>1, <1>2, <1>3 DEF Next

\* In every system whose filters never choose RejectRequest, RabbitRPC keeps the
\* safety half of RpcPromise: an invocation ends once, with a success only if its
\* action was computed, and as aborted only if its caller wished so.
THEOREM PromiseIsKept ==
  ASSUME "reject" \notin Outcomes
  PROVE  Spec => Promise!Safety
<1>1. PromiseInv /\ PromiseInv' /\ [Next]_vars => [Promise!Next]_(Promise!vars)
  BY PromiseStep DEF PromiseInv
<1> QED
  BY <1>1, PromiseInit, PromiseInvHolds, PTL DEF Spec, Promise!Safety
=============================================================================
