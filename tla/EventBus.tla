------------------------------ MODULE EventBus ------------------------------
(***************************************************************************)
(* The event bus of one process: RabbitEventBus, the RabbitEventSubject of *)
(* one routing key, and the connection that its provider keeps for the bus *)
(* and the service host together.                                          *)
(*                                                                         *)
(* Four kinds of threads meet: the loop that connects the bus, the start   *)
(* and stop of the host, callers that observe, subscribe, publish and      *)
(* dispose of their subscriptions at any time, also before the bus is      *)
(* started, and the dispatcher of each channel, which runs its consumers   *)
(* one after the other.  Other processes use the same exchange.            *)
(*                                                                         *)
(* The connection recovers by itself from a network failure, as the client *)
(* library does by default; such failures are not modelled.                *)
(***************************************************************************)
EXTENDS Integers, Sequences, FiniteSets, SequencesExt

CONSTANTS
  Observers,    \* callers of Observe and Subscribe
  MaxEvents,    \* bound: events, which are numbered as they are published
  MaxFaults     \* bound: failed steps of the connect loops, messages that cannot be
                \* read, and observers that throw

NoEvent == 0
Events == 1..MaxEvents

ASSUME BusAssumption ==
  /\ IsFiniteSet(Observers)
  /\ MaxEvents \in Nat
  /\ MaxFaults \in Nat

VARIABLES
  exchange,     \* whether the exchange exists at the broker
  connection,   \* the provider's _connection
  host,         \* ConnectLoopAsync of the service host
  loop,         \* ConnectLoopAsync of the bus, and its StopAsync
  model,        \* how many channels the bus has had; _model is the last of them
  open,         \* whether that one is open
  subject,      \* whether _subjects has the routing key
  queues,       \* the queues of the consumers on the open channel
  caller,       \* caller[o]: what o is about to do
  joins,        \* consumers that calls of Observe have added
  observers,    \* _observers of the subject
  dispatch,     \* dispatch[m]: what channel m's dispatcher does with which event
  published,    \* how many events there are
  seen,         \* seen[o][e]: calls of o's OnNext with e
  told,         \* told[o]: the events for which o's OnError was called
  faults

connectVars == <<exchange, connection, host, loop, model, open>>
deliveryVars == <<dispatch, seen, told>>
vars == <<connectVars, subject, queues, caller, joins, observers, deliveryVars,
          published, faults>>

\* Each new channel follows a failed step, or an Observe or Publish that was too early.
MaxModels == 1 + MaxFaults + MaxEvents + Cardinality(Observers)
Channels == 1..MaxModels

\* A round of calls to observers; audience: all that were to be called at first.
Round(e, call, todo, audience) ==
  IF todo = {} THEN [event |-> NoEvent, call |-> "OnNext", todo |-> {}, audience |-> {}]
  ELSE [event |-> e, call |-> call, todo |-> todo, audience |-> audience]
Idle == Round(NoEvent, "OnNext", {}, {})

TypeOK ==
  /\ exchange \in BOOLEAN /\ open \in BOOLEAN /\ subject \in BOOLEAN
  /\ connection \in {"none", "open", "disposed"}
  /\ host \in {"none", "waiting", "started", "stopped"}
  /\ loop \in {"connecting", "declaring", "attaching", "attached",
               "running", "stopped"}
  /\ model \in 0..MaxModels
  /\ Len(queues) <= Cardinality(Observers) + 1
  /\ caller \in [Observers -> {"observing", "connecting", "subscribed", "gone"}]
  /\ joins \in 0..Cardinality(Observers)
  /\ observers \subseteq Observers
  /\ dispatch \in [Channels -> [event: Events \union {NoEvent},
                                call: {"OnNext", "OnError"}, todo: SUBSET Observers,
                                audience: SUBSET Observers]]
  /\ published \in 0..MaxEvents
  /\ seen \in [Observers -> [Events -> Nat]]
  /\ told \in [Observers -> SUBSET Events]
  /\ faults \in 0..MaxFaults

Init ==
  /\ exchange \in BOOLEAN
  /\ connection = "none" /\ host \in {"none", "waiting"} /\ loop = "connecting"
  /\ model = 0 /\ open = FALSE /\ subject = FALSE /\ queues = <<>>
  /\ caller = [o \in Observers |-> "observing"] /\ joins = 0 /\ observers = {}
  /\ dispatch = [m \in Channels |-> Idle]
  /\ published = 0
  /\ seen = [o \in Observers |-> [e \in Events |-> 0]] /\ told = [o \in Observers |-> {}]
  /\ faults = 0
-----------------------------------------------------------------------------
(***************************************************************************)
(* The channel.                                                            *)
(***************************************************************************)

\* With the channel go its consumers and their queues, which are deleted.
CloseChannel == open' = FALSE /\ queues' = <<>>

\* OnConnected: a queue of its own, bound and consumed.
OnConnected == queues' = Append(queues, <<>>)

\* Every queue bound to the exchange gets its copy.
Route(e) == queues' = [c \in DOMAIN queues |-> Append(queues[c], e)]

MayFail == faults < MaxFaults /\ faults' = faults + 1
-----------------------------------------------------------------------------
(***************************************************************************)
(* The bus is started.                                                     *)
(***************************************************************************)

\* CreateConnection and CreateModel.
OpenModel ==
  /\ loop = "connecting" /\ connection # "disposed"
  /\ connection' = "open" /\ model' = model + 1 /\ open' = TRUE
  /\ loop' = "declaring"
  /\ UNCHANGED <<exchange, host, subject, queues, caller, joins, observers,
                 deliveryVars, published, faults>>

\* ExchangeDeclare.
Declare ==
  /\ loop = "declaring" /\ open
  /\ exchange' = TRUE /\ loop' = "attaching"
  /\ UNCHANGED <<connection, host, model, open, subject, queues, caller, joins,
                 observers, deliveryVars, published, faults>>

\* Mutant: subjects that exist are not connected.
AttachNone ==
  /\ loop = "attaching" /\ open
  /\ loop' = "attached"
  /\ UNCHANGED <<exchange, connection, host, model, open, subject, queues, caller,
                 joins, observers, deliveryVars, published, faults>>

\* The subjects that exist by now are connected.
Attach ==
  /\ loop = "attaching" /\ open
  /\ IF subject THEN OnConnected ELSE UNCHANGED queues
  /\ loop' = "attached"
  /\ UNCHANGED <<exchange, connection, host, model, open, subject, caller, joins,
                 observers, deliveryVars, published, faults>>

\* There may be other subjects to be connected in between.
Finish ==
  /\ loop = "attached" /\ open
  /\ loop' = "running"
  /\ UNCHANGED <<exchange, connection, host, model, open, subject, queues, caller,
                 joins, observers, deliveryVars, published, faults>>

\* Mutant: after a failure the loop gives up.
FailGivesUp ==
  /\ \/ loop \in {"declaring", "attaching", "attached"} /\ MayFail
     \/ loop = "declaring" /\ ~open /\ UNCHANGED faults
  /\ loop' = "stopped"
  /\ CloseChannel
  /\ UNCHANGED <<exchange, connection, host, model, subject, caller, joins, observers,
                 deliveryVars, published>>

\* Mutant: the channel is not disposed of.
FailKeeps ==
  /\ \/ loop \in {"declaring", "attaching", "attached"} /\ MayFail
     \/ loop = "declaring" /\ ~open /\ UNCHANGED faults
  /\ loop' = "connecting"
  /\ UNCHANGED <<exchange, connection, host, model, open, subject, queues, caller,
                 joins, observers, deliveryVars, published>>

\* A step fails, ExchangeDeclare for certain when the channel has been closed.  The
\* channel is disposed of and stays in _model; the loop tries again.
Fail ==
  /\ \/ loop \in {"declaring", "attaching", "attached"} /\ MayFail
     \/ loop = "declaring" /\ ~open /\ UNCHANGED faults
  /\ loop' = "connecting"
  /\ CloseChannel
  /\ UNCHANGED <<exchange, connection, host, model, subject, caller, joins, observers,
                 deliveryVars, published>>

-----------------------------------------------------------------------------
(***************************************************************************)
(* The service host shares the bus's connection.  It is started after the  *)
(* bus, which AddRabbitServiceHost registers first, and stopped before it. *)
(***************************************************************************)

DisposeConnection == connection' = "disposed" /\ CloseChannel

hostRest == <<exchange, loop, model, subject, caller, joins, observers, deliveryVars, published>>

HostUp ==
  /\ host = "waiting" /\ loop = "running" /\ connection = "open"
  /\ host' = "started"
  /\ UNCHANGED <<hostRest, connection, open, queues, faults>>

\* The host disposes of the connection, and will be given it again at every attempt.
HostFails ==
  /\ host = "waiting" /\ loop = "running" /\ MayFail
  /\ DisposeConnection
  /\ UNCHANGED <<hostRest, host>>

HostStop ==
  /\ host = "started"
  /\ host' = "stopped"
  /\ DisposeConnection
  /\ UNCHANGED <<hostRest, faults>>
-----------------------------------------------------------------------------
(***************************************************************************)
(* Callers.                                                                *)
(***************************************************************************)

callerRest == <<exchange, connection, host, loop, model, deliveryVars, published, faults>>

\* Observe: GetOrAdd ...
Observe(o) ==
  /\ caller[o] = "observing"
  /\ subject' = TRUE
  /\ caller' = [caller EXCEPT ![o] = "connecting"]
  /\ UNCHANGED <<callerRest, open, queues, joins, observers>>

\* ... and OnConnected, if _model is set.  The caller subscribes.
Join(o) ==
  /\ caller[o] = "connecting" /\ (model = 0 \/ (open /\ exchange))
  /\ caller' = [caller EXCEPT ![o] = "subscribed"]
  /\ observers' = observers \union {o}
  /\ IF model = 0 THEN UNCHANGED <<queues, joins>> ELSE OnConnected /\ joins' = joins + 1
  /\ UNCHANGED <<callerRest, open, subject>>

\* It throws on a closed channel.  To bind a queue to an exchange that does not exist
\* yet closes the channel under the bus that is being started.
JoinThrows(o) ==
  /\ caller[o] = "connecting" /\ model # 0 /\ ~(open /\ exchange)
  /\ caller' = [caller EXCEPT ![o] = "gone"]
  /\ CloseChannel
  /\ UNCHANGED <<callerRest, subject, joins, observers>>

\* Mutant: the observer stays.
UnsubscribeKeeps(o) ==
  /\ caller[o] = "subscribed"
  /\ caller' = [caller EXCEPT ![o] = "gone"]
  /\ UNCHANGED <<callerRest, open, subject, queues, joins, observers>>

Unsubscribe(o) ==
  /\ caller[o] = "subscribed"
  /\ caller' = [caller EXCEPT ![o] = "gone"]
  /\ observers' = observers \ {o}
  /\ UNCHANGED <<callerRest, open, subject, queues, joins>>

publishRest == <<exchange, connection, host, loop, model, subject, caller, joins,
                 observers, deliveryVars, faults>>

\* Publish on an open channel.  Without the exchange the broker closes the channel.
Publish ==
  /\ published < MaxEvents /\ open
  /\ published' = published + 1
  /\ IF exchange THEN Route(published') /\ UNCHANGED open ELSE CloseChannel
  /\ UNCHANGED publishRest

\* Another process publishes.
PublishElsewhere ==
  /\ published < MaxEvents /\ exchange
  /\ published' = published + 1
  /\ Route(published')
  /\ UNCHANGED <<publishRest, open>>
-----------------------------------------------------------------------------
(***************************************************************************)
(* The dispatcher of a channel.                                            *)
(***************************************************************************)

dispatchRest == <<connectVars, subject, caller, joins, observers, published>>

\* Mutant: what came last is handed on first.
DeliverLast(c) ==
  /\ open /\ dispatch[model] = Idle
  /\ c \in DOMAIN queues /\ queues[c] # <<>>
  /\ queues' = [queues EXCEPT ![c] = Front(@)]
  /\ dispatch' = [dispatch EXCEPT ![model] =
                    Round(Last(queues[c]), "OnNext", observers, observers)]
  /\ UNCHANGED <<dispatchRest, seen, told, faults>>

\* Received, for one consumer: the observers of this moment are called in turn, ...
Deliver(c) ==
  /\ open /\ dispatch[model] = Idle
  /\ c \in DOMAIN queues /\ queues[c] # <<>>
  /\ queues' = [queues EXCEPT ![c] = Tail(@)]
  /\ dispatch' = [dispatch EXCEPT ![model] =
                    Round(Head(queues[c]), "OnNext", observers, observers)]
  /\ UNCHANGED <<dispatchRest, seen, told, faults>>

\* ... or get OnError, when the message has no known type or cannot be deserialized.
DeliverUnreadable(c) ==
  /\ open /\ dispatch[model] = Idle /\ MayFail
  /\ c \in DOMAIN queues /\ queues[c] # <<>>
  /\ queues' = [queues EXCEPT ![c] = Tail(@)]
  /\ dispatch' = [dispatch EXCEPT ![model] =
                    Round(Head(queues[c]), "OnError", observers, observers)]
  /\ UNCHANGED <<dispatchRest, seen, told>>

Called(m, o, call) == o \in dispatch[m].todo /\ dispatch[m].call = call

See(m, o) == seen' = [seen EXCEPT ![o][dispatch[m].event] = @ + 1]

Remaining(m, o) ==
  Round(dispatch[m].event, dispatch[m].call, dispatch[m].todo \ {o}, dispatch[m].audience)

\* OnNext of an observer, ...
OnNext(m, o) ==
  /\ Called(m, o, "OnNext")
  /\ See(m, o)
  /\ dispatch' = [dispatch EXCEPT ![m] = Remaining(m, o)]
  /\ UNCHANGED <<dispatchRest, queues, told, faults>>

\* Mutant: the exception is ignored.
OnNextIgnored(m, o) ==
  /\ Called(m, o, "OnNext") /\ MayFail
  /\ See(m, o)
  /\ dispatch' = [dispatch EXCEPT ![m] = Idle]
  /\ UNCHANGED <<dispatchRest, queues, told>>

\* ... which throws: the rest do not see the event, and all get OnError.
OnNextThrows(m, o) ==
  /\ Called(m, o, "OnNext") /\ MayFail
  /\ See(m, o)
  /\ dispatch' = [dispatch EXCEPT ![m] =
       Round(dispatch[m].event, "OnError", observers, dispatch[m].audience)]
  /\ UNCHANGED <<dispatchRest, queues, told>>

\* OnError, which must not throw.
OnError(m, o) ==
  /\ Called(m, o, "OnError")
  /\ told' = [told EXCEPT ![o] = @ \union {dispatch[m].event}]
  /\ dispatch' = [dispatch EXCEPT ![m] = Remaining(m, o)]
  /\ UNCHANGED <<dispatchRest, queues, seen, faults>>
-----------------------------------------------------------------------------
(***************************************************************************)
(* The bus is stopped.                                                     *)
(***************************************************************************)

\* Dispose of the subject, OnCompleted and Clear, and then of the channel.  What is
\* delivered in between finds all observers or none.
Stop ==
  /\ loop = "running" /\ host \in {"none", "stopped"}
  /\ loop' = "stopped"
  /\ CloseChannel
  /\ observers' = {}
  /\ caller' = [o \in Observers |-> IF o \in observers THEN "gone" ELSE caller[o]]
  /\ UNCHANGED <<exchange, connection, host, model, subject, joins, deliveryVars,
                 published, faults>>
-----------------------------------------------------------------------------
BusStep == OpenModel \/ Declare \/ Attach \/ Finish \/ Fail
HostStep == HostUp \/ HostFails \/ HostStop
CallerStep(o) == Observe(o) \/ Join(o) \/ JoinThrows(o) \/ Unsubscribe(o)
DispatchStep ==
  \/ \E c \in DOMAIN queues : Deliver(c) \/ DeliverUnreadable(c)
  \/ \E m \in 1..model, o \in Observers : OnNext(m, o) \/ OnNextThrows(m, o) \/ OnError(m, o)

Next ==
  \/ BusStep \/ HostStep \/ DispatchStep \/ Stop
  \/ \E o \in Observers : CallerStep(o)
  \/ Publish \/ PublishElsewhere

Spec == Init /\ [][Next]_vars

\* The loop goes on, and so do the dispatchers and the observers that they call.
Fairness ==
  /\ WF_vars(BusStep)
  /\ WF_vars(DispatchStep)

FairSpec == Spec /\ Fairness
-----------------------------------------------------------------------------
(***************************************************************************)
(* Properties.                                                             *)
(***************************************************************************)

\* An observer sees an event once, however often the bus had to connect; it may see it
\* once more for each Observe that found the bus connected, or being connected.
AtMostOnce == \A o \in Observers, e \in Events : seen[o][e] <= 1 + joins

\* On the bus's first channel, and while no Observe has added a consumer, an observer
\* sees the events in the order of publication.
InOrder ==
  [][\A o \in Observers, e \in Events :
       seen'[o][e] > seen[o][e] /\ joins = 0 /\ model = 1 =>
         \A f \in Events : f > e => seen[o][f] = 0]_vars

\* An observer whose subscription was disposed of or cleared may still be called in the
\* round that is under way on a channel, and in no other.
LateByOne ==
  [][\A o \in Observers, m \in Channels :
       caller[o] = "gone" /\ o \notin dispatch[m].todo => o \notin dispatch'[m].todo]_vars

\* When a round ends, each observer that is still subscribed has seen the event or was
\* told of an error, also those after one that threw.
NobodyMissesSilently ==
  [][\A m \in Channels, e \in Events : dispatch[m].event = e /\ dispatch'[m] = Idle =>
       \A o \in dispatch[m].audience \intersect observers :
         seen'[o][e] > 0 \/ e \in told'[o]]_vars

\* A started bus has its channel, which only who disposes of the connection can take
\* away: nothing that is observed or published too early does.  And a subject with
\* observers has a consumer, whether its Observe came before the loop looked for
\* subjects or after it set _model.
RunningIsConnected ==
  loop = "running" =>
    \/ connection = "disposed"
    \/ open /\ (observers # {} => queues # <<>>)

\* The bus is started in the end.
BusStarts == <>(loop = "running")
=============================================================================
