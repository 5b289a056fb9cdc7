----------------------------- MODULE RpcBroker -----------------------------
(***************************************************************************)
(* RabbitMQ as RabbitRPC's remote procedure calls use it: the request      *)
(* queue "RabbitRPC:<service>" (non-durable, not exclusive, auto-deleted,  *)
(* consumed with manual acknowledgement), the clients' response queues     *)
(* (auto-acknowledged) together with basic.return, and the fanout exchange *)
(* "RabbitRPC" that carries cancellations to one exclusive queue per host. *)
(*                                                                         *)
(* The broker is not part of the repository; this module holds its state   *)
(* and what the calls made by RabbitServiceClient and RabbitServiceHost do *)
(* to it.  One service is modelled: the queues of different services share *)
(* nothing but the hosts' threads.  The request queue is a set, not a      *)
(* sequence: competing consumers with a prefetch window and requeued       *)
(* messages give the code no order to rely on.                             *)
(***************************************************************************)
EXTENDS Naturals, FiniteSets

CONSTANTS
  Calls,          \* correlation ids, one per invocation of a proxy method
  Hosts,          \* replicas of RabbitServiceHost
  Prefetch,       \* BasicQos(0, 16, false); also DispatchConcurrency
  MaxDeliveries   \* bound: deliveries of one request the model follows

Nowhere == "nowhere"

ASSUME BrokerAssumption ==
  /\ Nowhere \notin Hosts
  /\ Prefetch \in Nat \ {0}
  /\ MaxDeliveries \in Nat \ {0}

\* A delivery is a request together with how many times it has been handed out.
Deliveries == Calls \X (1..MaxDeliveries)
CallOf(d) == d[1]

\* What a message to the client can say.  "unroutable" is a basic.return.
ReplyKinds == {"value", "null", "exception", "canceled"}
MessageKinds == ReplyKinds \union {"unroutable"}
Messages == [call: Calls, from: 0..MaxDeliveries, kind: MessageKinds]

VARIABLES
  queued,      \* requests waiting in the service's queue
  delivered,   \* delivered[c]: how often request c has been handed to a host
  site,        \* site[d]: the host delivery d went to, or nowhere
  tag,         \* tag[d]: what became of the delivery tag of d
  inbound,     \* responses and returned requests on their way to the clients
  cancels,     \* cancels[h]: cancellations waiting in host h's own queue
  link         \* link[h]: state of host h's process and its channels

brokerVars == <<queued, delivered, site, tag, inbound, cancels, link>>

TagStates == {"unsent", "unacked", "acked", "requeued", "dropped"}

\* "faulted": the broker closed the invoke channel for a protocol error;
\* "stopped": StopAsync disposed the channels and the connection.
LinkStates == {"down", "open", "faulted", "stopped"}

BrokerTypeOK ==
  /\ queued \subseteq Calls
  /\ delivered \in [Calls -> 0..MaxDeliveries]
  /\ site \in [Deliveries -> Hosts \union {Nowhere}]
  /\ tag \in [Deliveries -> TagStates]
  /\ inbound \subseteq Messages
  /\ cancels \in [Hosts -> SUBSET Calls]
  /\ link \in [Hosts -> LinkStates]

BrokerInit ==
  /\ queued = {}
  /\ delivered = [c \in Calls |-> 0]
  /\ site = [d \in Deliveries |-> Nowhere]
  /\ tag = [d \in Deliveries |-> "unsent"]
  /\ inbound = {}
  /\ cancels = [h \in Hosts |-> {}]
  /\ link = [h \in Hosts |-> "down"]
-----------------------------------------------------------------------------
\* The service queue exists as long as it has a consumer (autoDelete).
QueueExists == \E h \in Hosts : link[h] = "open"

Unacked(h) == {d \in Deliveries : site[d] = h /\ tag[d] = "unacked"}

\* A mandatory publish to the default exchange is queued or returned.
PublishRequest(c) ==
  /\ queued' = IF QueueExists THEN queued \union {c} ELSE queued
  /\ inbound' = IF QueueExists THEN inbound
                ELSE inbound \union {[call |-> c, from |-> 0, kind |-> "unroutable"]}
  /\ UNCHANGED <<delivered, site, tag, cancels, link>>

\* A publish to the fanout exchange reaches every host that still listens.
BroadcastCancel(c) ==
  /\ cancels' = [h \in Hosts |->
                  IF link[h] \in {"open", "faulted"} THEN cancels[h] \union {c}
                  ELSE cancels[h]]
  /\ UNCHANGED <<queued, delivered, site, tag, inbound, link>>

\* Host h receives request c, which is now unacknowledged under a new tag.
HandOut(h, c) ==
  LET d == <<c, delivered[c] + 1>> IN
  /\ link[h] = "open"
  /\ c \in queued
  /\ delivered[c] < MaxDeliveries
  /\ Cardinality(Unacked(h)) < Prefetch
  /\ queued' = queued \ {c}
  /\ delivered' = [delivered EXCEPT ![c] = @ + 1]
  /\ site' = [site EXCEPT ![d] = h]
  /\ tag' = [tag EXCEPT ![d] = "unacked"]
  /\ UNCHANGED <<inbound, cancels, link>>

PublishReply(d, kind) ==
  /\ inbound' = inbound \union {[call |-> d[1], from |-> d[2], kind |-> kind]}
  /\ UNCHANGED <<queued, delivered, site, tag, cancels, link>>

\* Host h's consumer disappears and link[h] becomes l: unacknowledged requests
\* return to the queue, unless h held its last consumer and the queue goes too.
LoseConsumer(h, l) ==
  /\ link' = [link EXCEPT ![h] = l]
  /\ tag' = [d \in Deliveries |-> IF d \in Unacked(h) THEN "requeued" ELSE tag[d]]
  /\ queued' = IF \E g \in Hosts : link'[g] = "open"
               THEN queued \union {CallOf(d) : d \in Unacked(h)}
               ELSE {}
  /\ UNCHANGED <<delivered, site, inbound>>

\* BasicAck / BasicNack of a tag that is no longer outstanding is a protocol
\* error, for which the broker closes the channel.
Settle(d, state) ==
  IF tag[d] = "unacked"
  THEN /\ tag' = [tag EXCEPT ![d] = state]
       /\ queued' = IF state = "requeued" THEN queued \union {CallOf(d)} ELSE queued
       /\ UNCHANGED <<delivered, site, inbound, cancels, link>>
  ELSE LoseConsumer(site[d], "faulted") /\ UNCHANGED cancels
=============================================================================
