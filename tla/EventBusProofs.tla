--------------------------- MODULE EventBusProofs ---------------------------
(***************************************************************************)
(* Proofs about the event bus, for every number of observers, events and   *)
(* faults.                                                                 *)
(***************************************************************************)
EXTENDS EventBus, FiniteSetTheorems, SequenceTheorems, TLAPS

\* Past the declaration of the exchange.
Up == {"attaching", "attached", "running"}

BusTypes ==
  /\ exchange \in BOOLEAN /\ open \in BOOLEAN /\ subject \in BOOLEAN
  /\ model \in Nat /\ published \in Nat
  /\ queues \in Seq(Seq(Events))
  /\ caller \in [Observers -> {"observing", "connecting", "subscribed", "gone"}]
  /\ observers \subseteq Observers

\* From its declaration on nobody can close the channel by using the exchange.
KeepsChannel == loop \in Up => exchange /\ (open \/ connection = "disposed")

\* Who subscribes has made the subject known, and who does so when the loop no longer
\* looks for subjects finds _model set.
SubjectKnown ==
  /\ \A o \in Observers : o \in observers <=> caller[o] = "subscribed"
  /\ \A o \in Observers : caller[o] \in {"connecting", "subscribed"} => subject
  /\ loop \in Up \union {"declaring"} => model > 0
  /\ loop \in {"attached", "running"} /\ open /\ observers # {} => Len(queues) > 0

BusInv == BusTypes /\ KeepsChannel /\ SubjectKnown

-----------------------------------------------------------------------------
LEMMA BusInvInit == Init => BusInv
<1> SUFFICES ASSUME Init PROVE BusInv
  OBVIOUS
<1>1. <<>> \in Seq(Seq(Events))
  BY EmptySeq
<1> QED
  BY <1>1 DEF Init, BusInv, BusTypes, KeepsChannel, SubjectKnown, Up

LEMMA ConnectKeeps == BusInv /\ (BusStep \/ HostStep \/ Stop) => BusInv'
<1> SUFFICES ASSUME BusInv, BusStep \/ HostStep \/ Stop PROVE BusInv'
  OBVIOUS
<1> USE DEF BusInv, BusTypes, KeepsChannel, SubjectKnown, Up
<1>0. <<>> \in Seq(Seq(Events))
  BY EmptySeq
<1>1. CASE OpenModel
  BY <1>1 DEF OpenModel
<1>2. CASE Declare
  BY <1>2 DEF Declare
<1>3. CASE Attach
  <2>1. CASE subject
    <3>1. queues' = Append(queues, <<>>)
      BY <1>3, <2>1 DEF Attach, OnConnected
    <3>2. queues' \in Seq(Seq(Events)) /\ Len(queues') > 0
      BY <1>0, <3>1, AppendProperties, LenProperties
    <3> QED
      BY <1>3, <3>2 DEF Attach
  <2>2. CASE ~subject
    <3>1. observers = {}
      BY <2>2
    <3> QED
      BY <1>3, <2>2, <3>1 DEF Attach
  <2> QED
    BY <2>1, <2>2
<1>4. CASE Finish
  BY <1>4 DEF Finish
<1>5. CASE Fail
  BY <1>0, <1>5 DEF Fail, CloseChannel
<1>6. CASE HostStep
  BY <1>0, <1>6 DEF HostStep, HostUp, HostFails, HostStop, DisposeConnection,
                    CloseChannel, hostRest
<1>7. CASE Stop
  BY <1>0, <1>7 DEF Stop, CloseChannel
<1> QED
  BY <1>1, <1>2, <1>3, <1>4, <1>5, <1>6, <1>7 DEF BusStep

LEMMA CallerKeeps == ASSUME BusInv, NEW o \in Observers, CallerStep(o) PROVE BusInv'
<1> USE DEF BusInv, BusTypes, KeepsChannel, SubjectKnown, Up
<1>0. <<>> \in Seq(Seq(Events))
  BY EmptySeq
<1>1. CASE Observe(o)
  BY <1>1 DEF Observe, callerRest, deliveryVars
<1>2. CASE Join(o)
  <2>1. CASE model = 0
    BY <1>2, <2>1 DEF Join, callerRest, deliveryVars
  <2>2. CASE model # 0
    <3>1. queues' = Append(queues, <<>>)
      BY <1>2, <2>2 DEF Join, OnConnected
    <3>2. queues' \in Seq(Seq(Events)) /\ Len(queues') > 0
      BY <1>0, <3>1, AppendProperties, LenProperties
    <3> QED
      BY <1>2, <3>2 DEF Join, callerRest, deliveryVars
  <2> QED
    BY <2>1, <2>2
<1>3. CASE JoinThrows(o)
  BY <1>0, <1>3 DEF JoinThrows, callerRest, deliveryVars, CloseChannel
<1>4. CASE Unsubscribe(o)
  BY <1>4 DEF Unsubscribe, callerRest, deliveryVars
<1> QED
  BY <1>1, <1>2, <1>3, <1>4 DEF CallerStep

\* Every queue gets the event, and there are as many queues as before.
LEMMA RouteKeeps ==
  ASSUME NEW e \in Events, queues \in Seq(Seq(Events)), Route(e)
  PROVE  queues' \in Seq(Seq(Events)) /\ Len(queues') = Len(queues)
<1>1. queues' = [c \in 1..Len(queues) |-> Append(queues[c], e)]
  BY DEF Route
<1>2. \A c \in 1..Len(queues) : Append(queues[c], e) \in Seq(Events)
  OBVIOUS
<1>3. Len(queues) \in Nat
  OBVIOUS
<1> QED
  BY <1>1, <1>2, <1>3

LEMMA PublishKeeps == BusInv /\ (Publish \/ PublishElsewhere) => BusInv'
<1> SUFFICES ASSUME BusInv, Publish \/ PublishElsewhere PROVE BusInv'
  OBVIOUS
<1> USE DEF BusInv, BusTypes, KeepsChannel, SubjectKnown, Up
<1>0. <<>> \in Seq(Seq(Events))
  BY EmptySeq
<1>1. published' \in Nat /\ published' \in Events
  BY BusAssumption DEF Publish, PublishElsewhere, Events
<1>2. CASE Route(published') /\ UNCHANGED open
  <2>1. queues' \in Seq(Seq(Events)) /\ Len(queues') = Len(queues)
    BY <1>1, <1>2, RouteKeeps
  <2> QED
    BY <1>1, <1>2, <2>1 DEF Publish, PublishElsewhere, publishRest
<1>3. CASE ~exchange /\ CloseChannel
  BY <1>0, <1>1, <1>3 DEF Publish, PublishElsewhere, publishRest, CloseChannel
<1> QED
  BY <1>2, <1>3 DEF Publish, PublishElsewhere

\* A channel's dispatcher takes messages from the queues and leaves the rest alone.
LEMMA DispatchKeeps == BusInv /\ DispatchStep => BusInv'
<1> SUFFICES ASSUME BusInv, DispatchStep PROVE BusInv'
  OBVIOUS
<1> USE DEF BusInv, BusTypes, KeepsChannel, SubjectKnown, Up
<1>1. UNCHANGED dispatchRest
  BY DEF DispatchStep, Deliver, DeliverUnreadable, OnNext, OnNextThrows, OnError
<1>2. queues' \in Seq(Seq(Events)) /\ Len(queues') = Len(queues)
  <2>1. CASE UNCHANGED queues
    BY <2>1
  <2>2. ASSUME NEW c \in DOMAIN queues, queues[c] # <<>>,
               queues' = [queues EXCEPT ![c] = Tail(@)]
        PROVE  queues' \in Seq(Seq(Events)) /\ Len(queues') = Len(queues)
    <3>1. c \in 1..Len(queues) /\ queues[c] \in Seq(Events)
      BY <2>2
    <3>2. Tail(queues[c]) \in Seq(Events)
      BY <2>2, <3>1
    <3> QED
      BY <2>2, <3>1, <3>2, ExceptSeq
  <2> QED
    BY <2>1, <2>2 DEF DispatchStep, Deliver, DeliverUnreadable, OnNext, OnNextThrows, OnError
<1> QED
  BY <1>1, <1>2 DEF dispatchRest, connectVars

LEMMA BusInvNext == BusInv /\ [Next]_vars => BusInv'
<1> SUFFICES ASSUME BusInv, [Next]_vars PROVE BusInv'
  OBVIOUS
<1>1. CASE UNCHANGED vars
  BY <1>1 DEF vars, connectVars, BusInv, BusTypes, KeepsChannel, SubjectKnown
<1> QED
  BY <1>1, ConnectKeeps, CallerKeeps, PublishKeeps, DispatchKeeps DEF Next

LEMMA BusInvariant == Spec => []BusInv
<1> QED
  BY BusInvInit, BusInvNext, PTL DEF Spec

\* Whatever is observed or published too early, and whichever steps fail, a bus that
\* has started has its channel until somebody disposes of the connection; and whenever
\* an Observe comes, its subject then has a consumer.
THEOREM BusKeepsItsChannel == Spec => []RunningIsConnected
<1>1. BusInv => RunningIsConnected
  <2> SUFFICES ASSUME BusInv, loop = "running", connection # "disposed"
               PROVE  open /\ (observers # {} => queues # <<>>)
    BY DEF RunningIsConnected
  <2>1. open
    BY DEF BusInv, KeepsChannel, Up
  <2>2. observers # {} => Len(queues) > 0
    BY <2>1 DEF BusInv, SubjectKnown
  <2>3. Len(<<>>) = 0
    BY EmptySeq
  <2> QED
    BY <2>1, <2>2, <2>3
<1> QED
  BY <1>1, BusInvariant, PTL

-----------------------------------------------------------------------------
\* The rounds in which a channel's dispatcher calls the observers.

Rounds == [event: Events \union {NoEvent}, call: {"OnNext", "OnError"},
           todo: SUBSET Observers, audience: SUBSET Observers]

Served(m, o) == seen[o][dispatch[m].event] > 0 \/ dispatch[m].event \in told[o]

\* A round's audience had subscribed, and who has not left since is to be called yet or
\* has been.
RoundInv ==
  /\ dispatch \in [Channels -> Rounds]
  /\ seen \in [Observers -> [Events -> Nat]]
  /\ told = [o \in Observers |-> told[o]]
  /\ \A m \in Channels :
       /\ dispatch[m] = Idle \/ dispatch[m].event \in Events
       /\ \A o \in dispatch[m].audience : caller[o] \in {"subscribed", "gone"}
       /\ \A o \in dispatch[m].audience \intersect observers :
            o \in dispatch[m].todo \/ Served(m, o)

\* What a step does to the round on channel m: it stays, it begins, it goes on without
\* the observer that was served, or it begins again with all observers of that moment.
GoesOn(m) ==
  \/ dispatch'[m] = dispatch[m]
  \/ /\ dispatch[m] = Idle
     /\ dispatch'[m].todo = observers /\ dispatch'[m].audience \subseteq observers
  \/ /\ \/ dispatch'[m].todo = observers
        \/ \E p \in dispatch[m].todo :
             /\ dispatch'[m].todo = dispatch[m].todo \ {p}
             /\ seen'[p][dispatch[m].event] > 0 \/ dispatch[m].event \in told'[p]
     /\ \/ dispatch'[m] = Idle
        \/ /\ dispatch'[m].event = dispatch[m].event
           /\ dispatch'[m].audience = dispatch[m].audience

\* What has been seen or told stays so.
Grows ==
  \A o \in Observers :
    told[o] \subseteq told'[o] /\ \A e \in Events : seen'[o][e] >= seen[o][e]

\* One more call of an observer's OnNext.
LEMMA SeenGrows ==
  ASSUME seen \in [Observers -> [Events -> Nat]], NEW p \in Observers, NEW e,
         seen' = [seen EXCEPT ![p][e] = @ + 1]
  PROVE  /\ seen' \in [Observers -> [Events -> Nat]]
         /\ \A o \in Observers, f \in Events : seen'[o][f] >= seen[o][f]
         /\ e \in Events => seen'[p][e] > 0
<1>1. CASE e \in Events
  <2>1. seen[p][e] + 1 \in Nat
    BY <1>1
  <2>2. /\ seen'[p][e] = seen[p][e] + 1
        /\ \A o \in Observers, f \in Events : o # p \/ f # e => seen'[o][f] = seen[o][f]
    BY <1>1
  <2> QED
    BY <1>1, <2>1, <2>2
<1>2. CASE e \notin Events
  <2>1. seen' = seen
    <3>1. seen[p] \in [Events -> Nat] /\ [seen[p] EXCEPT ![e] = seen[p][e] + 1] = seen[p]
      BY <1>2
    <3>2. seen' = [seen EXCEPT ![p] = [seen[p] EXCEPT ![e] = seen[p][e] + 1]]
      OBVIOUS
    <3> QED
      BY <3>1, <3>2
  <2>2. \A o \in Observers, f \in Events : seen[o][f] \in Nat
    OBVIOUS
  <2>3. \A o \in Observers, f \in Events : seen'[o][f] >= seen[o][f]
    BY <2>1, <2>2
  <2> QED
    BY <1>2, <2>1, <2>3
<1> QED
  BY <1>1, <1>2

\* A dispatcher's step, of any channel n.
LEMMA DispatchGoesOn ==
  ASSUME BusInv, RoundInv, DispatchStep
  PROVE  /\ dispatch' \in [Channels -> Rounds]
         /\ seen' \in [Observers -> [Events -> Nat]]
         /\ told' = [o \in Observers |-> told'[o]]
         /\ Grows
         /\ \A m \in Channels :
              GoesOn(m) /\ (dispatch'[m] = Idle \/ dispatch'[m].event \in Events)
<1> USE DEF RoundInv
<1>0. observers \in SUBSET Observers
  BY DEF BusInv, BusTypes
<1>1. ASSUME NEW c \in DOMAIN queues, Deliver(c) \/ DeliverUnreadable(c)
      PROVE  /\ dispatch' \in [Channels -> Rounds]
             /\ UNCHANGED <<seen, told>>
             /\ \A m \in Channels :
                  GoesOn(m) /\ (dispatch'[m] = Idle \/ dispatch'[m].event \in Events)
  <2>1. PICK call \in {"OnNext", "OnError"} :
          dispatch' = [dispatch EXCEPT ![model] =
                         Round(Head(queues[c]), call, observers, observers)]
    BY <1>1 DEF Deliver, DeliverUnreadable
  <2>2. Head(queues[c]) \in Events /\ dispatch[model] = Idle /\ UNCHANGED <<seen, told>>
    <3>1. queues[c] \in Seq(Events) /\ queues[c] # <<>>
      BY <1>1 DEF BusInv, BusTypes, Deliver, DeliverUnreadable
    <3>2. Head(queues[c]) \in Events
      BY <3>1
    <3> QED
      BY <1>1, <3>2 DEF Deliver, DeliverUnreadable
  <2> DEFINE r == Round(Head(queues[c]), call, observers, observers)
  <2>3. /\ r \in Rounds /\ r.todo = observers /\ r.audience \subseteq observers
        /\ r = Idle \/ r.event \in Events
    BY <1>0, <2>2 DEF Round, Idle, Rounds
  <2> HIDE DEF r
  <2>4. dispatch' = [dispatch EXCEPT ![model] = r]
    BY <2>1 DEF r
  <2> QED
    BY <2>2, <2>3, <2>4 DEF GoesOn
<1>2. ASSUME NEW n \in 1..model, NEW p \in Observers, OnNext(n, p) \/ OnError(n, p)
      PROVE  /\ dispatch' \in [Channels -> Rounds]
             /\ seen' \in [Observers -> [Events -> Nat]]
             /\ told' = [o \in Observers |-> told'[o]]
             /\ Grows
             /\ \A m \in Channels :
                  GoesOn(m) /\ (dispatch'[m] = Idle \/ dispatch'[m].event \in Events)
  <2>1. p \in dispatch[n].todo /\ dispatch' = [dispatch EXCEPT ![n] = Remaining(n, p)]
    BY <1>2 DEF OnNext, OnError, Called
  <2>2. /\ seen' \in [Observers -> [Events -> Nat]]
        /\ told' = [o \in Observers |-> told'[o]]
        /\ Grows
    <3>1. CASE OnNext(n, p)
      <4>1. told' = told /\ seen' = [seen EXCEPT ![p][dispatch[n].event] = @ + 1]
        BY <3>1 DEF OnNext, See
      <4>2. /\ seen' \in [Observers -> [Events -> Nat]]
            /\ \A o \in Observers, f \in Events : seen'[o][f] >= seen[o][f]
        BY <4>1, SeenGrows
      <4> QED
        BY <4>1, <4>2 DEF Grows
    <3>2. CASE OnError(n, p)
      <4>1. seen' = seen /\ told' = [told EXCEPT ![p] = @ \union {dispatch[n].event}]
        BY <3>2 DEF OnError
      <4>2. told' = [o \in Observers |-> told'[o]]
        BY <4>1, Zenon
      <4>3. \A o \in Observers : told[o] \subseteq told'[o]
        BY <4>1
      <4>4. \A o \in Observers, e \in Events : seen[o][e] \in Nat
        OBVIOUS
      <4> QED
        BY <4>1, <4>2, <4>3, <4>4 DEF Grows
    <3> QED
      BY <1>2, <3>1, <3>2
  <2>3. CASE n \notin Channels
    <3>1. dispatch' = dispatch
      BY <2>1, <2>3
    <3> QED
      BY <2>2, <3>1 DEF GoesOn
  <2>4. CASE n \in Channels
    <3>1. dispatch[n].event \in Events
      BY <2>1, <2>4 DEF Idle, Round
    <3>2. seen'[p][dispatch[n].event] > 0 \/ dispatch[n].event \in told'[p]
      BY <1>2, <3>1 DEF OnNext, OnError, See
    <3> DEFINE r == Remaining(n, p)
    <3>3. dispatch[n] \in Rounds
      BY <2>4
    <3>4. /\ dispatch[n].call \in {"OnNext", "OnError"}
          /\ dispatch[n].todo \ {p} \subseteq Observers
          /\ dispatch[n].audience \subseteq Observers
          /\ dispatch[n].event \in Events \union {NoEvent}
      BY <3>3 DEF Rounds
    <3>5. /\ r \in Rounds /\ r.todo = dispatch[n].todo \ {p}
          /\ \/ r = Idle
             \/ r.event = dispatch[n].event /\ r.audience = dispatch[n].audience
          /\ r = Idle \/ r.event \in Events
      BY <3>1, <3>4 DEF Remaining, Round, Idle, Rounds
    <3> HIDE DEF r
    <3>6. dispatch' = [dispatch EXCEPT ![n] = r]
      BY <2>1 DEF r
    <3>7. dispatch' \in [Channels -> Rounds]
      BY <3>5, <3>6
    <3>8. dispatch'[n] = r /\ \A m \in Channels : m # n => dispatch'[m] = dispatch[m]
      BY <2>4, <3>6
    <3>9. GoesOn(n)
      BY <2>1, <3>2, <3>5, <3>8 DEF GoesOn
    <3>10. ASSUME NEW m \in Channels
           PROVE  GoesOn(m) /\ (dispatch'[m] = Idle \/ dispatch'[m].event \in Events)
      BY <3>5, <3>8, <3>9 DEF GoesOn
    <3> QED
      BY <2>2, <3>7, <3>10
  <2> QED
    BY <2>3, <2>4
<1>3. ASSUME NEW n \in 1..model, NEW p \in Observers, OnNextThrows(n, p)
      PROVE  /\ dispatch' \in [Channels -> Rounds]
             /\ seen' \in [Observers -> [Events -> Nat]]
             /\ told' = [o \in Observers |-> told'[o]]
             /\ Grows
             /\ \A m \in Channels :
                  GoesOn(m) /\ (dispatch'[m] = Idle \/ dispatch'[m].event \in Events)
  <2> DEFINE r == Round(dispatch[n].event, "OnError", observers, dispatch[n].audience)
  <2>1. p \in dispatch[n].todo /\ dispatch' = [dispatch EXCEPT ![n] = r]
    BY <1>3 DEF OnNextThrows, Called
  <2>2. /\ seen' \in [Observers -> [Events -> Nat]]
        /\ told' = told
        /\ Grows
    BY <1>3, SeenGrows DEF OnNextThrows, See, Grows
  <2>3. CASE n \notin Channels
    <3>1. dispatch' = dispatch
      BY <2>1, <2>3
    <3> QED
      BY <2>2, <3>1 DEF GoesOn
  <2>4. CASE n \in Channels
    <3>1. /\ dispatch[n].event \in Events /\ dispatch[n].audience \subseteq Observers
          /\ dispatch[n].event \in Events \union {NoEvent} /\ observers \subseteq Observers
      BY <1>0, <2>1, <2>4 DEF Rounds, Idle, Round
    <3>2. /\ r \in Rounds /\ r.todo = observers
          /\ \/ r = Idle
             \/ r.event = dispatch[n].event /\ r.audience = dispatch[n].audience
          /\ r = Idle \/ r.event \in Events
      BY <1>0, <3>1 DEF Round, Idle, Rounds
    <3>3. dispatch'[n] = r /\ \A m \in Channels : m # n => dispatch'[m] = dispatch[m]
      BY <2>1, <2>4
    <3>4. dispatch' \in [Channels -> Rounds]
      BY <2>1, <3>2
    <3> HIDE DEF r
    <3>5. ASSUME NEW m \in Channels
          PROVE  GoesOn(m) /\ (dispatch'[m] = Idle \/ dispatch'[m].event \in Events)
      BY <3>2, <3>3 DEF GoesOn
    <3> QED
      BY <2>2, <3>4, <3>5
  <2> QED
    BY <2>3, <2>4
<1>4. CASE \E c \in DOMAIN queues : Deliver(c) \/ DeliverUnreadable(c)
  <2>1. /\ dispatch' \in [Channels -> Rounds]
        /\ UNCHANGED <<seen, told>>
        /\ \A m \in Channels :
             GoesOn(m) /\ (dispatch'[m] = Idle \/ dispatch'[m].event \in Events)
    BY <1>1, <1>4
  <2> QED
    BY <2>1 DEF Grows
<1> QED
  BY <1>2, <1>3, <1>4 DEF DispatchStep

\* Any other step leaves the rounds alone, and who was told stays subscribed or goes.
LEMMA OthersLeaveRounds ==
  ASSUME BusInv, RoundInv, [Next]_vars, ~DispatchStep
  PROVE  /\ UNCHANGED deliveryVars
         /\ \A o \in Observers :
              /\ caller[o] \in {"subscribed", "gone"} => caller'[o] \in {"subscribed", "gone"}
              /\ o \in observers' =>
                   o \in observers \/ caller[o] \notin {"subscribed", "gone"}
<1> USE DEF BusInv, BusTypes, deliveryVars
<1>1. CASE BusStep \/ HostStep
  BY <1>1 DEF BusStep, HostStep, OpenModel, Declare, Attach, Finish, Fail, HostUp,
              HostFails, HostStop, hostRest
<1>2. CASE Stop
  BY <1>2 DEF Stop, SubjectKnown
<1>3. ASSUME NEW o \in Observers, CallerStep(o)
      PROVE  /\ UNCHANGED deliveryVars
             /\ \A p \in Observers :
                  /\ caller[p] \in {"subscribed", "gone"} =>
                       caller'[p] \in {"subscribed", "gone"}
                  /\ p \in observers' =>
                       p \in observers \/ caller[p] \notin {"subscribed", "gone"}
  BY <1>3 DEF CallerStep, Observe, Join, JoinThrows, Unsubscribe, callerRest
<1>4. CASE Publish \/ PublishElsewhere \/ UNCHANGED vars
  BY <1>4 DEF Publish, PublishElsewhere, publishRest, vars
<1> QED
  BY <1>1, <1>2, <1>3, <1>4 DEF Next

LEMMA RoundsGoOn ==
  ASSUME BusInv, RoundInv, [Next]_vars
  PROVE  /\ RoundInv'
         /\ \A m \in Channels : GoesOn(m)
<1>1. CASE DispatchStep
  <2>1. /\ dispatch' \in [Channels -> Rounds]
        /\ seen' \in [Observers -> [Events -> Nat]]
        /\ told' = [o \in Observers |-> told'[o]]
        /\ Grows
        /\ \A m \in Channels :
             GoesOn(m) /\ (dispatch'[m] = Idle \/ dispatch'[m].event \in Events)
    BY <1>1, DispatchGoesOn
  <2>2. UNCHANGED <<caller, observers>>
    BY <1>1 DEF DispatchStep, Deliver, DeliverUnreadable, OnNext, OnNextThrows, OnError,
                dispatchRest
  <2>3. \A o \in Observers : o \in observers => caller[o] = "subscribed"
    BY DEF BusInv, SubjectKnown
  <2>4. observers \subseteq Observers
    BY DEF BusInv, BusTypes
  <2>5. ASSUME NEW m \in Channels
        PROVE  /\ \A o \in dispatch'[m].audience : caller[o] \in {"subscribed", "gone"}
               /\ \A o \in dispatch'[m].audience \intersect observers :
                    \/ o \in dispatch'[m].todo
                    \/ seen'[o][dispatch'[m].event] > 0
                    \/ dispatch'[m].event \in told'[o]
    <3>1. dispatch[m] \in Rounds /\ dispatch'[m] \in Rounds
      BY <2>1 DEF RoundInv
    <3>2. Idle.audience = {} /\ Idle.todo = {}
      BY DEF Idle, Round
    <3>3. ASSUME NEW o \in dispatch[m].audience \intersect observers
          PROVE  \/ o \in dispatch[m].todo
                 \/ seen'[o][dispatch[m].event] > 0 \/ dispatch[m].event \in told'[o]
      <4>1. o \in Observers
        BY <2>4
      <4>2. CASE seen[o][dispatch[m].event] > 0 /\ dispatch[m].event \in Events
        BY <2>1, <4>1, <4>2 DEF Grows, RoundInv
      <4>3. CASE dispatch[m].event \in told[o]
        BY <2>1, <4>1, <4>3 DEF Grows
      <4>4. dispatch[m].event \in Events
        BY <3>2 DEF RoundInv
      <4> QED
        BY <4>2, <4>3, <4>4 DEF RoundInv, Served
    <3>4. CASE dispatch'[m] = dispatch[m]
      BY <3>3, <3>4 DEF RoundInv
    <3>5. CASE dispatch'[m].todo = observers /\ dispatch'[m].audience \subseteq observers
      BY <2>3, <2>4, <3>5
    <3>6. CASE dispatch'[m] = Idle
      BY <3>2, <3>6
    <3>7. CASE /\ dispatch'[m].event = dispatch[m].event
               /\ dispatch'[m].audience = dispatch[m].audience
               /\ \/ dispatch'[m].todo = observers
                  \/ \E p \in dispatch[m].todo :
                       /\ dispatch'[m].todo = dispatch[m].todo \ {p}
                       /\ \/ seen'[p][dispatch[m].event] > 0
                          \/ dispatch[m].event \in told'[p]
      BY <3>3, <3>7 DEF RoundInv
    <3> QED
      BY <2>1, <3>4, <3>5, <3>6, <3>7 DEF GoesOn
  <2> QED
    BY <2>1, <2>2, <2>5 DEF RoundInv, Served
<1>2. CASE ~DispatchStep
  <2>1. /\ UNCHANGED <<dispatch, seen, told>>
        /\ \A o \in Observers :
             /\ caller[o] \in {"subscribed", "gone"} => caller'[o] \in {"subscribed", "gone"}
             /\ o \in observers' =>
                  o \in observers \/ caller[o] \notin {"subscribed", "gone"}
    BY <1>2, OthersLeaveRounds DEF deliveryVars
  <2>2. \A m \in Channels : dispatch[m].audience \subseteq Observers
    BY DEF RoundInv, Rounds
  <2> QED
    BY <2>1, <2>2 DEF RoundInv, Served, GoesOn
<1> QED
  BY <1>1, <1>2

LEMMA RoundInvariant == Spec => []RoundInv
<1>1. Init => RoundInv
  BY DEF Init, RoundInv, Rounds, Idle, Round
<1> QED
  BY <1>1, BusInvariant, RoundsGoOn, PTL DEF Spec

\* Whatever happens while an event is handed round, who has unsubscribed is called no
\* more, but for the round that is under way.
THEOREM LeavingIsLateByOne == Spec => LateByOne
<1>1. BusInv /\ RoundInv /\ [Next]_vars =>
        [\A o \in Observers, m \in Channels :
           caller[o] = "gone" /\ o \notin dispatch[m].todo => o \notin dispatch'[m].todo]_vars
  <2> SUFFICES ASSUME BusInv, RoundInv, [Next]_vars,
                      NEW o \in Observers, NEW m \in Channels,
                      caller[o] = "gone", o \notin dispatch[m].todo
               PROVE  o \notin dispatch'[m].todo
    OBVIOUS
  <2>1. o \notin observers
    BY DEF BusInv, SubjectKnown
  <2> QED
    BY <2>1, RoundsGoOn DEF GoesOn
<1> QED
  BY <1>1, BusInvariant, RoundInvariant, PTL DEF Spec, LateByOne

\* However many observers throw and whoever comes and goes, no round ends before every
\* observer that stays has seen its event or was told of an error.
THEOREM RoundsReachAll == Spec => NobodyMissesSilently
<1>1. BusInv /\ RoundInv /\ [Next]_vars =>
        [\A m \in Channels, e \in Events : dispatch[m].event = e /\ dispatch'[m] = Idle =>
           \A o \in dispatch[m].audience \intersect observers :
             seen'[o][e] > 0 \/ e \in told'[o]]_vars
  <2> SUFFICES ASSUME BusInv, RoundInv, [Next]_vars,
                      NEW m \in Channels, NEW e \in Events,
                      dispatch[m].event = e, dispatch'[m] = Idle,
                      NEW o \in dispatch[m].audience \intersect observers
               PROVE  seen'[o][e] > 0 \/ e \in told'[o]
    OBVIOUS
  <2>1. Idle.event = NoEvent /\ Idle.todo = {} /\ Idle.audience = {}
    BY DEF Idle, Round
  <2>2. o \in Observers /\ e # NoEvent
    BY DEF BusInv, BusTypes, Events, NoEvent
  <2>3. Grows
    BY DispatchGoesOn, OthersLeaveRounds DEF Grows, deliveryVars, RoundInv
  <2>4. CASE seen[o][e] > 0 \/ e \in told[o]
    BY <2>2, <2>3, <2>4, RoundsGoOn DEF Grows, RoundInv
  <2>5. CASE o \in dispatch[m].todo
    BY <2>1, <2>2, <2>5, RoundsGoOn DEF GoesOn
  <2> QED
    BY <2>4, <2>5 DEF RoundInv, Served
<1> QED
  BY <1>1, BusInvariant, RoundInvariant, PTL DEF Spec, NobodyMissesSilently

-----------------------------------------------------------------------------
\* Type correctness, and with it that the bounds of the model are bounds: a new channel
\* follows a failed step, or an Observe or Publish that came too early.

Joined == {o \in Observers : caller[o] \in {"subscribed", "gone"}}
Gone == {o \in Observers : caller[o] = "gone"}

\* Past the point where subjects that exist are connected.
Attached == {"attached", "running", "stopped"}

\* The consumer that the loop adds, and the channel that nothing has failed on.
LoopsConsumer == IF loop \in Attached THEN 1 ELSE 0
LoopsChannel == IF loop = "connecting" \/ (loop = "declaring" /\ ~open) THEN 0 ELSE 1

Counted ==
  /\ published \in 0..MaxEvents /\ faults \in 0..MaxFaults
  /\ open => model > 0
  /\ ~open => queues = <<>>
  /\ joins \in Nat /\ joins <= Cardinality(Joined)
  /\ Len(queues) <= joins + LoopsConsumer
  /\ model <= faults + published + Cardinality(Gone) + LoopsChannel

\* The host is started after the bus, and stopped before it.
StatesKnown ==
  /\ connection \in {"none", "open", "disposed"}
  /\ host \in {"none", "waiting", "started", "stopped"}
  /\ loop \in {"connecting", "declaring", "attaching", "attached", "running", "stopped"}
  /\ host = "started" => loop = "running"

LEMMA FewerElements ==
  ASSUME NEW T, IsFiniteSet(T), NEW S \in SUBSET T
  PROVE  /\ Cardinality(S) \in Nat /\ Cardinality(T) \in Nat
         /\ Cardinality(S) <= Cardinality(T)
         /\ \A x \in T : x \notin S => Cardinality(S) + 1 <= Cardinality(T)
<1>1. IsFiniteSet(S)
  BY FS_Subset
<1>2. /\ Cardinality(S) \in Nat /\ Cardinality(T) \in Nat
      /\ Cardinality(S) <= Cardinality(T)
  BY <1>1, FS_CardinalityType, FS_Subset
<1>3. ASSUME NEW x \in T, x \notin S
      PROVE  Cardinality(S) + 1 <= Cardinality(T)
  <2>1. S \union {x} \in SUBSET T
    BY <1>3
  <2>2. Cardinality(S \union {x}) = Cardinality(S) + 1
    BY <1>1, <1>3, FS_AddElement
  <2> QED
    BY <2>1, <2>2, FS_Subset
<1> QED
  BY <1>2, <1>3

LEMMA Counting ==
  ASSUME NEW S \in SUBSET Observers, NEW T \in SUBSET Observers, S \subseteq T
  PROVE  /\ Cardinality(S) \in Nat /\ Cardinality(T) \in Nat
         /\ Cardinality(T) <= Cardinality(Observers) /\ Cardinality(Observers) \in Nat
         /\ Cardinality(S) <= Cardinality(T)
         /\ \A x \in T : x \notin S => Cardinality(S) + 1 <= Cardinality(T)
<1>1. IsFiniteSet(T)
  BY BusAssumption, FS_Subset
<1> QED
  BY <1>1, BusAssumption, FewerElements

\* What a step does to the queues of the open channel.
QueuesStay == queues' = queues
QueuesGo == queues' = <<>>
QueueComes == queues' = Append(queues, <<>>)
EventComes == published' = published + 1 /\ Route(published')
EventLeaves == \E c \in DOMAIN queues : queues[c] # <<>> /\ queues' = [queues EXCEPT ![c] = Tail(@)]

LEMMA QueueLengths ==
  ASSUME BusInv
  PROVE  /\ Len(queues) \in Nat
         /\ QueuesStay => Len(queues') = Len(queues)
         /\ QueuesGo => Len(queues') = 0
         /\ QueueComes => Len(queues') = Len(queues) + 1
         /\ EventComes /\ published' \in Events => Len(queues') = Len(queues)
         /\ EventLeaves => Len(queues') = Len(queues)
<1> USE DEF BusInv, BusTypes
<1>1. Len(queues) \in Nat
  BY LenProperties
<1>2. QueuesGo => Len(queues') = 0
  BY EmptySeq DEF QueuesGo
<1>3. QueueComes => Len(queues') = Len(queues) + 1
  <2>1. <<>> \in Seq(Events)
    BY EmptySeq
  <2> QED
    BY <2>1, AppendProperties DEF QueueComes
<1>4. EventComes /\ published' \in Events => Len(queues') = Len(queues)
  BY RouteKeeps DEF EventComes
<1>5. ASSUME NEW c \in DOMAIN queues, queues[c] # <<>>, queues' = [queues EXCEPT ![c] = Tail(@)]
      PROVE  Len(queues') = Len(queues)
  <2>1. c \in 1..Len(queues) /\ queues[c] \in Seq(Events)
    BY <1>5
  <2>2. Tail(queues[c]) \in Seq(Events)
    BY <1>5, <2>1
  <2> QED
    BY <1>5, <2>1, <2>2, ExceptSeq
<1> QED
  BY <1>1, <1>2, <1>3, <1>4, <1>5 DEF QueuesStay, EventLeaves

LEMMA SumsGrow ==
  ASSUME NEW m \in Int, NEW d \in Int,
         NEW a \in Int, NEW b \in Int, NEW c \in Int, m <= a + b + c + d,
         NEW x \in Int, NEW y \in Int, NEW z \in Int, a <= x, b <= y, c <= z
  PROVE  m <= x + y + z + d
OBVIOUS

LEMMA SumsShift ==
  ASSUME NEW m \in Int, NEW a \in Int, NEW b \in Int, NEW c \in Int, NEW d \in Int,
         m <= a + b + c + d,
         NEW x \in Int, NEW y \in Int, c + 1 <= x, d <= y + 1
  PROVE  m <= a + b + x + y
OBVIOUS

\* A step that opens no channel and adds no consumer keeps the counts, if the loop still
\* counts what it did.
LEMMA CountedRest ==
  ASSUME Counted, Len(queues) \in Nat, model \in Nat, UNCHANGED <<joins, model>>,
         published \in 0..MaxEvents, published' \in 0..MaxEvents, published <= published',
         faults \in 0..MaxFaults, faults' \in 0..MaxFaults, faults <= faults',
         open' => open, ~open' => queues' = <<>>,
         Len(queues') \in Nat, Len(queues') <= Len(queues),
         LoopsConsumer \in Int, LoopsChannel \in Int,
         LoopsConsumer' = LoopsConsumer, LoopsChannel' = LoopsChannel,
         Cardinality(Gone) \in Nat, Cardinality(Gone)' \in Nat,
         Cardinality(Joined) \in Nat, Cardinality(Joined)' \in Nat,
         Cardinality(Gone) <= Cardinality(Gone)', Cardinality(Joined) <= Cardinality(Joined)'
  PROVE  Counted'
<1>1. open' => model' > 0
  BY DEF Counted
<1> DEFINE gone == Cardinality(Gone)
           joined == Cardinality(Joined)
           there == LoopsChannel
<1>2. joins' \in Nat /\ joins' <= joined'
  <2>1. joins \in Nat /\ joins' = joins /\ joins <= joined
    BY DEF Counted
  <2>2. joined \in Nat /\ joined' \in Nat /\ joined <= joined'
    OBVIOUS
  <2> HIDE DEF joined
  <2> QED
    BY ONLY <2>1, <2>2
<1>3. Len(queues') <= joins' + LoopsConsumer'
  BY DEF Counted
<1>4. model' <= faults' + published' + gone' + there'
  <2>1. model \in Nat /\ model' = model /\ model <= faults + published + gone + there
    BY DEF Counted
  <2>2. /\ gone \in Nat /\ gone' \in Nat /\ gone <= gone'
        /\ there \in Int /\ there' = there
    OBVIOUS
  <2>3. /\ published \in Int /\ published' \in Int /\ published <= published'
        /\ faults \in Int /\ faults' \in Int /\ faults <= faults'
    OBVIOUS
  <2> HIDE DEF gone, there
  <2>4. /\ model \in Int /\ there \in Int /\ gone \in Int /\ gone' \in Int
        /\ model <= faults + published + gone + there
    BY ONLY <2>1, <2>2
  <2>5. model <= faults' + published' + gone' + there
    BY ONLY <2>2, <2>3, <2>4, SumsGrow, Zenon
  <2> QED
    BY ONLY <2>1, <2>2, <2>5
<1> QED
  BY <1>1, <1>2, <1>3, <1>4 DEF Counted

LEMMA ConnectCounts ==
  ASSUME BusInv, Counted, StatesKnown, BusStep \/ HostStep \/ Stop
  PROVE  Counted' /\ StatesKnown'
<1> USE DEF Counted, StatesKnown, LoopsConsumer, LoopsChannel, Attached
<1>0. /\ Len(queues) \in Nat /\ model \in Nat
      /\ QueuesStay => Len(queues') = Len(queues)
      /\ QueuesGo => Len(queues') = 0
      /\ QueueComes => Len(queues') = Len(queues) + 1
  BY QueueLengths DEF BusInv, BusTypes
<1>1. Cardinality(Gone) \in Nat /\ Cardinality(Joined) \in Nat
  BY Counting DEF Gone, Joined
<1>2. ASSUME UNCHANGED caller
      PROVE  Gone' = Gone /\ Joined' = Joined
  BY <1>2 DEF Gone, Joined
<1>3. CASE OpenModel
  <2>1. Gone' = Gone /\ Joined' = Joined /\ QueuesStay
    BY <1>2, <1>3 DEF OpenModel, QueuesStay
  <2> QED
    BY <1>0, <1>1, <1>3, <2>1 DEF OpenModel
<1>4. CASE Declare \/ Finish
  <2>1. Gone' = Gone /\ Joined' = Joined /\ QueuesStay
    BY <1>2, <1>4 DEF Declare, Finish, QueuesStay
  <2> QED
    BY <1>0, <1>1, <1>4, <2>1 DEF Declare, Finish
<1>5. CASE Attach
  <2>1. Gone' = Gone /\ Joined' = Joined /\ (QueuesStay \/ QueueComes)
    BY <1>2, <1>5 DEF Attach, OnConnected, QueuesStay, QueueComes
  <2> QED
    BY <1>0, <1>1, <1>5, <2>1 DEF Attach
<1>6. CASE Fail
  <2>1. Gone' = Gone /\ Joined' = Joined /\ QueuesGo
    BY <1>2, <1>6 DEF Fail, CloseChannel, QueuesGo
  <2>2. /\ UNCHANGED <<model, joins, published>> /\ ~open'
        /\ faults' \in 0..MaxFaults /\ LoopsChannel' = 0
        /\ \/ faults' = faults + 1 /\ LoopsChannel \in {0, 1}
           \/ faults' = faults /\ LoopsChannel = 0
    BY <1>6, BusAssumption DEF Fail, CloseChannel, MayFail
  <2>3. StatesKnown'
    BY <1>6 DEF Fail
  <2>4. model' <= faults' + published' + Cardinality(Gone)' + LoopsChannel'
    <3> DEFINE gone == Cardinality(Gone)
               there == LoopsChannel
    <3>1. /\ model \in Nat /\ gone \in Nat /\ gone' = gone
          /\ published \in Int /\ faults \in Int
          /\ model <= faults + published + gone + there
      BY <1>0, <1>1, <2>1
    <3>2. /\ model' = model /\ published' = published /\ there' = 0
          /\ (faults' = faults + 1 /\ there \in {0, 1}) \/ (faults' = faults /\ there = 0)
      BY <2>2
    <3>3. model' <= faults' + published' + gone' + there'
      <4> HIDE DEF gone, there
      <4> QED
        BY ONLY <3>1, <3>2
    <3> QED
      BY <3>3
  <2>5. Len(queues') <= joins' + LoopsConsumer'
    BY <1>0, <2>1, <2>2
  <2>6. joins' \in Nat /\ joins' <= Cardinality(Joined)'
    BY <2>1, <2>2
  <2> HIDE DEF StatesKnown, LoopsConsumer, LoopsChannel, Attached
  <2> QED
    BY <2>1, <2>2, <2>3, <2>4, <2>5, <2>6 DEF QueuesGo
<1>7. CASE HostStep
  <2>1. Gone' = Gone /\ Joined' = Joined /\ (QueuesStay \/ (QueuesGo /\ ~open'))
    BY <1>2, <1>7 DEF HostStep, HostUp, HostFails, HostStop, hostRest, DisposeConnection,
                      CloseChannel, QueuesStay, QueuesGo
  <2>2. CASE HostUp
    BY <1>0, <1>1, <2>1, <2>2 DEF HostUp, hostRest
  <2>3. CASE HostFails \/ HostStop
    <3>1. QueuesGo /\ open' = FALSE /\ queues' = <<>>
      BY <2>3 DEF HostFails, HostStop, DisposeConnection, CloseChannel, QueuesGo
    <3>2. faults' \in 0..MaxFaults /\ faults' >= faults
      BY <2>3, BusAssumption DEF HostFails, HostStop, MayFail
    <3>3. UNCHANGED <<loop, model, joins, published>> /\ loop # "declaring"
      BY <2>3 DEF HostFails, HostStop, hostRest
    <3>4. connection' = "disposed" /\ host' \in {"waiting", "stopped"}
      BY <2>3 DEF HostFails, HostStop, DisposeConnection
    <3> QED
      BY <1>0, <1>1, <2>1, <3>1, <3>2, <3>3, <3>4, BusAssumption
  <2> QED
    BY <1>7, <2>2, <2>3 DEF HostStep
<1>8. CASE Stop
  <2>1. Joined' = Joined /\ Gone \subseteq Gone' /\ Gone' \subseteq Observers /\ QueuesGo
    BY <1>8 DEF Stop, CloseChannel, QueuesGo, Joined, Gone, BusInv, BusTypes, SubjectKnown
  <2>2. Cardinality(Gone) <= Cardinality(Gone)' /\ Cardinality(Gone)' \in Nat
    BY <2>1, Counting DEF Gone
  <2> QED
    BY <1>0, <1>1, <1>8, <2>1, <2>2 DEF Stop, CloseChannel
<1> QED
  BY <1>3, <1>4, <1>5, <1>6, <1>7, <1>8 DEF BusStep

LEMMA CallerCounts ==
  ASSUME BusInv, Counted, StatesKnown, NEW o \in Observers, CallerStep(o)
  PROVE  Counted' /\ StatesKnown'
<1> USE DEF Counted, StatesKnown, LoopsConsumer, LoopsChannel, Attached
<1>0. /\ Len(queues) \in Nat /\ model \in Nat
      /\ QueuesStay => Len(queues') = Len(queues)
      /\ QueuesGo => Len(queues') = 0
      /\ QueueComes => Len(queues') = Len(queues) + 1
  BY QueueLengths DEF BusInv, BusTypes
<1>1. Cardinality(Gone) \in Nat /\ Cardinality(Joined) \in Nat
  BY Counting DEF Gone, Joined
<1>2. Gone \subseteq Gone' /\ Joined \subseteq Joined' /\ Gone' \subseteq Observers /\ Joined' \subseteq Observers
  BY DEF CallerStep, Observe, Join, JoinThrows, Unsubscribe, Gone, Joined, BusInv, BusTypes
<1>3. /\ Cardinality(Gone)' \in Nat /\ Cardinality(Joined)' \in Nat
      /\ Cardinality(Gone) <= Cardinality(Gone)'
      /\ Cardinality(Joined) <= Cardinality(Joined)'
  BY <1>2, Counting DEF Gone, Joined
<1>4. CASE Observe(o)
  <2>1. QueuesStay
    BY <1>4 DEF Observe, QueuesStay
  <2>2. UNCHANGED <<connection, host, loop, model, published, faults, open, joins>>
    BY <1>4 DEF Observe, callerRest
  <2>3. StatesKnown' /\ LoopsConsumer' = LoopsConsumer /\ LoopsChannel' = LoopsChannel
    BY <2>2
  <2>4. LoopsChannel \in Int /\ LoopsConsumer \in Int
    BY DEF LoopsChannel, LoopsConsumer
  <2> QED
    BY <1>0, <1>1, <1>3, <2>1, <2>2, <2>3, <2>4, CountedRest DEF QueuesStay
<1>5. CASE Join(o)
  <2>1. o \in Joined' /\ o \notin Joined
    BY <1>5 DEF Join, Joined, BusInv, BusTypes
  <2>2. Cardinality(Joined) + 1 <= Cardinality(Joined)'
    BY <1>2, <2>1, Counting DEF Joined
  <2>3. \/ QueuesStay /\ joins' = joins
        \/ QueueComes /\ joins' = joins + 1 /\ open
    BY <1>5 DEF Join, OnConnected, QueuesStay, QueueComes
  <2>4. /\ UNCHANGED <<connection, host, loop, model, published, faults, open>>
        /\ ~open => queues' = <<>>
    BY <1>5, <2>3 DEF Join, callerRest, QueuesStay
  <2>5. joins' \in Nat /\ Len(queues') <= joins' + LoopsConsumer
    BY <1>0, <2>3
  <2>6. joins' <= Cardinality(Joined)'
    BY <1>1, <1>3, <2>2, <2>3
  <2>7. /\ published' \in 0..MaxEvents /\ faults' \in 0..MaxFaults
        /\ open' => model' > 0
        /\ ~open' => queues' = <<>>
        /\ LoopsConsumer' = LoopsConsumer /\ LoopsChannel' = LoopsChannel
        /\ StatesKnown'
    BY <2>4
  <2>8. model' <= faults' + published' + Cardinality(Gone)' + LoopsChannel'
    <3>1. model' = model /\ faults' = faults /\ published' = published /\ open' = open
      BY <2>4
    <3>2. /\ model \in Nat /\ faults \in Int /\ published \in Int /\ LoopsChannel \in Int
          /\ model <= faults + published + Cardinality(Gone) + LoopsChannel
      BY <1>0
    <3> HIDE DEF LoopsChannel, Gone
    <3> QED
      BY ONLY <1>1, <1>3, <2>7, <3>1, <3>2
  <2> HIDE DEF LoopsConsumer, LoopsChannel, Attached, StatesKnown
  <2> QED
    BY ONLY <2>5, <2>6, <2>7, <2>8 DEF Counted
<1>6. CASE JoinThrows(o)
  <2>1. o \in Gone' /\ o \notin Gone
    BY <1>6 DEF JoinThrows, Gone, BusInv, BusTypes
  <2>2. Cardinality(Gone) + 1 <= Cardinality(Gone)'
    BY <1>2, <2>1, Counting DEF Gone
  <2>3. QueuesGo
    BY <1>6 DEF JoinThrows, CloseChannel, QueuesGo
  <2>4. /\ UNCHANGED <<connection, host, loop, model, published, faults, joins>> /\ ~open'
    BY <1>6 DEF JoinThrows, CloseChannel, callerRest
  <2>5. StatesKnown' /\ LoopsConsumer' = LoopsConsumer /\ LoopsConsumer \in Nat
    BY <2>4
  <2>6. LoopsChannel \in Nat /\ LoopsChannel' \in Nat /\ LoopsChannel <= LoopsChannel' + 1
    BY <2>4
  <2>7. model' <= faults' + published' + Cardinality(Gone)' + LoopsChannel'
    <3> DEFINE gone == Cardinality(Gone)
               there == LoopsChannel
    <3>1. /\ gone \in Int /\ gone' \in Int /\ gone + 1 <= gone'
          /\ there \in Int /\ there' \in Int /\ there <= there' + 1
      BY <1>1, <1>3, <2>2, <2>6
    <3>2. /\ model \in Int /\ published \in Int /\ faults \in Int
          /\ model <= faults + published + gone + there
          /\ model' = model /\ published' = published /\ faults' = faults
      BY <1>0, <2>4
    <3> HIDE DEF gone, there
    <3>3. model <= faults + published + gone' + there'
      BY ONLY <3>1, <3>2, SumsShift, Zenon
    <3> QED
      BY <3>2, <3>3 DEF gone, there
  <2>8. Len(queues') <= joins' + LoopsConsumer' /\ joins' <= Cardinality(Joined)'
    BY <1>0, <1>1, <1>3, <2>3, <2>4, <2>5
  <2> HIDE DEF StatesKnown, LoopsConsumer, LoopsChannel, Attached
  <2> QED
    BY <2>3, <2>4, <2>5, <2>7, <2>8 DEF QueuesGo
<1>7. CASE Unsubscribe(o)
  <2>1. QueuesStay
    BY <1>7 DEF Unsubscribe, QueuesStay
  <2>2. UNCHANGED <<connection, host, loop, model, published, faults, open, joins>>
    BY <1>7 DEF Unsubscribe, callerRest
  <2>3. StatesKnown' /\ LoopsConsumer' = LoopsConsumer /\ LoopsChannel' = LoopsChannel
    BY <2>2
  <2>4. LoopsChannel \in Int /\ LoopsConsumer \in Int
    BY DEF LoopsChannel, LoopsConsumer
  <2> QED
    BY <1>0, <1>1, <1>3, <2>1, <2>2, <2>3, <2>4, CountedRest DEF QueuesStay
<1> QED
  BY <1>4, <1>5, <1>6, <1>7 DEF CallerStep

LEMMA PublishCounts ==
  ASSUME BusInv, Counted, StatesKnown, Publish \/ PublishElsewhere
  PROVE  Counted' /\ StatesKnown'
<1> USE DEF Counted, StatesKnown, LoopsConsumer, LoopsChannel, Attached
<1>1. Cardinality(Gone) \in Nat /\ Cardinality(Joined) \in Nat /\ model \in Nat
  BY Counting DEF Gone, Joined, BusInv, BusTypes
<1>2. Gone' = Gone /\ Joined' = Joined
  BY DEF Publish, PublishElsewhere, publishRest, Gone, Joined
<1>3. published' = published + 1 /\ published' \in 0..MaxEvents /\ published' \in Events
  BY BusAssumption DEF Publish, PublishElsewhere, Events
<1>4. \/ EventComes /\ open' = open
      \/ QueuesGo /\ ~open'
  BY DEF Publish, PublishElsewhere, EventComes, QueuesGo, CloseChannel
<1>5. /\ Len(queues) \in Nat
      /\ QueuesGo => Len(queues') = 0
      /\ EventComes => Len(queues') = Len(queues)
  BY <1>3, QueueLengths
<1>6. ~open' => queues' = <<>>
  <2> SUFFICES ASSUME ~open', ~open, EventComes PROVE queues' = <<>>
    BY <1>4 DEF QueuesGo
  <2>1. Len(queues') = 0
    BY <1>5, EmptySeq
  <2>2. queues' \in Seq(Seq(Events))
    BY PublishKeeps DEF BusInv, BusTypes
  <2> QED
    BY <2>1, <2>2, EmptySeq
<1>7. /\ UNCHANGED <<connection, host, loop, model, joins, faults>>
      /\ open' => open
  BY DEF Publish, PublishElsewhere, publishRest, CloseChannel
<1>8. Len(queues') <= Len(queues)
  BY <1>4, <1>5
<1>9. Len(queues') \in Nat
  BY <1>4, <1>5
<1> HIDE DEF EventComes, QueuesGo
<1>10. LoopsConsumer' = LoopsConsumer /\ LoopsChannel' + 1 >= LoopsChannel
  BY <1>7
<1>11. StatesKnown' /\ (open' => model' > 0)
  BY <1>7
<1>12. model' <= faults' + published' + Cardinality(Gone)' + LoopsChannel'
  BY <1>1, <1>2, <1>3, <1>7, <1>10
<1>13. Len(queues') <= joins' + LoopsConsumer' /\ joins' <= Cardinality(Joined)'
  BY <1>1, <1>2, <1>5, <1>7, <1>8, <1>9, <1>10
<1> HIDE DEF StatesKnown, LoopsConsumer, LoopsChannel, Attached
<1> QED
  BY <1>3, <1>6, <1>7, <1>11, <1>12, <1>13

LEMMA DispatchCounts ==
  ASSUME BusInv, Counted, StatesKnown, DispatchStep
  PROVE  Counted' /\ StatesKnown'
<1> USE DEF Counted, StatesKnown, LoopsConsumer, LoopsChannel, Attached
<1>1. UNCHANGED dispatchRest
  BY DEF DispatchStep, Deliver, DeliverUnreadable, OnNext, OnNextThrows, OnError
<1>2. Gone' = Gone /\ Joined' = Joined
  BY <1>1 DEF dispatchRest, Gone, Joined
<1>3. QueuesStay \/ (EventLeaves /\ open)
  BY DEF DispatchStep, Deliver, DeliverUnreadable, OnNext, OnNextThrows, OnError,
         QueuesStay, EventLeaves
<1>4. Len(queues') = Len(queues)
  BY <1>3, QueueLengths
<1>5. faults' \in 0..MaxFaults /\ faults' >= faults
  BY BusAssumption
     DEF DispatchStep, Deliver, DeliverUnreadable, OnNext, OnNextThrows, OnError, MayFail
<1>6. Cardinality(Gone) \in Nat /\ Cardinality(Joined) \in Nat /\ model \in Nat
  BY Counting DEF Gone, Joined, BusInv, BusTypes
<1>7. UNCHANGED <<connection, host, loop, model, joins, published, open>>
  BY <1>1 DEF dispatchRest, connectVars
<1>8. ~open' => queues' = <<>>
  BY <1>3, <1>7 DEF QueuesStay
<1>9. StatesKnown' /\ LoopsConsumer' = LoopsConsumer /\ LoopsChannel' = LoopsChannel
  BY <1>7
<1>10. LoopsConsumer \in Int /\ LoopsChannel \in Int
  OBVIOUS
<1>11. /\ Len(queues) \in Nat /\ faults \in 0..MaxFaults
       /\ published \in 0..MaxEvents /\ published' = published
  BY <1>7, QueueLengths
<1> HIDE DEF Counted, StatesKnown, LoopsConsumer, LoopsChannel, Attached
<1> QED
  BY <1>2, <1>4, <1>5, <1>6, <1>7, <1>8, <1>9, <1>10, <1>11, CountedRest

LEMMA CountedNext ==
  BusInv /\ Counted /\ StatesKnown /\ [Next]_vars => (Counted /\ StatesKnown)'
<1> SUFFICES ASSUME BusInv, Counted, StatesKnown, UNCHANGED vars
             PROVE  Counted' /\ StatesKnown'
  BY ConnectCounts, CallerCounts, PublishCounts, DispatchCounts DEF Next
<1> QED
  BY DEF vars, connectVars, Counted, StatesKnown, LoopsConsumer, LoopsChannel, Joined, Gone

LEMMA CountedInvariant == Spec => [](Counted /\ StatesKnown)
<1>1. Init => Counted /\ StatesKnown
  <2> SUFFICES ASSUME Init PROVE Counted /\ StatesKnown
    OBVIOUS
  <2>1. Joined = {} /\ Gone = {}
    BY DEF Init, Joined, Gone
  <2> QED
    BY <2>1, BusAssumption, FS_EmptySet, EmptySeq
       DEF Init, Counted, StatesKnown, LoopsConsumer, LoopsChannel, Attached
<1> QED
  BY <1>1, CountedNext, BusInvariant, PTL DEF Spec

\* The bounds suffice: no channel is left out.
LEMMA ChannelsSuffice ==
  ASSUME BusInv, Counted
  PROVE  /\ MaxModels \in Nat /\ 1 \in Channels
         /\ model \in 0..MaxModels /\ 1..model \subseteq Channels
<1>1. /\ Cardinality(Gone) \in Nat /\ Cardinality(Observers) \in Nat
      /\ Cardinality(Gone) <= Cardinality(Observers)
  BY Counting DEF Gone
<1>2. MaxModels \in Nat /\ MaxModels >= 1
  BY <1>1, BusAssumption DEF MaxModels
<1>3. model \in Nat /\ model <= MaxModels
  BY <1>1, BusAssumption DEF MaxModels, Counted, LoopsChannel, BusInv, BusTypes
<1> QED
  BY <1>2, <1>3 DEF Channels

\* Whom the dispatcher tells of an error, it tells of an event.
ToldOfEvents == told \in [Observers -> SUBSET Events]

LEMMA ToldOfEventsNext ==
  ASSUME BusInv, Counted, RoundInv, ToldOfEvents, [Next]_vars
  PROVE  ToldOfEvents'
<1>1. CASE DispatchStep
  <2>1. CASE UNCHANGED told
    BY <2>1 DEF ToldOfEvents
  <2>2. ASSUME NEW m \in 1..model, NEW o \in Observers, OnError(m, o)
        PROVE  ToldOfEvents'
    <3>1. told' = [told EXCEPT ![o] = @ \union {dispatch[m].event}]
      BY <2>2 DEF OnError
    <3>2. m \in Channels
      BY ChannelsSuffice
    <3>3. dispatch[m].event \in Events
      BY <2>2, <3>2 DEF OnError, Called, RoundInv, Idle, Round
    <3> QED
      BY <3>1, <3>3 DEF ToldOfEvents
  <2> QED
    BY <1>1, <2>1, <2>2 DEF DispatchStep, Deliver, DeliverUnreadable, OnNext, OnNextThrows
<1>2. CASE ~DispatchStep
  BY <1>2, OthersLeaveRounds DEF deliveryVars, ToldOfEvents
<1> QED
  BY <1>1, <1>2

LEMMA ToldInvariant == Spec => []ToldOfEvents
<1>1. Init => ToldOfEvents
  BY DEF Init, ToldOfEvents
<1>2. BusInv /\ Counted /\ RoundInv /\ ToldOfEvents /\ [Next]_vars => ToldOfEvents'
  BY ToldOfEventsNext
<1> QED
  BY <1>1, <1>2, BusInvariant, CountedInvariant, RoundInvariant, PTL DEF Spec

\* In every run the variables stay in their types: in particular the bus never has more
\* channels than something failed for, nor more consumers than Observe and the loop add.
THEOREM BusTypeCorrect == Spec => []TypeOK
<1>1. BusInv /\ Counted /\ StatesKnown /\ RoundInv /\ ToldOfEvents => TypeOK
  <2> SUFFICES ASSUME BusInv, Counted, StatesKnown, RoundInv, ToldOfEvents PROVE TypeOK
    OBVIOUS
  <2>1. /\ Cardinality(Joined) \in Nat /\ Cardinality(Observers) \in Nat
        /\ Cardinality(Joined) <= Cardinality(Observers)
    BY Counting DEF Joined
  <2>2. Len(queues) \in Nat
    BY QueueLengths
  <2>3. Len(queues) <= Cardinality(Observers) + 1 /\ joins \in 0..Cardinality(Observers)
    BY <2>1, <2>2 DEF Counted, LoopsConsumer
  <2>4. model \in 0..MaxModels
    BY ChannelsSuffice
  <2> QED
    BY <2>3, <2>4 DEF TypeOK, BusInv, BusTypes, Counted, StatesKnown, RoundInv, Rounds,
                      ToldOfEvents
<1> QED
  BY <1>1, BusInvariant, CountedInvariant, RoundInvariant, ToldInvariant, PTL

-----------------------------------------------------------------------------
\* What the queues hold.

\* The consumers that event e waits for.
Copies(e) == {c \in 1..Len(queues) : \E i \in 1..Len(queues[c]) : queues[c][i] = e}

\* Each queue is in the order of publication.
Sorted ==
  \A c \in 1..Len(queues) : \A i, j \in 1..Len(queues[c]) :
    i < j => queues[c][i] < queues[c][j]

\* Nothing waits, is handed round or has been seen before it is published.
Known ==
  /\ \A e \in Events : Copies(e) # {} => e <= published
  /\ \A m \in Channels : dispatch[m].event <= published
  /\ \A o \in Observers, e \in Events : seen[o][e] > 0 => e <= published

LEMMA QueuesTyped ==
  ASSUME BusInv
  PROVE  /\ queues \in Seq(Seq(Events)) /\ Len(queues) \in Nat /\ DOMAIN queues = 1..Len(queues)
         /\ \A c \in 1..Len(queues) :
              /\ queues[c] \in Seq(Events) /\ Len(queues[c]) \in Nat
              /\ \A i \in 1..Len(queues[c]) : queues[c][i] \in Events
<1>1. queues \in Seq(Seq(Events))
  BY DEF BusInv, BusTypes
<1>2. Len(queues) \in Nat /\ DOMAIN queues = 1..Len(queues)
  BY <1>1, LenProperties
<1>3. ASSUME NEW c \in 1..Len(queues)
      PROVE  /\ queues[c] \in Seq(Events) /\ Len(queues[c]) \in Nat
             /\ \A i \in 1..Len(queues[c]) : queues[c][i] \in Events
  <2>1. queues[c] \in Seq(Events)
    BY <1>1, <1>3
  <2> QED
    BY <2>1, LenProperties
<1> QED
  BY <1>1, <1>2, <1>3

LEMMA QueuesGone ==
  ASSUME QueuesGo
  PROVE  Sorted' /\ \A e \in Events : Copies(e)' = {}
<1>1. Len(queues') = 0
  BY EmptySeq DEF QueuesGo
<1> QED
  BY <1>1 DEF Sorted, Copies

LEMMA QueueAdded ==
  ASSUME BusInv, Sorted, QueueComes
  PROVE  Sorted' /\ \A e \in Events : Copies(e)' = Copies(e)
<1>1. queues \in Seq(Seq(Events)) /\ <<>> \in Seq(Events) /\ Len(queues) \in Nat
  BY QueuesTyped, EmptySeq
<1>2. /\ Len(queues') = Len(queues) + 1
      /\ \A c \in 1..Len(queues) : queues'[c] = queues[c]
      /\ queues'[Len(queues) + 1] = <<>>
  BY <1>1, AppendProperties DEF QueueComes
<1>3. Len(queues'[Len(queues) + 1]) = 0
  BY <1>2, EmptySeq
<1>4. \A c \in 1..Len(queues') :
        \/ c \in 1..Len(queues) /\ queues'[c] = queues[c]
        \/ Len(queues'[c]) = 0
  BY <1>1, <1>2, <1>3
<1>5. 1..Len(queues) \subseteq 1..Len(queues')
  BY <1>1, <1>2
<1> QED
  BY <1>2, <1>4, <1>5 DEF Sorted, Copies

\* The event that is published comes last, and in every queue.
LEMMA EventRouted ==
  ASSUME BusInv, Sorted, Known, EventComes, NEW p \in Events, published' = p
  PROVE  /\ Sorted'
         /\ \A e \in Events : e # p => Copies(e)' = Copies(e)
         /\ Copies(p) = {}
         /\ Copies(p)' = 1..Len(queues)
<1>1. p = published + 1 /\ published \in Nat
  BY DEF EventComes, BusInv, BusTypes
<1>2. Len(queues') = Len(queues)
  BY QueueLengths
<1>3. ASSUME NEW c \in 1..Len(queues)
      PROVE  /\ Len(queues'[c]) = Len(queues[c]) + 1
             /\ \A i \in 1..Len(queues[c]) : queues'[c][i] = queues[c][i]
             /\ queues'[c][Len(queues[c]) + 1] = p
  <2>1. queues[c] \in Seq(Events) /\ queues'[c] = Append(queues[c], p)
    BY QueuesTyped DEF EventComes, Route
  <2> QED
    BY <1>1, <2>1, AppendProperties
<1>4. ASSUME NEW c \in 1..Len(queues), NEW i \in 1..Len(queues[c])
      PROVE  queues[c][i] <= published /\ queues[c][i] \in Events
  <2>1. queues[c][i] \in Events
    BY QueuesTyped
  <2>2. c \in Copies(queues[c][i])
    BY DEF Copies
  <2> QED
    BY <2>1, <2>2 DEF Known
<1>5. ASSUME NEW c \in 1..Len(queues')
      PROVE  /\ c \in 1..Len(queues) /\ Len(queues[c]) \in Nat
             /\ \A i \in 1..Len(queues'[c]) :
                  \/ i \in 1..Len(queues[c]) /\ queues'[c][i] = queues[c][i]
                  \/ i = Len(queues[c]) + 1 /\ queues'[c][i] = p
  <2>1. c \in 1..Len(queues) /\ Len(queues[c]) \in Nat
    BY <1>2, QueuesTyped
  <2> QED
    BY <1>3, <2>1
<1>6. Sorted'
  <2> SUFFICES ASSUME NEW c \in 1..Len(queues'), NEW i \in 1..Len(queues'[c]),
                      NEW j \in 1..Len(queues'[c]), i < j
               PROVE  queues'[c][i] < queues'[c][j]
    BY DEF Sorted
  <2>1. i \in 1..Len(queues[c]) /\ queues'[c][i] = queues[c][i]
    BY <1>3, <1>5
  <2>2. CASE j \in 1..Len(queues[c]) /\ queues'[c][j] = queues[c][j]
    BY <1>5, <2>1, <2>2 DEF Sorted
  <2>3. CASE queues'[c][j] = p
    <3>1. queues[c][i] <= published /\ queues[c][i] \in Nat
      BY <1>4, <1>5, <2>1 DEF Events
    <3> QED
      BY <1>1, <2>1, <2>3, <3>1
  <2> QED
    BY <1>5, <2>2, <2>3
<1>7. ASSUME NEW e \in Events, e # p
      PROVE  Copies(e)' = Copies(e)
  <2>1. Copies(e)' \subseteq Copies(e)
    BY <1>5, <1>7 DEF Copies
  <2>2. ASSUME NEW c \in Copies(e)
        PROVE  c \in Copies(e)'
    <3>1. PICK i \in 1..Len(queues[c]) : queues[c][i] = e
      BY DEF Copies
    <3>2. c \in 1..Len(queues) /\ Len(queues[c]) \in Nat
      BY QueuesTyped DEF Copies
    <3>3. i \in 1..Len(queues'[c]) /\ queues'[c][i] = e
      BY <1>3, <3>1, <3>2
    <3> QED
      BY <1>2, <3>2, <3>3 DEF Copies
  <2> QED
    BY <2>1, <2>2
<1>8. Copies(p) = {}
  BY <1>1, <1>4 DEF Copies, Events
<1>9. ASSUME NEW c \in 1..Len(queues)
      PROVE  \E i \in 1..Len(queues'[c]) : queues'[c][i] = p
  <2>1. Len(queues[c]) + 1 \in 1..(Len(queues[c]) + 1)
    BY QueuesTyped
  <2> QED
    BY <1>3, <2>1
<1>10. {c \in 1..Len(queues') : \E i \in 1..Len(queues'[c]) : queues'[c][i] = p} = 1..Len(queues)
  BY <1>2, <1>9
<1> QED
  BY <1>6, <1>7, <1>8, <1>10 DEF Copies

\* The first event leaves its queue, and what is left comes after it.
LEMMA EventTaken ==
  ASSUME BusInv, Sorted, NEW c \in DOMAIN queues, queues[c] # <<>>,
         queues' = [queues EXCEPT ![c] = Tail(@)], NEW h, h = Head(queues[c])
  PROVE  /\ Sorted'
         /\ h \in Events
         /\ \A e \in Events : e # h => Copies(e)' = Copies(e)
         /\ c \in Copies(h)
         /\ Copies(h)' = Copies(h) \ {c}
         /\ \A e \in Events : c \in Copies(e)' => h < e
<1> DEFINE n == Len(queues[c])
<1>1. /\ c \in 1..Len(queues) /\ queues[c] \in Seq(Events)
      /\ n \in Nat \ {0} /\ Len(queues) \in Nat
  BY QueuesTyped, EmptySeq
<1>2. h \in Events /\ h = queues[c][1]
  BY <1>1
<1>3. Len(Tail(queues[c])) = n - 1 /\ \A i \in 1..(n - 1) : Tail(queues[c])[i] = queues[c][i + 1]
  BY <1>1, HeadTailProperties
<1>4. /\ Len(queues') = Len(queues)
      /\ queues'[c] = Tail(queues[c])
      /\ \A d \in 1..Len(queues) : d # c => queues'[d] = queues[d]
  <2>1. Tail(queues[c]) \in Seq(Events)
    BY <1>1
  <2> QED
    BY <1>1, <2>1, ExceptSeq DEF BusInv, BusTypes
<1>5. Len(queues'[c]) = n - 1 /\ \A i \in 1..(n - 1) : queues'[c][i] = queues[c][i + 1]
  BY <1>3, <1>4
<1>6. \A i \in 2..n : h < queues[c][i]
  <2>1. 1 \in 1..n /\ \A i \in 2..n : i \in 1..n /\ 1 < i
    BY <1>1
  <2> QED
    BY <1>1, <1>2, <2>1 DEF Sorted
<1> HIDE DEF n
<1>7. Sorted'
  <2> SUFFICES ASSUME NEW d \in 1..Len(queues'), NEW i \in 1..Len(queues'[d]),
                      NEW j \in 1..Len(queues'[d]), i < j
               PROVE  queues'[d][i] < queues'[d][j]
    BY DEF Sorted
  <2>1. CASE d = c
    <3>1. i \in 1..(n - 1) /\ j \in 1..(n - 1)
      BY <1>5, <2>1
    <3>2. i + 1 \in 1..n /\ j + 1 \in 1..n /\ i + 1 < j + 1
      BY <1>1, <3>1
    <3>3. queues[c][i + 1] < queues[c][j + 1]
      BY <1>1, <3>2 DEF Sorted, n
    <3>4. queues'[d][i] = queues[c][i + 1] /\ queues'[d][j] = queues[c][j + 1]
      BY ONLY <1>5, <2>1, <3>1
    <3> QED
      BY ONLY <3>3, <3>4
  <2>2. CASE d # c
    BY <1>4, <2>2 DEF Sorted
  <2> QED
    BY <2>1, <2>2
<1>8. ASSUME NEW e \in Events, NEW d \in 1..Len(queues)
      PROVE  /\ d # c => (d \in Copies(e)' <=> d \in Copies(e))
             /\ c \in Copies(e)' <=> \E i \in 2..n : queues[c][i] = e
             /\ c \in Copies(e) <=> \E i \in 1..n : queues[c][i] = e
  <2>1. c \in Copies(e)' <=> \E i \in 1..(n - 1) : queues[c][i + 1] = e
    BY <1>1, <1>4, <1>5 DEF Copies
  <2>2. (\E i \in 1..(n - 1) : queues[c][i + 1] = e) <=> \E i \in 2..n : queues[c][i] = e
    <3>1. ASSUME NEW i \in 1..(n - 1), queues[c][i + 1] = e
          PROVE  \E j \in 2..n : queues[c][j] = e
      <4>1. i + 1 \in 2..n
        BY <1>1
      <4> QED
        BY <3>1, <4>1
    <3>2. ASSUME NEW i \in 2..n, queues[c][i] = e
          PROVE  \E j \in 1..(n - 1) : queues[c][j + 1] = e
      <4>1. i - 1 \in 1..(n - 1) /\ (i - 1) + 1 = i
        BY <1>1
      <4> QED
        BY <3>2, <4>1
    <3> QED
      BY <3>1, <3>2
  <2>3. c \in Copies(e) <=> \E i \in 1..n : queues[c][i] = e
    BY <1>1 DEF Copies, n
  <2>4. d # c => (d \in Copies(e)' <=> d \in Copies(e))
    BY <1>4 DEF Copies
  <2> QED
    BY <2>1, <2>2, <2>3, <2>4
<1>9. \A e \in Events : Copies(e) \subseteq 1..Len(queues) /\ Copies(e)' \subseteq 1..Len(queues)
  BY <1>4 DEF Copies
<1>10. \A i \in 1..n : i = 1 \/ i \in 2..n
  BY <1>1
<1>11. \A i \in 2..n : i \in 1..n
  BY <1>1
<1>12. 1 \in 1..n
  BY <1>1
<1>13. \A e \in Events : c \in Copies(e)' => h < e
  BY <1>1, <1>6, <1>8
<1>14. c \in Copies(h) /\ c \notin Copies(h)'
  <2>1. c \in Copies(h)
    BY <1>1, <1>2, <1>8, <1>12
  <2>2. ~(h < h)
    BY <1>2 DEF Events
  <2>3. c \notin Copies(h)'
    BY <1>1, <1>2, <1>6, <1>8, <2>2
  <2> QED
    BY <2>1, <2>3
<1>15. ASSUME NEW e \in Events, e # h
       PROVE  c \in Copies(e)' <=> c \in Copies(e)
  BY <1>1, <1>2, <1>8, <1>10, <1>11, <1>15
<1>16. Copies(h)' = Copies(h) \ {c}
  BY <1>1, <1>2, <1>8, <1>9, <1>14
<1>17. ASSUME NEW e \in Events, e # h
       PROVE  Copies(e)' = Copies(e)
  <2>1. \A d \in 1..Len(queues) : d \in Copies(e)' <=> d \in Copies(e)
    BY <1>8, <1>15, <1>17
  <2> QED
    BY <1>9, <2>1
<1> QED
  BY <1>2, <1>7, <1>13, <1>14, <1>16, <1>17

-----------------------------------------------------------------------------
\* How often, and in which order, an observer sees events.

\* The channels whose dispatcher is about to call o's OnNext with e.
Due(o, e) ==
  {m \in Channels : /\ dispatch[m].event = e /\ dispatch[m].call = "OnNext"
                    /\ o \in dispatch[m].todo}

\* Each consumer that existed when e was published is good for one call of OnNext: it
\* waits in a queue, or is due, or is done.
Account ==
  \A o \in Observers, e \in Events :
    seen[o][e] + Cardinality(Copies(e)) + Cardinality(Due(o, e)) <= 1 + joins

\* With one channel and one consumer, what waits comes after what is handed round, and
\* that after what has been seen.
Ahead ==
  joins = 0 /\ model <= 1 =>
    /\ \A e \in Events : Copies(e) # {} =>
         /\ dispatch[1].event < e
         /\ \A o \in Observers, f \in Events : seen[o][f] > 0 => f < e
    /\ dispatch[1] # Idle =>
         \A o \in Observers, f \in Events : seen[o][f] > 0 => f <= dispatch[1].event

SeenInv == Sorted /\ Known /\ Account /\ Ahead

\* What a step of anybody else does to what concerns the dispatchers.
LEMMA OtherSteps ==
  ASSUME BusInv, Counted, RoundInv, [Next]_vars, ~DispatchStep
  PROVE  /\ UNCHANGED <<dispatch, seen>>
         /\ joins' \in Nat /\ joins' >= joins /\ model' \in Nat /\ model' >= model
         /\ published' \in Nat /\ published' >= published
         /\ \/ QueuesStay \/ QueuesGo \/ QueueComes
            \/ EventComes /\ published' \in Events /\ UNCHANGED <<joins, model>>
<1> USE DEF QueuesStay, QueuesGo, QueueComes, BusInv, BusTypes, Counted
<1>1. UNCHANGED <<dispatch, seen>>
  BY OthersLeaveRounds DEF deliveryVars
<1>2. CASE BusStep \/ HostStep \/ Stop
  BY <1>1, <1>2 DEF BusStep, HostStep, OpenModel, Declare, Attach, Finish, Fail, HostUp,
              HostFails, HostStop, Stop, hostRest, DisposeConnection, CloseChannel,
              OnConnected
<1>3. ASSUME NEW o \in Observers, CallerStep(o)
      PROVE  /\ joins' \in Nat /\ joins' >= joins /\ UNCHANGED <<model, published>>
             /\ QueuesStay \/ QueuesGo \/ QueueComes
  BY <1>3 DEF CallerStep, Observe, Join, JoinThrows, Unsubscribe, callerRest, CloseChannel,
              OnConnected
<1>4. CASE Publish \/ PublishElsewhere
  <2>1. published' = published + 1 /\ published' \in Events /\ UNCHANGED <<joins, model>>
    BY <1>4, BusAssumption DEF Publish, PublishElsewhere, publishRest, Events
  <2> QED
    BY <1>1, <1>4, <2>1 DEF Publish, PublishElsewhere, CloseChannel, EventComes
<1>5. CASE UNCHANGED vars
  BY <1>1, <1>5 DEF vars, connectVars
<1> QED
  BY <1>1, <1>2, <1>3, <1>4, <1>5 DEF Next

\* A dispatcher takes an event and begins a round ...
Begins(c, r) ==
  /\ queues[c] # <<>> /\ queues' = [queues EXCEPT ![c] = Tail(@)]
  /\ model > 0 /\ dispatch[model] = Idle
  /\ dispatch' = [dispatch EXCEPT ![model] = r]
  /\ r = Idle \/ r.event = Head(queues[c])
  /\ seen' = seen

\* ... or calls an observer, and not again in this round.
Calls(m, o, r) ==
  /\ o \in dispatch[m].todo /\ dispatch[m].event \in Events
  /\ dispatch' = [dispatch EXCEPT ![m] = r]
  /\ r = Idle \/ r.event = dispatch[m].event
  /\ \A p \in r.todo : r.call = "OnNext" =>
       p \in dispatch[m].todo \ {o} /\ dispatch[m].call = "OnNext"
  /\ \/ seen' = seen
     \/ /\ dispatch[m].call = "OnNext"
        /\ seen' = [seen EXCEPT ![o][dispatch[m].event] = @ + 1]
  /\ queues' = queues

LEMMA DispatchSteps ==
  ASSUME BusInv, Counted, RoundInv, DispatchStep
  PROVE  /\ UNCHANGED <<joins, model, published>>
         /\ \/ \E c \in DOMAIN queues, r \in Rounds : Begins(c, r)
            \/ \E m \in 1..model, o \in Observers, r \in Rounds : Calls(m, o, r)
<1>1. UNCHANGED <<joins, model, published>>
  BY DEF DispatchStep, Deliver, DeliverUnreadable, OnNext, OnNextThrows, OnError,
         dispatchRest, connectVars
<1>2. ASSUME NEW c \in DOMAIN queues, Deliver(c) \/ DeliverUnreadable(c)
      PROVE  \E r \in Rounds : Begins(c, r)
  <2>1. PICK call \in {"OnNext", "OnError"} :
          dispatch' = [dispatch EXCEPT ![model] =
                         Round(Head(queues[c]), call, observers, observers)]
    BY <1>2 DEF Deliver, DeliverUnreadable
  <2> DEFINE r == Round(Head(queues[c]), call, observers, observers)
  <2>2. queues[c] \in Seq(Events) /\ queues[c] # <<>>
    BY <1>2, QueuesTyped DEF Deliver, DeliverUnreadable
  <2>3. Head(queues[c]) \in Events /\ observers \in SUBSET Observers
    BY <2>2 DEF BusInv, BusTypes
  <2>4. r \in Rounds /\ (r = Idle \/ r.event = Head(queues[c]))
    BY <2>3 DEF Round, Idle, Rounds
  <2>5. /\ queues' = [queues EXCEPT ![c] = Tail(@)]
        /\ model > 0 /\ dispatch[model] = Idle /\ seen' = seen
    BY <1>2 DEF Deliver, DeliverUnreadable, Counted
  <2> HIDE DEF r
  <2>6. dispatch' = [dispatch EXCEPT ![model] = r]
    BY <2>1 DEF r
  <2> QED
    BY <2>2, <2>4, <2>5, <2>6 DEF Begins
<1>3. ASSUME NEW m \in 1..model, NEW o \in Observers,
             OnNext(m, o) \/ OnNextThrows(m, o) \/ OnError(m, o)
      PROVE  \E r \in Rounds : Calls(m, o, r)
  <2>1. m \in Channels /\ o \in dispatch[m].todo
    BY <1>3, ChannelsSuffice DEF OnNext, OnNextThrows, OnError, Called
  <2>2. /\ dispatch[m].event \in Events /\ dispatch[m] \in Rounds
        /\ observers \in SUBSET Observers
    BY <2>1 DEF RoundInv, Idle, Round, BusInv, BusTypes
  <2>3. CASE OnNext(m, o) \/ OnError(m, o)
    <3> DEFINE r == Remaining(m, o)
    <3>1. /\ r \in Rounds /\ (r = Idle \/ r.event = dispatch[m].event)
          /\ r.todo = dispatch[m].todo \ {o} /\ (r.todo # {} => r.call = dispatch[m].call)
      BY <2>2 DEF Remaining, Round, Idle, Rounds
    <3>2. dispatch' = [dispatch EXCEPT ![m] = r] /\ queues' = queues
      BY <2>3 DEF OnNext, OnError
    <3>3. \/ seen' = seen
          \/ /\ dispatch[m].call = "OnNext"
             /\ seen' = [seen EXCEPT ![o][dispatch[m].event] = @ + 1]
      BY <2>3 DEF OnNext, OnError, Called, See
    <3> HIDE DEF r
    <3> QED
      BY <2>1, <2>2, <3>1, <3>2, <3>3 DEF Calls
  <2>4. CASE OnNextThrows(m, o)
    <3> DEFINE r == Round(dispatch[m].event, "OnError", observers, dispatch[m].audience)
    <3>1. /\ r \in Rounds /\ (r = Idle \/ r.event = dispatch[m].event)
          /\ r.todo # {} => r.call = "OnError"
      BY <2>2 DEF Round, Idle, Rounds
    <3>2. dispatch' = [dispatch EXCEPT ![m] = r] /\ queues' = queues
      BY <2>4 DEF OnNextThrows
    <3>3. /\ dispatch[m].call = "OnNext"
          /\ seen' = [seen EXCEPT ![o][dispatch[m].event] = @ + 1]
      BY <2>4 DEF OnNextThrows, Called, See
    <3> HIDE DEF r
    <3> QED
      BY <2>1, <2>2, <3>1, <3>2, <3>3 DEF Calls
  <2> QED
    BY <1>3, <2>3, <2>4
<1> QED
  BY <1>1, <1>2, <1>3 DEF DispatchStep

LEMMA FiniteCounts ==
  ASSUME BusInv, Counted, NEW o, NEW e
  PROVE  /\ IsFiniteSet(Copies(e)) /\ Cardinality(Copies(e)) \in Nat
         /\ IsFiniteSet(Due(o, e)) /\ Cardinality(Due(o, e)) \in Nat
<1>1. IsFiniteSet(1..Len(queues)) /\ IsFiniteSet(Channels)
  BY QueuesTyped, ChannelsSuffice, FS_Interval DEF Channels
<1>2. Copies(e) \subseteq 1..Len(queues) /\ Due(o, e) \subseteq Channels
  BY DEF Copies, Due
<1> QED
  BY <1>1, <1>2, FewerElements, FS_Subset

LEMMA OneToN ==
  ASSUME NEW n \in Nat
  PROVE  Cardinality(1..n) = n
<1>1. Cardinality(1..n) = IF 1 > n THEN 0 ELSE n - 1 + 1
  BY FS_Interval, 1 \in Int, n \in Int
<1> QED
  BY <1>1

LEMMA OneElementMore ==
  ASSUME NEW S, IsFiniteSet(S), NEW x
  PROVE  IsFiniteSet(S \union {x}) /\ Cardinality(S \union {x}) <= Cardinality(S) + 1
<1>1. Cardinality(S) \in Nat
  BY FS_CardinalityType
<1> QED
  BY <1>1, FS_AddElement

LEMMA OthersKeepSeen ==
  ASSUME BusInv, Counted, RoundInv, SeenInv, [Next]_vars, ~DispatchStep
  PROVE  SeenInv'
<1> USE DEF SeenInv
<1>1. /\ UNCHANGED <<dispatch, seen>>
      /\ joins' \in Nat /\ joins' >= joins /\ model' \in Nat /\ model' >= model
      /\ published' \in Nat /\ published' >= published
      /\ \/ QueuesStay \/ QueuesGo \/ QueueComes
         \/ EventComes /\ published' \in Events /\ UNCHANGED <<joins, model>>
  BY OtherSteps
<1>2. /\ joins \in Nat /\ model \in Nat /\ published \in Nat
      /\ 1 \in Channels
  BY ChannelsSuffice DEF BusInv, BusTypes, Counted
<1>3. /\ \A o \in Observers, e \in Events : Due(o, e)' = Due(o, e) /\ seen[o][e] \in Nat
      /\ \A m \in Channels : dispatch[m].event \in Nat
  BY <1>1, BusAssumption DEF Due, RoundInv, Rounds, Events, NoEvent
<1>4. CASE QueuesStay \/ QueuesGo \/ QueueComes
  <2>1. Sorted' /\ \A e \in Events : Copies(e)' = Copies(e) \/ Copies(e)' = {}
    BY <1>4, QueuesGone, QueueAdded DEF QueuesStay, Sorted, Copies
  <2>2. Known'
    BY <1>1, <1>2, <1>3, <2>1 DEF Known, Events
  <2>3. Account'
    <3> SUFFICES ASSUME NEW o \in Observers, NEW e \in Events
                 PROVE  seen[o][e] + Cardinality(Copies(e)') + Cardinality(Due(o, e)) <= 1 + joins'
      BY <1>1, <1>3 DEF Account
    <3>1. Cardinality(Copies(e)') <= Cardinality(Copies(e)) /\ Cardinality(Copies(e)') \in Nat
      BY <2>1, FiniteCounts, FS_EmptySet
    <3>2. seen[o][e] + Cardinality(Copies(e)) + Cardinality(Due(o, e)) <= 1 + joins
      BY DEF Account
    <3>3. Cardinality(Copies(e)) \in Nat /\ Cardinality(Due(o, e)) \in Nat
      BY FiniteCounts
    <3> QED
      BY <1>1, <1>2, <1>3, <3>1, <3>2, <3>3
  <2>4. Ahead'
    BY <1>1, <1>2, <2>1 DEF Ahead
  <2> QED
    BY <2>1, <2>2, <2>3, <2>4
<1>5. ASSUME NEW p \in Events, published' = p, EventComes, UNCHANGED <<joins, model>>
      PROVE  SeenInv'
  <2>1. /\ Sorted'
        /\ \A e \in Events : e # p => Copies(e)' = Copies(e)
        /\ Copies(p) = {} /\ Copies(p)' = 1..Len(queues)
    BY <1>5, EventRouted
  <2>2. p = published + 1
    BY <1>5 DEF EventComes
  <2>3. Known'
    BY <1>1, <1>2, <1>3, <1>5, <2>1, <2>2 DEF Known, Events
  <2>4. Account'
    <3> SUFFICES ASSUME NEW o \in Observers, NEW e \in Events
                 PROVE  seen[o][e] + Cardinality(Copies(e)') + Cardinality(Due(o, e)) <= 1 + joins
      BY <1>1, <1>3, <1>5 DEF Account
    <3>1. CASE e # p
      BY <2>1, <3>1 DEF Account
    <3>2. CASE e = p
      <4>1. seen[o][e] = 0 /\ Due(o, e) = {}
        BY <1>2, <1>3, <2>2, <3>2 DEF Known, Due
      <4>2. Len(queues) \in Nat /\ Len(queues) <= 1 + joins
        BY <1>2, QueuesTyped DEF Counted, LoopsConsumer
      <4>3. Cardinality(1..Len(queues)) = Len(queues)
        BY <4>2, OneToN
      <4> QED
        BY <1>2, <2>1, <3>2, <4>1, <4>2, <4>3, FS_EmptySet
    <3> QED
      BY <3>1, <3>2
  <2>5. Ahead'
    <3> SUFFICES ASSUME joins = 0, model <= 1
                 PROVE  /\ \A e \in Events : Copies(e)' # {} =>
                             /\ dispatch[1].event < e
                             /\ \A o \in Observers, f \in Events : seen[o][f] > 0 => f < e
                        /\ dispatch[1] # Idle =>
                             \A o \in Observers, f \in Events : seen[o][f] > 0 => f <= dispatch[1].event
      BY <1>1, <1>5 DEF Ahead
    <3>1. dispatch[1].event < p /\ \A o \in Observers, f \in Events : seen[o][f] > 0 => f < p
      BY <1>2, <1>3, <2>2 DEF Known, Events
    <3> QED
      BY <2>1, <3>1 DEF Ahead
  <2> QED
    BY <2>1, <2>3, <2>4, <2>5
<1> QED
  BY <1>1, <1>4, <1>5

\* A call counts once, and only where it is made.
LEMMA OneMoreCall ==
  ASSUME seen \in [Observers -> [Events -> Nat]], NEW p \in Observers, NEW e \in Events,
         seen' = [seen EXCEPT ![p][e] = @ + 1]
  PROVE  /\ seen'[p][e] = seen[p][e] + 1
         /\ \A o \in Observers, f \in Events : o # p \/ f # e => seen'[o][f] = seen[o][f]
BY DEF Events

LEMMA BeginningKeepsSeen ==
  ASSUME BusInv, Counted, RoundInv, SeenInv, UNCHANGED <<joins, model, published>>,
         NEW c \in DOMAIN queues, NEW r \in Rounds, Begins(c, r)
  PROVE  SeenInv'
<1> USE DEF SeenInv
<1>0. model \in Nat /\ joins \in Nat /\ published \in Nat /\ model > 0
  BY DEF Begins, BusInv, BusTypes, Counted
<1>1. model \in Channels /\ 1 \in Channels
  BY <1>0, ChannelsSuffice
<1>2. PICK h : h = Head(queues[c])
  OBVIOUS
<1>3. /\ Sorted'
      /\ h \in Events
      /\ \A e \in Events : e # h => Copies(e)' = Copies(e)
      /\ c \in Copies(h)
      /\ Copies(h)' = Copies(h) \ {c}
      /\ \A e \in Events : c \in Copies(e)' => h < e
  BY <1>2, EventTaken DEF Begins
<1>4. /\ dispatch \in [Channels -> Rounds] /\ seen' = seen
      /\ dispatch[model] = Idle /\ dispatch'[model] = r
      /\ \A m \in Channels : m # model => dispatch'[m] = dispatch[m]
      /\ r = Idle \/ r.event = h
  BY <1>0, <1>1, <1>2 DEF Begins, RoundInv
<1>5. Idle.event = 0 /\ Idle.todo = {}
  BY DEF Idle, Round, NoEvent
<1>6. h <= published /\ h \in Nat
  BY <1>3 DEF Known, Events
<1>7. Known'
  <2>1. \A m \in Channels : dispatch'[m].event <= published
    BY <1>0, <1>1, <1>4, <1>5, <1>6 DEF Known
  <2>2. \A e \in Events : Copies(e)' # {} => e <= published
    BY <1>3 DEF Known
  <2> QED
    BY <1>4, <2>1, <2>2 DEF Known
<1>8. Account'
  <2> SUFFICES ASSUME NEW o \in Observers, NEW e \in Events
               PROVE  seen[o][e] + Cardinality(Copies(e)') + Cardinality(Due(o, e)') <= 1 + joins
    BY <1>4 DEF Account
  <2>1. /\ seen[o][e] \in Nat
        /\ seen[o][e] + Cardinality(Copies(e)) + Cardinality(Due(o, e)) <= 1 + joins
    BY DEF Account, RoundInv
  <2>2. /\ IsFiniteSet(Copies(e)) /\ Cardinality(Copies(e)) \in Nat
        /\ IsFiniteSet(Due(o, e)) /\ Cardinality(Due(o, e)) \in Nat
    BY FiniteCounts
  <2>3. CASE e = h
    <3>1. Due(o, e)' \subseteq Due(o, e) \union {model}
      BY <1>4 DEF Due
    <3>2. /\ Cardinality(Due(o, e) \union {model}) <= Cardinality(Due(o, e)) + 1
          /\ IsFiniteSet(Due(o, e) \union {model})
      BY <2>2, OneElementMore
    <3>3. /\ Cardinality(Due(o, e)') <= Cardinality(Due(o, e) \union {model})
          /\ Cardinality(Due(o, e) \union {model}) \in Nat
          /\ Cardinality(Due(o, e)') \in Nat
      BY <3>1, <3>2, FewerElements
    <3>4. Cardinality(Copies(e)') = Cardinality(Copies(e)) - 1
      BY <1>3, <2>2, <2>3, FS_RemoveElement
    <3> QED
      BY <1>0, <1>1, <2>1, <2>2, <3>2, <3>3, <3>4
  <2>4. CASE e # h
    <3>1. Due(o, e)' \subseteq Due(o, e)
      BY <1>4, <1>5, <2>4 DEF Due
    <3>2. /\ Cardinality(Due(o, e)') <= Cardinality(Due(o, e))
          /\ Cardinality(Due(o, e)') \in Nat
      BY <2>2, <3>1, FewerElements
    <3>3. Copies(e)' = Copies(e)
      BY <1>3, <2>4
    <3> QED
      BY <1>0, <1>1, <2>1, <2>2, <3>2, <3>3
  <2> QED
    BY <2>3, <2>4
<1>9. Ahead'
  <2> SUFFICES ASSUME joins = 0, model <= 1
               PROVE  /\ \A e \in Events : Copies(e)' # {} =>
                           /\ dispatch'[1].event < e
                           /\ \A o \in Observers, f \in Events : seen[o][f] > 0 => f < e
                      /\ dispatch'[1] # Idle =>
                           \A o \in Observers, f \in Events : seen[o][f] > 0 => f <= dispatch'[1].event
    BY <1>4 DEF Ahead
  <2>1. model = 1
    BY <1>0, <1>1 DEF Begins
  <2>2. 1..Len(queues) = {c} /\ Len(queues') = Len(queues)
    <3>1. Len(queues) <= 1
      BY QueuesTyped DEF Counted, LoopsConsumer
    <3>2. c = 1 /\ Len(queues) = 1
      BY <3>1, QueuesTyped
    <3>3. Len(queues') = Len(queues)
      BY QueueLengths DEF Begins, EventLeaves
    <3> QED
      BY <3>2, <3>3
  <2>3. ASSUME NEW e \in Events, Copies(e)' # {}
        PROVE  /\ h < e
               /\ \A o \in Observers, f \in Events : seen[o][f] > 0 => f < e
    <3>1. c \in Copies(e)'
      BY <2>2, <2>3 DEF Copies
    <3>2. h < e /\ Copies(e) # {}
      BY <1>3, <3>1
    <3> QED
      BY <3>2 DEF Ahead
  <2>4. \A o \in Observers, f \in Events : seen[o][f] > 0 => f < h
    BY <1>3 DEF Ahead
  <2>5. dispatch'[1] = Idle \/ dispatch'[1].event = h
    BY <1>4, <2>1
  <2> QED
    BY <1>5, <1>6, <2>3, <2>4, <2>5 DEF Events
<1> QED
  BY <1>3, <1>7, <1>8, <1>9

LEMMA CallingKeepsSeen ==
  ASSUME BusInv, Counted, RoundInv, SeenInv, UNCHANGED <<joins, model, published>>,
         NEW m \in 1..model, NEW p \in Observers, NEW r \in Rounds, Calls(m, p, r)
  PROVE  SeenInv'
<1> USE DEF SeenInv
<1>1. /\ m \in Channels /\ 1 \in Channels /\ model \in Nat /\ joins \in Nat
      /\ published \in Nat
  BY ChannelsSuffice DEF BusInv, BusTypes, Counted
<1>2. PICK v \in Events : v = dispatch[m].event
  BY DEF Calls
<1>3. /\ dispatch \in [Channels -> Rounds] /\ queues' = queues
      /\ p \in dispatch[m].todo /\ dispatch'[m] = r
      /\ \A n \in Channels : n # m => dispatch'[n] = dispatch[n]
      /\ r = Idle \/ r.event = v
      /\ \A o \in r.todo : r.call = "OnNext" =>
           o \in dispatch[m].todo \ {p} /\ dispatch[m].call = "OnNext"
  BY <1>1, <1>2 DEF Calls, RoundInv
<1>4. Idle.event = 0 /\ Idle.todo = {} /\ dispatch[m] # Idle
  BY <1>3 DEF Idle, Round, NoEvent
<1>5. Sorted' /\ \A e \in Events : Copies(e)' = Copies(e)
  BY <1>3 DEF Sorted, Copies
<1>6. /\ \A o \in Observers, e \in Events : seen[o][e] \in Nat
      /\ \/ seen' = seen
         \/ /\ dispatch[m].call = "OnNext"
            /\ seen'[p][v] = seen[p][v] + 1
            /\ \A o \in Observers, e \in Events : o # p \/ e # v => seen'[o][e] = seen[o][e]
  BY <1>2, OneMoreCall DEF Calls, RoundInv
<1>7. v <= published /\ v \in Nat
  BY <1>1, <1>2 DEF Known, Events
<1>8. Known'
  <2>1. \A n \in Channels : dispatch'[n].event <= published
    BY <1>1, <1>3, <1>4, <1>7 DEF Known
  <2>2. \A o \in Observers, e \in Events : seen'[o][e] > 0 => e <= published
    BY <1>6, <1>7 DEF Known
  <2> QED
    BY <1>5, <2>1, <2>2 DEF Known
<1>9. Account'
  <2> SUFFICES ASSUME NEW o \in Observers, NEW e \in Events
               PROVE  seen'[o][e] + Cardinality(Copies(e)) + Cardinality(Due(o, e)') <= 1 + joins
    BY <1>5 DEF Account
  <2>1. /\ seen[o][e] \in Nat
        /\ seen[o][e] + Cardinality(Copies(e)) + Cardinality(Due(o, e)) <= 1 + joins
    BY <1>6 DEF Account
  <2>2. /\ IsFiniteSet(Copies(e)) /\ Cardinality(Copies(e)) \in Nat
        /\ IsFiniteSet(Due(o, e)) /\ Cardinality(Due(o, e)) \in Nat
    BY FiniteCounts
  <2>3. Due(o, e)' \subseteq Due(o, e)
    BY <1>2, <1>3, <1>4 DEF Due
  <2>4. /\ Cardinality(Due(o, e)') \in Nat /\ Cardinality(Due(o, e)') <= Cardinality(Due(o, e))
        /\ \A x \in Due(o, e) : x \notin Due(o, e)' =>
             Cardinality(Due(o, e)') + 1 <= Cardinality(Due(o, e))
    BY <2>2, <2>3, FewerElements
  <2>5. CASE seen'[o][e] = seen[o][e]
    BY <1>1, <2>1, <2>2, <2>4, <2>5
  <2>6. CASE /\ o = p /\ e = v /\ dispatch[m].call = "OnNext"
             /\ seen'[p][v] = seen[p][v] + 1
    <3>1. m \in Due(o, e)
      BY <1>1, <1>2, <1>3, <2>6 DEF Due
    <3>2. m \notin Due(o, e)'
      BY <1>3, <2>6 DEF Due
    <3> QED
      BY <1>1, <2>1, <2>2, <2>4, <2>6, <3>1, <3>2
  <2> QED
    BY <1>6, <2>5, <2>6
<1>10. Ahead'
  <2> SUFFICES ASSUME joins = 0, model <= 1
               PROVE  /\ \A e \in Events : Copies(e) # {} =>
                           /\ dispatch'[1].event < e
                           /\ \A o \in Observers, f \in Events : seen'[o][f] > 0 => f < e
                      /\ dispatch'[1] # Idle =>
                           \A o \in Observers, f \in Events : seen'[o][f] > 0 => f <= dispatch'[1].event
    BY <1>5 DEF Ahead
  <2>1. m = 1
    BY <1>1
  <2>2. \A o \in Observers, f \in Events : seen'[o][f] > 0 => f <= v
    BY <1>2, <1>4, <1>6, <1>7, <2>1 DEF Ahead
  <2>3. \A e \in Events : Copies(e) # {} => v < e
    BY <1>2, <2>1 DEF Ahead
  <2>4. dispatch'[1] = Idle \/ dispatch'[1].event = v
    BY <1>3, <2>1
  <2> QED
    BY <1>4, <1>7, <2>2, <2>3, <2>4 DEF Events
<1> QED
  BY <1>5, <1>8, <1>9, <1>10

LEMMA SeenInvariant == Spec => []SeenInv
<1>1. Init => SeenInv
  <2> SUFFICES ASSUME Init PROVE SeenInv
    OBVIOUS
  <2>1. Len(queues) = 0
    BY EmptySeq DEF Init
  <2>2. /\ \A e \in Events : Copies(e) = {}
        /\ \A o \in Observers, e \in Events : Due(o, e) = {} /\ seen[o][e] = 0
    BY <2>1 DEF Init, Copies, Due, Idle, Round
  <2>3. \A m \in Channels : dispatch[m].event = 0
    BY DEF Init, Idle, Round, NoEvent
  <2>4. Known /\ Ahead
    BY <2>2, <2>3 DEF Init, Known, Ahead
  <2>5. Account
    <3>1. Cardinality({}) = 0 /\ joins = 0
      BY FS_EmptySet DEF Init
    <3> QED
      BY <2>2, <3>1 DEF Account
  <2> QED
    BY <2>1, <2>4, <2>5 DEF SeenInv, Sorted
<1>2. BusInv /\ Counted /\ RoundInv /\ SeenInv /\ [Next]_vars => SeenInv'
  <2> SUFFICES ASSUME BusInv, Counted, RoundInv, SeenInv, [Next]_vars PROVE SeenInv'
    OBVIOUS
  <2>1. CASE DispatchStep
    BY <2>1, DispatchSteps, BeginningKeepsSeen, CallingKeepsSeen
  <2> QED
    BY <2>1, OthersKeepSeen
<1> QED
  BY <1>1, <1>2, BusInvariant, CountedInvariant, RoundInvariant, PTL DEF Spec

\* However often the bus had to connect, an observer sees an event at most once, and
\* once more for each Observe that added a consumer.
THEOREM EventsAreSeenOnce == Spec => []AtMostOnce
<1>1. BusInv /\ Counted /\ RoundInv /\ SeenInv => AtMostOnce
  <2> SUFFICES ASSUME BusInv, Counted, RoundInv, SeenInv, NEW o \in Observers, NEW e \in Events
               PROVE  seen[o][e] <= 1 + joins
    BY DEF AtMostOnce
  <2>1. Cardinality(Copies(e)) \in Nat /\ Cardinality(Due(o, e)) \in Nat
    BY FiniteCounts
  <2>2. seen[o][e] \in Nat /\ joins \in Nat
    BY DEF RoundInv, Counted
  <2> QED
    BY <2>1, <2>2 DEF SeenInv, Account
<1> QED
  BY <1>1, BusInvariant, CountedInvariant, RoundInvariant, SeenInvariant, PTL

\* On the bus's first channel and with one consumer, events are seen in the order of
\* their publication, whatever fails.
THEOREM EventsAreSeenInOrder == Spec => InOrder
<1>1. BusInv /\ Counted /\ RoundInv /\ SeenInv /\ [Next]_vars =>
        [\A o \in Observers, e \in Events :
           seen'[o][e] > seen[o][e] /\ joins = 0 /\ model = 1 =>
             \A f \in Events : f > e => seen[o][f] = 0]_vars
  <2> SUFFICES ASSUME BusInv, Counted, RoundInv, SeenInv, [Next]_vars,
                      NEW o \in Observers, NEW e \in Events,
                      seen'[o][e] > seen[o][e], joins = 0, model = 1,
                      NEW f \in Events, f > e
               PROVE  seen[o][f] = 0
    OBVIOUS
  <2>0. e \in Nat /\ f \in Nat
    BY DEF Events
  <2>1. seen[o][e] \in Nat /\ seen[o][f] \in Nat
    BY DEF RoundInv
  <2>2. seen' # seen
    BY <2>1
  <2>3. DispatchStep
    BY <2>2, OtherSteps
  <2>4. PICK m \in 1..model, p \in Observers, r \in Rounds : Calls(m, p, r)
    BY <2>2, <2>3, DispatchSteps DEF Begins
  <2>5. m = 1 /\ dispatch[1].event \in Events /\ dispatch[1] # Idle
    BY <2>4 DEF Calls, Idle, Round
  <2>6. e = dispatch[1].event
    BY <2>1, <2>2, <2>4, <2>5, OneMoreCall DEF Calls, RoundInv
  <2> QED
    BY <2>0, <2>1, <2>5, <2>6 DEF SeenInv, Ahead
<1> QED
  BY <1>1, BusInvariant, CountedInvariant, RoundInvariant, SeenInvariant, PTL DEF Spec, InOrder
=============================================================================
