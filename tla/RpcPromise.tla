---------------------------- MODULE RpcPromise ----------------------------
(***************************************************************************)
(* What a caller of a RabbitRPC proxy method may rely on, without a broker,*)
(* hosts, deliveries or timers: every invocation ends, once, and what it   *)
(* ends with is backed by something that happened.                         *)
(***************************************************************************)
CONSTANT Calls

VARIABLES
  result,     \* result[c]: how the invocation ended, as its caller sees it
  computed,   \* calls whose action has produced a result in some execution
  wanted      \* calls whose caller has asked for cancellation

vars == <<result, computed, wanted>>

Endings == {"Sucess", "Aborted", "TimedOut", "ServerError", "ClientError"}

Init ==
  /\ result = [c \in Calls |-> "none"]
  /\ computed = {}
  /\ wanted = {}

Invoke(c) ==
  /\ result[c] = "none"
  /\ result' = [result EXCEPT ![c] = "pending"]
  /\ UNCHANGED <<computed, wanted>>

Cancel(c) ==
  /\ result[c] = "pending"
  /\ wanted' = wanted \union {c}
  /\ UNCHANGED <<result, computed>>

\* An execution may also end after its call has ended: the caller timed out.
Execute(c) ==
  /\ result[c] # "none"
  /\ computed' = computed \union {c}
  /\ UNCHANGED <<result, wanted>>

End(c, e) ==
  /\ result[c] = "pending"
  /\ e = "Sucess" => c \in computed
  /\ e = "Aborted" => c \in wanted
  /\ result' = [result EXCEPT ![c] = e]
  /\ UNCHANGED <<computed, wanted>>

Next ==
  \E c \in Calls :
    Invoke(c) \/ Cancel(c) \/ Execute(c) \/ \E e \in Endings : End(c, e)

\* What never happens, and what must.
Safety == Init /\ [][Next]_vars

Spec ==
  /\ Safety
  /\ \A c \in Calls : WF_vars(\E e \in Endings : End(c, e))
=============================================================================
