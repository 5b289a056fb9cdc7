----------------------------- MODULE RpcClient -----------------------------
(***************************************************************************)
(* RabbitServiceClient: what the proxy does for each invocation.  Four     *)
(* threads touch a call: the caller's (Invoke and the continuation of      *)
(* InvokeRequestAsync), the channel's consumer thread (a response or a     *)
(* basic.return), the two-minute timer's callback, and whoever cancels the *)
(* caller's token.  They meet in the _requests dictionary and in the       *)
(* call's TaskCompletionSource, so each access to either is its own step.  *)
(*                                                                         *)
(* Filters around InvokeRequestAsync are left out here.  Creating the      *)
(* timer, TryAdd and BasicPublish (lines 176-198) are one step: nothing    *)
(* else knows the call before TryAdd, and the timer has two minutes.       *)
(***************************************************************************)
EXTENDS RpcBroker

VARIABLES
  phase,            \* phase[c]: where Invoke / InvokeRequestAsync stands
  requests,         \* the keys of _requests
  held,             \* held[c]: message whose handler has looked c up
  tcs,              \* tcs[c]: what completed the TaskCompletionSource
  status,           \* executedContext.Status, once set
  exception,        \* executedContext.Exception, what the caller is thrown
  timer,            \* the timeout registration and its callback
  reg,              \* the CancellationTokenRegistration that broadcasts
  callerCancelled   \* calls whose parent token has been cancelled

clientVars ==
  <<phase, requests, held, tcs, status, exception, timer, reg, callerCancelled>>

Phases == {"idle", "invoked", "awaiting", "closing", "returned"}
Completions == {"open", "timeout"} \union MessageKinds
RequestStatus == {"Sucess", "Aborted", "TimedOut", "ServerError", "ClientError"}
Exceptions == {"none", "OperationCanceled", "Aggregate", "Timeout", "Client"}
TimerStates == {"unset", "armed", "removed", "marked", "completed", "over"}
RegStates == {"none", "active", "fired", "disposed"}

ClientTypeOK ==
  /\ phase \in [Calls -> Phases]
  /\ requests \subseteq Calls
  /\ held \in [Calls -> MessageKinds \union {"nothing"}]
  /\ tcs \in [Calls -> Completions]
  /\ status \in [Calls -> RequestStatus \union {"unset"}]
  /\ exception \in [Calls -> Exceptions]
  /\ timer \in [Calls -> TimerStates]
  /\ reg \in [Calls -> RegStates]
  /\ callerCancelled \subseteq Calls

ClientInit ==
  /\ phase = [c \in Calls |-> "idle"]
  /\ requests = {}
  /\ held = [c \in Calls |-> "nothing"]
  /\ tcs = [c \in Calls |-> "open"]
  /\ status = [c \in Calls |-> "unset"]
  /\ exception = [c \in Calls |-> "none"]
  /\ timer = [c \in Calls |-> "unset"]
  /\ reg = [c \in Calls |-> "none"]
  /\ callerCancelled = {}

\* What the continuation of `await tcs.Task` makes of each completion.
StatusOf(kind) ==
  CASE kind = "canceled" -> "Aborted"
    [] kind = "exception" -> "ServerError"
    [] kind = "timeout" -> "TimedOut"
    [] kind = "unroutable" -> "ClientError"
    [] OTHER -> "Sucess"

ExceptionOf(kind) ==
  CASE kind = "canceled" -> "OperationCanceled"
    [] kind = "exception" -> "Aggregate"
    [] kind = "timeout" -> "Timeout"
    [] kind = "unroutable" -> "Client"
    [] OTHER -> "none"
-----------------------------------------------------------------------------
\* The caller's thread.

Invoke(c) ==
  /\ phase[c] = "idle"
  /\ phase' = [phase EXCEPT ![c] = "invoked"]
  /\ reg' = [reg EXCEPT ![c] = "active"]
  /\ UNCHANGED <<requests, held, tcs, status, exception, timer, callerCancelled>>
  /\ UNCHANGED brokerVars

SendRequest(c) ==
  /\ phase[c] = "invoked"
  /\ phase' = [phase EXCEPT ![c] = "awaiting"]
  /\ requests' = requests \union {c}
  /\ timer' = [timer EXCEPT ![c] = "armed"]
  /\ PublishRequest(c)
  /\ UNCHANGED <<held, tcs, status, exception, reg, callerCancelled>>

\* The code after `await tcs.Task`, to the end of the using block of the
\* registration, and then the disposal of the timer's registration: that waits
\* for a callback that another thread is executing.
Resume(c) ==
  /\ phase[c] = "awaiting"
  /\ tcs[c] # "open"
  /\ phase' = [phase EXCEPT ![c] = "closing"]
  /\ status' = [status EXCEPT ![c] = StatusOf(tcs[c])]
  /\ exception' = [exception EXCEPT ![c] = ExceptionOf(tcs[c])]
  /\ reg' = [reg EXCEPT ![c] = "disposed"]
  /\ UNCHANGED <<requests, held, tcs, timer, callerCancelled>>
  /\ UNCHANGED brokerVars

\* Mutant: the registration is disposed without waiting for its callback.
ReturnAtOnce(c) ==
  /\ phase[c] = "closing"
  /\ phase' = [phase EXCEPT ![c] = "returned"]
  /\ timer' = [timer EXCEPT ![c] = IF @ = "armed" THEN "over" ELSE @]
  /\ UNCHANGED <<requests, held, tcs, status, exception, reg, callerCancelled>>
  /\ UNCHANGED brokerVars

Return(c) ==
  /\ phase[c] = "closing"
  /\ timer[c] \in {"armed", "over"}
  /\ phase' = [phase EXCEPT ![c] = "returned"]
  /\ timer' = [timer EXCEPT ![c] = "over"]
  /\ UNCHANGED <<requests, held, tcs, status, exception, reg, callerCancelled>>
  /\ UNCHANGED brokerVars

\* The caller's token is cancelled, possibly before the request is sent.
CallerCancel(c) ==
  /\ reg[c] = "active"
  /\ callerCancelled' = callerCancelled \union {c}
  /\ reg' = [reg EXCEPT ![c] = "fired"]
  /\ BroadcastCancel(c)
  /\ UNCHANGED <<phase, requests, held, tcs, status, exception, timer>>
-----------------------------------------------------------------------------
\* The consumer's thread: a lookup in _requests, then an attempt to complete.

\* Mutant: a response completes whatever call is waiting.
ReceiveUncorrelated(m) ==
  /\ held[m.call] = "nothing"
  /\ inbound' = inbound \ {m}
  /\ held' = [c \in Calls |-> IF c \in requests THEN m.kind ELSE held[c]]
  /\ UNCHANGED <<phase, requests, tcs, status, exception, timer, reg, callerCancelled>>
  /\ UNCHANGED <<queued, delivered, site, tag, cancels, link>>

Receive(m) ==
  /\ held[m.call] = "nothing"
  /\ inbound' = inbound \ {m}
  /\ held' = IF m.call \in requests THEN [held EXCEPT ![m.call] = m.kind] ELSE held
  /\ UNCHANGED <<phase, requests, tcs, status, exception, timer, reg, callerCancelled>>
  /\ UNCHANGED <<queued, delivered, site, tag, cancels, link>>

OnResponse(c) ==
  \E m \in inbound : m.call = c /\ m.kind # "unroutable" /\ Receive(m)

OnBasicReturn(c) ==
  \E m \in inbound : m.call = c /\ m.kind = "unroutable" /\ Receive(m)

TryComplete(c) ==
  /\ held[c] # "nothing"
  /\ tcs' = IF tcs[c] = "open" THEN [tcs EXCEPT ![c] = held[c]] ELSE tcs
  /\ held' = [held EXCEPT ![c] = "nothing"]
  /\ UNCHANGED <<phase, requests, status, exception, timer, reg, callerCancelled>>
  /\ UNCHANGED brokerVars
-----------------------------------------------------------------------------
\* The timer's callback, statement by statement.

\* Mutant: the callback looks the call up and leaves it in _requests.
TimerLooksUp(c) ==
  /\ timer[c] = "armed"
  /\ timer' = [timer EXCEPT ![c] = IF c \in requests THEN "removed" ELSE "over"]
  /\ UNCHANGED <<phase, requests, held, tcs, status, exception, reg, callerCancelled>>
  /\ UNCHANGED brokerVars

\* Mutant: the callback removes the call and does nothing else.
TimerOnlyRemoves(c) ==
  /\ timer[c] = "armed"
  /\ requests' = requests \ {c}
  /\ timer' = [timer EXCEPT ![c] = "over"]
  /\ UNCHANGED <<phase, held, tcs, status, exception, reg, callerCancelled>>
  /\ UNCHANGED brokerVars

TimerRemoves(c) ==
  /\ timer[c] = "armed"
  /\ requests' = requests \ {c}
  /\ timer' = [timer EXCEPT ![c] = IF c \in requests THEN "removed" ELSE "over"]
  /\ UNCHANGED <<phase, held, tcs, status, exception, reg, callerCancelled>>
  /\ UNCHANGED brokerVars

TimerMarks(c) ==
  /\ timer[c] = "removed"
  /\ status' = [status EXCEPT ![c] = "TimedOut"]
  /\ timer' = [timer EXCEPT ![c] = "marked"]
  /\ UNCHANGED <<phase, requests, held, tcs, exception, reg, callerCancelled>>
  /\ UNCHANGED brokerVars

\* TrySetException loses to a response, or its continuation is scheduled
\* elsewhere (the caller has a synchronization context).
TimerFaults(c) ==
  /\ timer[c] = "marked"
  /\ tcs' = IF tcs[c] = "open" THEN [tcs EXCEPT ![c] = "timeout"] ELSE tcs
  /\ timer' = [timer EXCEPT ![c] = "completed"]
  /\ UNCHANGED <<phase, requests, held, status, exception, reg, callerCancelled>>
  /\ UNCHANGED brokerVars

\* TrySetException wins and runs the continuation inside the callback, which
\* disposes the registration before the callback cancels the token.
TimerFaultsInline(c) ==
  /\ timer[c] = "marked"
  /\ tcs[c] = "open"
  /\ tcs' = [tcs EXCEPT ![c] = "timeout"]
  /\ status' = [status EXCEPT ![c] = StatusOf("timeout")]
  /\ exception' = [exception EXCEPT ![c] = ExceptionOf("timeout")]
  /\ reg' = [reg EXCEPT ![c] = "disposed"]
  /\ phase' = [phase EXCEPT ![c] = "returned"]
  /\ timer' = [timer EXCEPT ![c] = "completed"]
  /\ UNCHANGED <<requests, held, callerCancelled>>
  /\ UNCHANGED brokerVars

TimerCancels(c) ==
  /\ timer[c] = "completed"
  /\ timer' = [timer EXCEPT ![c] = "over"]
  /\ IF reg[c] = "active"
     THEN BroadcastCancel(c) /\ reg' = [reg EXCEPT ![c] = "fired"]
     ELSE UNCHANGED <<brokerVars, reg>>
  /\ UNCHANGED <<phase, requests, held, tcs, status, exception, callerCancelled>>

ClientStep(c) ==
  \/ Invoke(c) \/ SendRequest(c) \/ Resume(c) \/ Return(c) \/ CallerCancel(c)
  \/ OnResponse(c) \/ OnBasicReturn(c) \/ TryComplete(c)
  \/ TimerRemoves(c) \/ TimerMarks(c) \/ TimerFaults(c)
  \/ TimerFaultsInline(c) \/ TimerCancels(c)
=============================================================================
