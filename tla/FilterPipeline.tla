--------------------------- MODULE FilterPipeline ---------------------------
(***************************************************************************)
(* The filter pipelines: the one a service host runs around an action      *)
(* (InvokeActionAsync), and its twin that a client proxy runs around a     *)
(* request (Invoke).  Both sort the registered filters, wrap one chain     *)
(* object around another, and share two contexts between all of them.      *)
(*                                                                         *)
(* A chain object is a link, a filter in one of its roles:                 *)
(*   "init"      IServiceInitializationFilter, or IPrepareRequestFilter    *)
(*   "binding"   IParameterBindingFilter                                   *)
(*   "sync"      IActionFilter, or IRequestFilter                          *)
(*   "async"     IAsyncActionFilter, or IAsyncRequestFilter                *)
(*   "received"  IResponseReceivedFilter                                   *)
(* What filters do is up to them: they set and withdraw a result or an     *)
(* exception, they throw, and an asynchronous one calls its next delegate  *)
(* never, once or again.  A value is named for who has set it.             *)
(***************************************************************************)
EXTENDS Integers, Sequences, FiniteSets, SequencesExt

CONSTANTS
  Filters,     \* registered filters
  Instance,    \* the service, when it is a RabbitService and so a filter
  Orders,      \* IOrderedFilter.Order
  Scopes,      \* FilterScope, of a filter of the host
  HostRoleSets, ClientRoleSets,   \* the roles that one filter may have together
  MaxCalls     \* bound: calls of its next delegate by an asynchronous filter

Nothing == "nothing"
Action == "action"

ASSUME FilterAssumption ==
  /\ Instance \notin Filters
  /\ {Nothing, Action} \intersect (Filters \union {Instance}) = {}
  /\ Orders \subseteq Int /\ Scopes \subseteq Int
  /\ \A R \in HostRoleSets : R \subseteq {"init", "binding", "sync", "async"}
  /\ \A R \in ClientRoleSets : R \subseteq {"init", "sync", "async", "received"}
  /\ IsFiniteSet(Filters)
  /\ MaxCalls \in Nat

VARIABLES
  side,        \* "host" or "client"
  filter,      \* filter[f]: its FilterDescriptor, and its roles
  chain,       \* the links, from the outermost to the innermost
  at,          \* the link that runs; 0 is the caller, one past the last the action
  way,         \* it is called, inside its own code, returned to or thrown to
  calls,       \* calls[i]: how often link i has called its next delegate
  executing,   \* Result and Exception of the context of OnActionExecuting ...
  executed,    \* ... and of the context of OnActionExecuted
  canceled,    \* the latter's Canceled
  open,        \* links that were called and have not returned since
  swallowed    \* whether a filter ate an exception, or did not call its delegate

contexts == <<executing, executed, canceled>>
vars == <<side, filter, chain, at, way, calls, contexts, open, swallowed>>

HostRoles == {"init", "binding", "sync", "async"}
Clear == [result |-> Nothing, exception |-> Nothing]
-----------------------------------------------------------------------------
(***************************************************************************)
(* Building the chain.                                                     *)
(***************************************************************************)

Registration == SetToSeq(Filters)
Place(f) == CHOOSE i \in DOMAIN Registration : Registration[i] = f

\* Mutant: by scope and then by order.
BeforeByScope(fs, f, g) ==
  \/ fs[f].scope < fs[g].scope
  \/ fs[f].scope = fs[g].scope /\ fs[f].order < fs[g].order
  \/ fs[f].scope = fs[g].scope /\ fs[f].order = fs[g].order /\ Place(f) < Place(g)

\* OrderBy(Order).ThenBy(Scope), which is stable.
Before(fs, f, g) ==
  \/ fs[f].order < fs[g].order
  \/ fs[f].order = fs[g].order /\ fs[f].scope < fs[g].scope
  \/ fs[f].order = fs[g].order /\ fs[f].scope = fs[g].scope /\ Place(f) < Place(g)

\* The elements of S in the order of the pairs in R.
Ordered(S, R) ==
  [i \in 1..Cardinality(S) |->
     CHOOSE x \in S : Cardinality({y \in S : <<y, x>> \in R}) = i - 1]

Sorted(fs) == Ordered(Filters, {p \in Filters \X Filters : Before(fs, p[1], p[2])})

RolesOf(fs, f) == IF f = Instance THEN HostRoles ELSE fs[f].roles

\* The role of a filter in one loop over the filters: one that is both synchronous
\* and asynchronous is asynchronous.
RoleIn(fs, loop, f) ==
  IF loop = "action" /\ "async" \in RolesOf(fs, f) THEN {"async"}
  ELSE RolesOf(fs, f) \intersect {IF loop = "action" THEN "sync" ELSE loop}

\* The loops go through the filters in reverse and put each around the chain so far.
Wrap(fs, filters, loop, links) ==
  LET places == DOMAIN filters
      used == Ordered({k \in places : RoleIn(fs, loop, filters[k]) # {}},
                      {p \in places \X places : p[1] < p[2]})
  IN  [i \in DOMAIN used |->
         [filter |-> filters[used[i]],
          role |-> CHOOSE r \in RoleIn(fs, loop, filters[used[i]]) : TRUE]] \o links

HostChain(fs, hasInstance) ==
  LET filters == (IF hasInstance THEN <<Instance>> ELSE <<>>) \o Sorted(fs)
  IN  Wrap(fs, filters, "init", Wrap(fs, filters, "binding", Wrap(fs, filters, "action", <<>>)))

ClientChain(fs) ==
  Wrap(fs, Sorted(fs), "init", Wrap(fs, Sorted(fs), "action", Wrap(fs, Sorted(fs), "received", <<>>)))

Init ==
  /\ side \in {"host", "client"}
  /\ filter \in [Filters -> [order: Orders,
                             scope: IF side = "host" THEN Scopes ELSE {0},
                             roles: IF side = "host" THEN HostRoleSets ELSE ClientRoleSets]]
  /\ chain \in IF side = "client" THEN {ClientChain(filter)}
               ELSE {HostChain(filter, b) : b \in BOOLEAN}
  /\ at = 1 /\ way = "call"
  /\ calls = [i \in DOMAIN chain |-> 0]
  /\ executing = Clear /\ executed = Clear /\ canceled = FALSE
  /\ open = {} /\ swallowed = FALSE
-----------------------------------------------------------------------------
(***************************************************************************)
(* The links.                                                              *)
(***************************************************************************)

Role == IF at \in DOMAIN chain THEN chain[at].role ELSE Nothing
Simple == Role \in {"init", "binding", "received"}

Turn(i, w) == at' = i /\ way' = w

\* An exception that a filter throws leaves the link.
Throw ==
  /\ \/ way = "call" /\ (Simple \/ Role = "sync")
     \/ way = "return" /\ Role = "sync"
     \/ way = "inside"
  /\ Turn(at - 1, "throw")
  /\ UNCHANGED <<side, filter, chain, calls, contexts, open, swallowed>>

\* ServiceInitializationFilterChain, ParameterBindingFilterChain,
\* PrepareRequestFilterChain and ResponseReceivedFilterChain.
CallSimple ==
  /\ way = "call" /\ Simple
  /\ Turn(at + 1, "call")
  /\ UNCHANGED <<side, filter, chain, calls, contexts, open, swallowed>>

\* Links that do nothing on the way back.
PassBack ==
  /\ \/ way = "return" /\ Simple
     \/ way = "throw" /\ (Simple \/ Role = "sync")
  /\ Turn(at - 1, way)
  /\ UNCHANGED <<side, filter, chain, calls, contexts, open, swallowed>>

Me == chain[at].filter
Objections == {[result |-> Me, exception |-> Nothing], [result |-> Nothing, exception |-> Me]}

\* Mutant: what the filter has set is not passed on.
NextForgets(otherwise) ==
  IF executing' = Clear THEN Turn(at + 1, "call") /\ UNCHANGED <<executed, canceled>>
  ELSE Turn(at, otherwise) /\ canceled' = TRUE /\ UNCHANGED executed

\* Mutant: the next link is called whatever the filter has set.
NextAlways(otherwise) == Turn(at + 1, "call") /\ UNCHANGED <<executed, canceled>>

\* The next link, or what a filter has set in its place.
CallNext(otherwise) ==
  IF executing' = Clear THEN Turn(at + 1, "call") /\ UNCHANGED <<executed, canceled>>
  ELSE Turn(at, otherwise) /\ canceled' = TRUE /\ executed' = executing'

\* Mutant: a filter that short-circuits leaves without OnActionExecuted.
CallSyncLeaves ==
  /\ way = "call" /\ Role = "sync"
  /\ executing' \in {executing} \union Objections
  /\ IF executing' = Clear THEN Turn(at + 1, "call") /\ UNCHANGED <<executed, canceled>>
     ELSE Turn(at - 1, "return") /\ canceled' = TRUE /\ executed' = executing'
  /\ open' = open \union {at}
  /\ UNCHANGED <<side, filter, chain, calls, swallowed>>

\* ActionFilterChain and RequestFilterChain: OnActionExecuting ...
CallSync ==
  /\ way = "call" /\ Role = "sync"
  /\ executing' \in {executing} \union Objections
  /\ CallNext("return")
  /\ open' = open \union {at}
  /\ UNCHANGED <<side, filter, chain, calls, swallowed>>

\* What a filter may make of the outcome.
Outcomes == {executed, [result |-> Me, exception |-> Nothing]}

\* ... and OnActionExecuted.
ReturnSync ==
  /\ way = "return" /\ Role = "sync"
  /\ executed' \in Outcomes
  /\ Turn(at - 1, "return")
  /\ open' = open \ {at}
  /\ UNCHANGED <<side, filter, chain, calls, executing, canceled, swallowed>>

\* AsyncActionFilterChain and AsyncRequestFilterChain: the filter's own code ...
CallAsync ==
  /\ way = "call" /\ Role = "async"
  /\ Turn(at, "inside")
  /\ calls' = [calls EXCEPT ![at] = 0]
  /\ open' = open \union {at}
  /\ UNCHANGED <<side, filter, chain, contexts, swallowed>>

\* ... which sets a result or an exception, or takes it back,
Object ==
  /\ way = "inside"
  /\ executing' \in IF executing = Clear THEN Objections ELSE {Clear}
  /\ UNCHANGED <<side, filter, chain, at, way, calls, executed, canceled, open, swallowed>>

\* ... calls its next delegate
InvokeNext ==
  /\ way = "inside" /\ calls[at] < MaxCalls
  /\ calls' = [calls EXCEPT ![at] = @ + 1]
  /\ UNCHANGED executing
  /\ CallNext("inside")
  /\ UNCHANGED <<side, filter, chain, open, swallowed>>

\* ... which comes back to it, with an exception or without,
ResumeAsync ==
  /\ way \in {"return", "throw"} /\ Role = "async"
  /\ Turn(at, "inside")
  /\ swallowed' = (swallowed \/ way = "throw")
  /\ UNCHANGED <<side, filter, chain, calls, contexts, open>>

\* ... and returns.
ReturnAsync ==
  /\ way = "inside"
  /\ executed' \in Outcomes
  /\ Turn(at - 1, "return")
  /\ open' = open \ {at}
  /\ swallowed' = (swallowed \/ calls[at] = 0)
  /\ UNCHANGED <<side, filter, chain, calls, executing, canceled>>

AtEnd == at = Len(chain) + 1 /\ way = "call"

\* ExecuteActionAsync and InvokeRequestAsync: a result leaves the exception of an
\* earlier run, and an exception the result.  Action stands for a void action's, too.
Run ==
  /\ AtEnd /\ ~(side = "host" /\ canceled)
  /\ executed' \in {[executed EXCEPT !.result = Action], [executed EXCEPT !.exception = Action]}
  /\ Turn(at - 1, "return")
  /\ UNCHANGED <<side, filter, chain, calls, executing, canceled, open, swallowed>>

\* The host does not run an action after a filter was given its answer.
SkipRun ==
  /\ AtEnd /\ side = "host" /\ canceled
  /\ Turn(at - 1, "return")
  /\ UNCHANGED <<side, filter, chain, calls, contexts, open, swallowed>>
-----------------------------------------------------------------------------
Step ==
  \/ Throw \/ CallSimple \/ PassBack
  \/ CallSync \/ ReturnSync
  \/ CallAsync \/ Object \/ InvokeNext \/ ResumeAsync \/ ReturnAsync
  \/ Run \/ SkipRun

Ended == at = 0

Next == ~Ended /\ Step

Spec == Init /\ [][Next]_vars
-----------------------------------------------------------------------------
(***************************************************************************)
(* Properties.                                                             *)
(***************************************************************************)

Stages == IF side = "host" THEN <<{"init"}, {"binding"}, {"sync", "async"}>>
          ELSE <<{"init"}, {"sync", "async"}, {"received"}>>
Stage(i) == CHOOSE s \in 1..3 : chain[i].role \in Stages[s]

\* Three loops over a reversed list come out in the right order: stage by stage, the
\* service itself first, a lower Order outside a higher one and for equal Orders the
\* wider Scope outside the narrower one; and every filter has its place in each of
\* its stages once.
OuterFirst ==
  /\ \A i, j \in DOMAIN chain : i < j =>
       \/ Stage(i) < Stage(j)
       \/ Stage(i) = Stage(j) /\ chain[i].filter = Instance
       \/ /\ Stage(i) = Stage(j) /\ Instance \notin {chain[i].filter, chain[j].filter}
          /\ LET a == filter[chain[i].filter]
                 b == filter[chain[j].filter]
             IN  a.order < b.order \/ (a.order = b.order /\ a.scope <= b.scope)
  /\ \A f \in Filters, s \in 1..3 :
       Cardinality({i \in DOMAIN chain : chain[i].filter = f /\ Stage(i) = s})
         = IF filter[f].roles \intersect Stages[s] = {} THEN 0 ELSE 1

\* As IActionExecutingContext says, a result or an exception that is set
\* short-circuits the action and the remaining filters, also when a filter further
\* out tries again, until it is taken back.
ShortCircuits ==
  [][executing # Clear /\ executing' = executing => ~AtEnd /\ open' \subseteq open]_vars

\* Executions of the filters nest, whatever they set and however often they call
\* their delegates: each that was called before the present one, and no other, has
\* its end still to come.  Only exceptions tear through.
Nested ==
  ~swallowed /\ way # "throw" =>
    \A i \in DOMAIN chain : chain[i].role \in {"sync", "async"} =>
      (i \in open <=> i < at \/ (i = at /\ way # "call"))

\* A pipeline that returns has an answer, unless a filter swallowed it.
AnswerIsGiven ==
  Ended /\ way = "return" /\ ~swallowed => executed # Clear
=============================================================================
