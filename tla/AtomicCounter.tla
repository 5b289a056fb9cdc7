--------------------------- MODULE AtomicCounter ---------------------------
(***************************************************************************)
(* What the Counter sample's clients may expect of the service: every      *)
(* request is one indivisible operation on one number, or fails without    *)
(* an effect.                                                              *)
(***************************************************************************)
EXTENDS Integers

CONSTANTS Increments, Decrements, Reads, First

Requests == Increments \union Decrements \union Reads

VARIABLES
  count,    \* the number
  answer    \* answer[r]: what request r was answered

vars == <<count, answer>>

Step(r) == IF r \in Increments THEN 1 ELSE IF r \in Decrements THEN -1 ELSE 0

NoAnswer == [kind |-> "none", value |-> 0]

Init ==
  /\ count = First
  /\ answer = [r \in Requests |-> NoAnswer]

Apply(r) ==
  /\ answer[r] = NoAnswer
  /\ count' = count + Step(r)
  /\ answer' = [answer EXCEPT ![r] = [kind |-> "number", value |-> count + Step(r)]]

Fail(r) ==
  /\ answer[r] = NoAnswer
  /\ answer' = [answer EXCEPT ![r] = [kind |-> "conflict", value |-> 0]]
  /\ UNCHANGED count

Next == \E r \in Requests : Apply(r) \/ Fail(r)

Spec == Init /\ [][Next]_vars
=============================================================================
