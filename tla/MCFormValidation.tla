-------------------------- MODULE MCFormValidation --------------------------
(* Instances of FormValidation for TLC. *)
EXTENDS FormValidation, TLC

CONSTANTS a, b

NoParams == [p \in {} |-> 0]

\* One field for each adapter, and another, which the server checks.
AttributeSetsValue ==
  (a :> {[required |-> NoParams],
         [length |-> [min |-> 1, max |-> 1]],
         [length |-> [max |-> 1]],
         [range |-> [min |-> 1, max |-> 2]],
         [range |-> [min |-> 2]],
         [range |-> [max |-> 2]],
         [minlength |-> [min |-> 2]],
         [maxlength |-> [max |-> 1]],
         [password |-> [min |-> 2, nonalphamin |-> 1]],
         [equalto |-> [other |-> b]],
         [required |-> NoParams, remote |-> NoParams]})
  @@ (b :> {[remote |-> NoParams]})

\* As a text, 10 lies between 1 and 2.
ValuesValue == {0, 1, 10}

\* What the proofs assume of attributes.
ASSUME MCFormAssumption == RulesDiffer
=============================================================================
