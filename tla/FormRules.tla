------------------------------ MODULE FormRules ------------------------------
(***************************************************************************)
(* The adapters of jquery.validate.unobtrusive.js, which turn the          *)
(* data-val-* attributes of a field into rules for jQuery Validate.        *)
(*                                                                         *)
(* Attributes are a function from the adapters that a field asks for to    *)
(* their parameters; a parameter that is not given, or is empty, is not in *)
(* the latter's domain.  Rules are a function from the names of jQuery     *)
(* Validate's methods to their parameter.  A value stands for its length   *)
(* or its number, the empty one is 0, and all its characters are symbols;  *)
(* as a number it is whole, and written without sign or leading zeros.     *)
(* Messages, and the patterns of email, url and the like, are left out.    *)
(***************************************************************************)
EXTENDS Integers, Sequences

\* Parameters, and names of rules, that JavaScript finds undefined.
Undefined == "undefined"

Given(params, p) == p \in DOMAIN params
NoRules == [r \in {} |-> TRUE]
-----------------------------------------------------------------------------
\* setValidationValues.  A rule that is set again has the new parameter.
SetValidationValues(rules, ruleName, value) ==
  [r \in DOMAIN rules \union {ruleName} |-> IF r = ruleName THEN value ELSE rules[r]]

\* addBool.
Bool(rules, ruleName) == SetValidationValues(rules, ruleName, TRUE)

\* The names of the rules for a minimum, for a maximum and for both that the adapters are
\* registered with.
MinMaxRules ==
  [length |-> [min |-> "minlength", max |-> "maxlength", both |-> "rangelength"],
   range |-> [min |-> "min", max |-> "max", both |-> "range"],
   minlength |-> [min |-> "minlength", max |-> Undefined, both |-> Undefined],
   maxlength |-> [min |-> "minlength", max |-> "maxlength", both |-> Undefined]]

\* Mutant: with a minimum and a maximum, the maximum is forgotten.
MinMaxForgets(rules, names, params) ==
  CASE Given(params, "min") -> SetValidationValues(rules, names.min, params.min)
    [] ~Given(params, "min") /\ Given(params, "max") ->
         SetValidationValues(rules, names.max, params.max)
    [] OTHER -> rules

\* addMinMax.
MinMax(rules, names, params) ==
  CASE Given(params, "min") /\ Given(params, "max") ->
         SetValidationValues(rules, names.both, <<params.min, params.max>>)
    [] Given(params, "min") /\ ~Given(params, "max") ->
         SetValidationValues(rules, names.min, params.min)
    [] ~Given(params, "min") /\ Given(params, "max") ->
         SetValidationValues(rules, names.max, params.max)
    [] OTHER -> rules

\* addSingleVal, for a rule with one parameter; jQuery drops it when that is undefined.
SingleVal(rules, ruleName, params, attribute) ==
  IF Given(params, attribute) THEN SetValidationValues(rules, ruleName, params[attribute])
  ELSE rules

\* The adapter "equalto".  The other field is looked for when the attributes are parsed;
\* jQuery drops the rule when it is not there.
EqualTo(rules, params, fields) ==
  IF params.other \in fields THEN SetValidationValues(rules, "equalTo", params.other)
  ELSE rules

\* The adapter "required".
Required(rules, checkbox) == IF checkbox THEN rules ELSE Bool(rules, "required")

\* The adapter "password".
Password(rules, params) ==
  SingleVal(SingleVal(rules, "minlength", params, "min"), "nonalphamin", params, "nonalphamin")

\* What an adapter makes of its parameters, for a checkbox or another field, in a form
\* with these fields.
Adapt(rules, adapter, params, checkbox, fields) ==
  CASE adapter \in DOMAIN MinMaxRules -> MinMax(rules, MinMaxRules[adapter], params)
    [] adapter = "equalto" -> EqualTo(rules, params, fields)
    [] adapter = "required" -> Required(rules, checkbox)
    [] adapter = "remote" -> SetValidationValues(rules, "remote", TRUE)
    [] adapter = "password" -> Password(rules, params)

\* One turn of parseElement's loop over the adapters.
After(rules, a, attributes, checkbox, fields) ==
  IF a \in DOMAIN attributes THEN Adapt(rules, a, attributes[a], checkbox, fields) ELSE rules

\* The loop, in the order of their registration.
Adapted(attributes, checkbox, fields) ==
  LET Then(rules, a) == After(rules, a, attributes, checkbox, fields)
      lengths == Then(Then(NoRules, "length"), "range")
      bounds == Then(Then(lengths, "minlength"), "maxlength")
      others == Then(Then(bounds, "equalto"), "required")
  IN  Then(Then(others, "remote"), "password")

\* The names of the rules that an adapter makes of its parameters.
MinMaxNames(names, params) ==
  CASE Given(params, "min") /\ Given(params, "max") -> {names.both}
    [] Given(params, "min") /\ ~Given(params, "max") -> {names.min}
    [] ~Given(params, "min") /\ Given(params, "max") -> {names.max}
    [] OTHER -> {}

RuleNames(a, params) ==
  CASE a \in DOMAIN MinMaxRules -> MinMaxNames(MinMaxRules[a], params)
    [] a = "equalto" -> {"equalTo"}
    [] a \in {"required", "remote"} -> {a}
    [] a = "password" -> (IF Given(params, "min") THEN {"minlength"} ELSE {})
                         \union (IF Given(params, "nonalphamin") THEN {"nonalphamin"} ELSE {})

\* Mutant: nothing is added.
ParsedRulesBare(attributes, checkbox, fields) == Adapted(attributes, checkbox, fields)

\* The loop of parseElement, and the rule that it adds to all.
ParsedRules(attributes, checkbox, fields) ==
  Bool(Adapted(attributes, checkbox, fields), "__dummy__")
-----------------------------------------------------------------------------
(***************************************************************************)
(* jQuery Validate's methods, and the two that the script adds.  Most take *)
(* an empty value for one that is optional.                                *)
(***************************************************************************)

Methods == {"__dummy__", "required", "minlength", "maxlength", "rangelength", "min", "max",
            "range", "equalTo", "nonalphamin", "remote"}
Optional == Methods \ {"__dummy__", "required", "equalTo", "nonalphamin"}

\* The digits that a number is written with.
Digits[n \in Nat] == IF n < 10 THEN 1 ELSE 1 + Digits[n \div 10]

\* Whether m is at most n as a text.
TextAtMost(m, n) ==
  IF Digits[m] = Digits[n] THEN m <= n
  ELSE IF Digits[m] < Digits[n] THEN m <= n \div 10^(Digits[n] - Digits[m])
  ELSE m \div 10^(Digits[m] - Digits[n]) < n

\* Whether the method accepts a value.  Parameters are made into numbers, but for those of
\* min and max: these compare the texts of the value and of the attribute.  __dummy__ takes
\* any value, and remote as well: the server has its say later.
Accepts(method, param, value, values) ==
  /\ method = "required" => value > 0
  /\ method = "minlength" => value = 0 \/ value >= param
  /\ method = "maxlength" => value <= param
  /\ method = "min" => value = 0 \/ TextAtMost(param, value)
  /\ method = "max" => value = 0 \/ TextAtMost(value, param)
  /\ method \in {"rangelength", "range"} => value = 0 \/ value \in param[1]..param[2]
  /\ method = "equalTo" => value = values[param]
  /\ method = "nonalphamin" => value >= param

AllAccept(rules, value, values) ==
  \A method \in DOMAIN rules : Accepts(method, rules[method], value, values)
=============================================================================
