------------------------ MODULE FormValidationProofs ------------------------
(***************************************************************************)
(* Proofs about FormValidation, for any number of fields, values and       *)
(* attributes, and any order of what the user, the page and the server do. *)
(* The first part is about the rules that the adapters make of attributes, *)
(* the second about the form.                                              *)
(***************************************************************************)
EXTENDS FormValidation, TLAPS

(***************************************************************************)
(* One adapter.                                                            *)
(***************************************************************************)

\* The field that equalto names was there when the attributes were parsed.
Complete(a, params, fields) == a = "equalto" => params.other \in fields

LEMMA SetAccepts ==
  ASSUME NEW prior, NEW name, name \notin DOMAIN prior, NEW param, NEW v, NEW values
  PROVE  /\ DOMAIN SetValidationValues(prior, name, param) = DOMAIN prior \union {name}
         /\ AllAccept(SetValidationValues(prior, name, param), v, values)
              <=> AllAccept(prior, v, values) /\ Accepts(name, param, v, values)
<1> DEFINE set == SetValidationValues(prior, name, param)
<1>1. /\ DOMAIN set = DOMAIN prior \union {name}
      /\ set[name] = param
      /\ \A r \in DOMAIN prior : set[r] = prior[r]
  BY DEF SetValidationValues
<1> HIDE DEF set
<1>2. AllAccept(set, v, values) <=> AllAccept(prior, v, values) /\ Accepts(name, param, v, values)
  <2>1. ASSUME AllAccept(set, v, values)
        PROVE  AllAccept(prior, v, values) /\ Accepts(name, param, v, values)
    <3>1. ASSUME NEW r \in DOMAIN prior
          PROVE  Accepts(r, prior[r], v, values)
      <4>1. Accepts(r, set[r], v, values)
        BY <1>1, <2>1 DEF AllAccept
      <4> QED
        BY <1>1, <4>1
    <3>2. Accepts(name, set[name], v, values)
      BY <1>1, <2>1 DEF AllAccept
    <3> QED
      BY <1>1, <3>1, <3>2 DEF AllAccept
  <2>2. ASSUME AllAccept(prior, v, values), Accepts(name, param, v, values)
        PROVE  AllAccept(set, v, values)
    <3>1. ASSUME NEW r \in DOMAIN prior
          PROVE  Accepts(r, set[r], v, values)
      BY <1>1, <2>2 DEF AllAccept
    <3>2. Accepts(name, set[name], v, values)
      BY <1>1, <2>2
    <3> QED
      BY <1>1, <3>1, <3>2 DEF AllAccept
  <2> QED
    BY <2>1, <2>2
<1> QED
  BY <1>1, <1>2 DEF set

LEMMA MinMaxNamed ==
  /\ DOMAIN MinMaxRules = {"length", "range", "minlength", "maxlength"}
  /\ \A a \in DOMAIN MinMaxRules :
       /\ MinMaxRules[a].min = IF a = "range" THEN "min" ELSE "minlength"
       /\ a # "minlength" => MinMaxRules[a].max = IF a = "range" THEN "max" ELSE "maxlength"
       /\ a \notin {"minlength", "maxlength"} => MinMaxRules[a].both \in {"rangelength", "range"}
BY DEF MinMaxRules

\* Texts with as many digits compare as numbers.
LEMMA TextsCompare ==
  ASSUME NEW m, NEW n, Digits[m] = Digits[n]
  PROVE  TextAtMost(m, n) <=> m <= n
BY DEF TextAtMost

LEMMA MinMaxMeans ==
  ASSUME NEW a \in DOMAIN MinMaxRules, NEW params, Rendered(a, params),
         NEW prior, MinMaxNames(MinMaxRules[a], params) \intersect DOMAIN prior = {},
         NEW v \in Nat, Comparable(a, params, v), NEW values
  PROVE  LET new == MinMax(prior, MinMaxRules[a], params)
         IN  /\ DOMAIN new = DOMAIN prior \union MinMaxNames(MinMaxRules[a], params)
             /\ AllAccept(new, v, values)
                  <=> AllAccept(prior, v, values) /\ (v = 0 \/ Within(v, params))
<1> DEFINE names == MinMaxRules[a]
           new == MinMax(prior, names, params)
<1>1. /\ Given(params, "min") => params.min \in Nat
      /\ Given(params, "max") => params.max \in Nat
  BY DEF Rendered
<1>2. /\ Given(params, "max") => a # "minlength"
      /\ Given(params, "min") /\ Given(params, "max") => a \notin {"minlength", "maxlength"}
  BY DEF Rendered
<1>3. /\ names.min = IF a = "range" THEN "min" ELSE "minlength"
      /\ Given(params, "max") => names.max = IF a = "range" THEN "max" ELSE "maxlength"
      /\ Given(params, "min") /\ Given(params, "max") => names.both \in {"rangelength", "range"}
  BY <1>2, MinMaxNamed
<1>4. MinMaxNames(names, params) \intersect DOMAIN prior = {}
  OBVIOUS
<1> HIDE DEF names
<1>5. CASE Given(params, "min") /\ Given(params, "max")
  <2> DEFINE param == <<params.min, params.max>>
             set == SetValidationValues(prior, names.both, param)
  <2>1. new = set
    BY <1>5 DEF MinMax
  <2>2. MinMaxNames(names, params) = {names.both}
    BY <1>5 DEF MinMaxNames
  <2>3. Accepts(names.both, param, v, values) <=> v = 0 \/ Within(v, params)
    <3>1. Accepts(names.both, param, v, values) <=> v = 0 \/ v \in params.min..params.max
      BY <1>3, <1>5 DEF Accepts
    <3> QED
      BY <1>1, <1>5, <3>1 DEF Within
  <2>4. names.both \notin DOMAIN prior
    BY <1>4, <2>2
  <2> HIDE DEF param
  <2>5. /\ DOMAIN set = DOMAIN prior \union {names.both}
        /\ AllAccept(set, v, values)
             <=> AllAccept(prior, v, values) /\ Accepts(names.both, param, v, values)
    BY <2>4, SetAccepts
  <2> HIDE DEF set, new
  <2> QED
    BY <2>1, <2>2, <2>3, <2>5 DEF names, new
<1>6. CASE Given(params, "min") /\ ~Given(params, "max")
  <2> DEFINE param == params.min
             set == SetValidationValues(prior, names.min, param)
  <2>1. new = set
    BY <1>6 DEF MinMax
  <2>2. MinMaxNames(names, params) = {names.min}
    BY <1>6 DEF MinMaxNames
  <2>3. Accepts(names.min, param, v, values) <=> v = 0 \/ Within(v, params)
    <3>1. a = "range" /\ v # 0 => (TextAtMost(param, v) <=> param <= v)
      BY <1>6, TextsCompare DEF Comparable
    <3>2. Accepts(names.min, param, v, values) <=> v = 0 \/ v >= param
      BY <1>1, <1>3, <1>6, <3>1 DEF Accepts
    <3> QED
      BY <1>6, <3>2 DEF Within
  <2>4. names.min \notin DOMAIN prior
    BY <1>4, <2>2
  <2> HIDE DEF param
  <2>5. /\ DOMAIN set = DOMAIN prior \union {names.min}
        /\ AllAccept(set, v, values)
             <=> AllAccept(prior, v, values) /\ Accepts(names.min, param, v, values)
    BY <2>4, SetAccepts
  <2> HIDE DEF set, new
  <2> QED
    BY <2>1, <2>2, <2>3, <2>5 DEF names, new
<1>7. CASE ~Given(params, "min") /\ Given(params, "max")
  <2> DEFINE param == params.max
             set == SetValidationValues(prior, names.max, param)
  <2>1. new = set
    BY <1>7 DEF MinMax
  <2>2. MinMaxNames(names, params) = {names.max}
    BY <1>7 DEF MinMaxNames
  <2>3. Accepts(names.max, param, v, values) <=> v = 0 \/ Within(v, params)
    <3>1. a = "range" /\ v # 0 => (TextAtMost(v, param) <=> v <= param)
      BY <1>7, TextsCompare DEF Comparable
    <3>2. Accepts(names.max, param, v, values) <=> v = 0 \/ v <= param
      BY <1>1, <1>3, <1>7, <3>1 DEF Accepts
    <3> QED
      BY <1>7, <3>2 DEF Within
  <2>4. names.max \notin DOMAIN prior
    BY <1>4, <2>2
  <2> HIDE DEF param
  <2>5. /\ DOMAIN set = DOMAIN prior \union {names.max}
        /\ AllAccept(set, v, values)
             <=> AllAccept(prior, v, values) /\ Accepts(names.max, param, v, values)
    BY <2>4, SetAccepts
  <2> HIDE DEF set, new
  <2> QED
    BY <2>1, <2>2, <2>3, <2>5 DEF names, new
<1>8. CASE ~Given(params, "min") /\ ~Given(params, "max")
  <2>1. new = prior /\ MinMaxNames(names, params) = {}
    BY <1>8 DEF MinMax, MinMaxNames
  <2>2. Within(v, params)
    BY <1>8 DEF Within
  <2> HIDE DEF new
  <2> QED
    BY <2>1, <2>2 DEF names, new
<1> QED
  BY <1>5, <1>6, <1>7, <1>8

\* A single value that may be absent.
LEMMA SingleValMeans ==
  ASSUME NEW prior, NEW name, name \notin DOMAIN prior, NEW params, NEW p, NEW v, NEW values
  PROVE  LET new == SingleVal(prior, name, params, p)
         IN  /\ DOMAIN new = DOMAIN prior \union (IF Given(params, p) THEN {name} ELSE {})
             /\ AllAccept(new, v, values)
                  <=> /\ AllAccept(prior, v, values)
                      /\ Given(params, p) => Accepts(name, params[p], v, values)
<1> DEFINE param == params[p]
           set == SetValidationValues(prior, name, param)
           new == SingleVal(prior, name, params, p)
<1>1. CASE Given(params, p)
  <2>1. new = set
    BY <1>1 DEF SingleVal
  <2> HIDE DEF param
  <2>2. /\ DOMAIN set = DOMAIN prior \union {name}
        /\ AllAccept(set, v, values)
             <=> AllAccept(prior, v, values) /\ Accepts(name, param, v, values)
    BY SetAccepts
  <2> HIDE DEF new, set
  <2> QED
    BY <1>1, <2>1, <2>2 DEF new, param
<1>2. CASE ~Given(params, p)
  <2>1. new = prior
    BY <1>2 DEF SingleVal
  <2> HIDE DEF new
  <2> QED
    BY <1>2, <2>1 DEF new
<1> QED
  BY <1>1, <1>2

\* What an adapter makes of its parameters accepts the values that the attribute asks
\* for; the server's say comes later.
Translates(new, a, params, checkbox, prior, v, values) ==
  /\ DOMAIN prior \subseteq DOMAIN new
  /\ DOMAIN new \subseteq DOMAIN prior \union RuleNames(a, params)
  /\ a = "remote" => "remote" \in DOMAIN new
  /\ AllAccept(new, v, values)
       <=> AllAccept(prior, v, values) /\ (a # "remote" => Asks(a, params, checkbox, v, values))

LEMMA SetTranslates ==
  ASSUME NEW a, NEW params, NEW checkbox, NEW prior, NEW v, NEW values,
         NEW name, NEW param, name \notin DOMAIN prior, RuleNames(a, params) = {name},
         a = "remote" => name = "remote",
         Accepts(name, param, v, values)
           <=> (a # "remote" => Asks(a, params, checkbox, v, values))
  PROVE  Translates(SetValidationValues(prior, name, param), a, params, checkbox, prior, v, values)
<1> DEFINE set == SetValidationValues(prior, name, param)
<1>1. /\ DOMAIN set = DOMAIN prior \union {name}
      /\ AllAccept(set, v, values) <=> AllAccept(prior, v, values) /\ Accepts(name, param, v, values)
  BY SetAccepts
<1> HIDE DEF set
<1>2. Translates(set, a, params, checkbox, prior, v, values)
  BY <1>1 DEF Translates
<1> QED
  BY <1>2 DEF set

LEMMA AdaptMeans ==
  ASSUME NEW a \in Adapters, NEW params, Rendered(a, params), NEW checkbox,
         NEW fields, Complete(a, params, fields),
         NEW prior, RuleNames(a, params) \intersect DOMAIN prior = {},
         NEW v \in Nat, Comparable(a, params, v), NEW values
  PROVE  Translates(Adapt(prior, a, params, checkbox, fields), a, params, checkbox, prior, v, values)
<1> DEFINE new == Adapt(prior, a, params, checkbox, fields)
<1>1. CASE a \in DOMAIN MinMaxRules
  <2>1. new = MinMax(prior, MinMaxRules[a], params)
    BY <1>1, MinMaxNamed DEF Adapt
  <2>2. RuleNames(a, params) = MinMaxNames(MinMaxRules[a], params)
    BY <1>1, MinMaxNamed DEF RuleNames
  <2>3. Asks(a, params, checkbox, v, values) <=> v = 0 \/ Within(v, params)
    BY <1>1, MinMaxNamed DEF Asks
  <2>4. a # "remote"
    BY <1>1, MinMaxNamed
  <2> HIDE DEF new
  <2>5. /\ DOMAIN new = DOMAIN prior \union MinMaxNames(MinMaxRules[a], params)
        /\ AllAccept(new, v, values) <=> AllAccept(prior, v, values) /\ (v = 0 \/ Within(v, params))
    BY <1>1, <2>1, <2>2, MinMaxMeans
  <2>6. Translates(new, a, params, checkbox, prior, v, values)
    BY <2>2, <2>3, <2>4, <2>5 DEF Translates
  <2> QED
    BY <2>6 DEF new
<1>2. CASE a = "equalto"
  <2>1. new = EqualTo(prior, params, fields)
    BY <1>2, MinMaxNamed DEF Adapt
  <2>2. EqualTo(prior, params, fields) = SetValidationValues(prior, "equalTo", params.other)
    BY <1>2 DEF EqualTo, Complete
  <2>3. RuleNames(a, params) = {"equalTo"} /\ "equalTo" \notin DOMAIN prior
    BY <1>2, MinMaxNamed DEF RuleNames
  <2>4. Accepts("equalTo", params.other, v, values) <=> Asks(a, params, checkbox, v, values)
    BY <1>2 DEF Accepts, Asks
  <2> HIDE DEF new
  <2>5. Translates(new, a, params, checkbox, prior, v, values)
    BY <1>2, <2>1, <2>2, <2>3, <2>4, SetTranslates
  <2> QED
    BY <2>5 DEF new
<1>3. CASE a = "required"
  <2>1. new = Required(prior, checkbox)
    BY <1>3, MinMaxNamed DEF Adapt
  <2>2. RuleNames(a, params) = {"required"} /\ "required" \notin DOMAIN prior
    BY <1>3, MinMaxNamed DEF RuleNames
  <2> HIDE DEF new
  <2>3. CASE checkbox
    <3>1. new = prior
      BY <2>1, <2>3 DEF Required
    <3>2. Asks(a, params, checkbox, v, values)
      BY <1>3, <2>3 DEF Asks
    <3> QED
      BY <1>3, <3>1, <3>2 DEF Translates, new
  <2>4. CASE ~checkbox
    <3>1. new = SetValidationValues(prior, "required", TRUE)
      BY <2>1, <2>4 DEF Required, Bool
    <3>2. Accepts("required", TRUE, v, values) <=> Asks(a, params, checkbox, v, values)
      BY <1>3, <2>4 DEF Accepts, Asks
    <3>3. Translates(new, a, params, checkbox, prior, v, values)
      BY <1>3, <2>2, <3>1, <3>2, SetTranslates
    <3> QED
      BY <3>3 DEF new
  <2> QED
    BY <2>3, <2>4
<1>4. CASE a = "remote"
  <2>1. new = SetValidationValues(prior, "remote", TRUE)
    BY <1>4, MinMaxNamed DEF Adapt
  <2>2. RuleNames(a, params) = {"remote"} /\ "remote" \notin DOMAIN prior
    BY <1>4, MinMaxNamed DEF RuleNames
  <2>3. Accepts("remote", TRUE, v, values)
    BY DEF Accepts
  <2> HIDE DEF new
  <2>4. Translates(new, a, params, checkbox, prior, v, values)
    BY <1>4, <2>1, <2>2, <2>3, SetTranslates
  <2> QED
    BY <2>4 DEF new
<1>5. CASE a = "password"
  <2> DEFINE bound == SingleVal(prior, "minlength", params, "min")
             bounds == IF Given(params, "min") THEN {"minlength"} ELSE {}
             symbols == IF Given(params, "nonalphamin") THEN {"nonalphamin"} ELSE {}
  <2>1. new = SingleVal(bound, "nonalphamin", params, "nonalphamin")
    BY <1>5, MinMaxNamed DEF Adapt, Password
  <2>2. RuleNames(a, params) = bounds \union symbols
    BY <1>5, MinMaxNamed DEF RuleNames
  <2>3. ~Given(params, "max")
    BY <1>5 DEF Rendered
  <2>4. Asks(a, params, checkbox, v, values)
          <=> /\ Given(params, "min") => Accepts("minlength", params.min, v, values)
              /\ Given(params, "nonalphamin")
                   => Accepts("nonalphamin", params.nonalphamin, v, values)
    <3>1. /\ Given(params, "min") => params.min \in Nat
          /\ Given(params, "nonalphamin") => params.nonalphamin \in Nat
      BY DEF Rendered
    <3> QED
      BY <1>5, <2>3, <3>1 DEF Asks, Accepts, Within
  <2>5. /\ DOMAIN bound = DOMAIN prior \union bounds
        /\ AllAccept(bound, v, values)
             <=> /\ AllAccept(prior, v, values)
                 /\ Given(params, "min") => Accepts("minlength", params.min, v, values)
    <3>1. CASE Given(params, "min")
      <4>1. "minlength" \notin DOMAIN prior
        BY <2>2, <3>1
      <4> QED
        BY <4>1, SingleValMeans
    <3>2. CASE ~Given(params, "min")
      BY <3>2 DEF SingleVal
    <3> QED
      BY <3>1, <3>2
  <2> HIDE DEF bound, new
  <2>6. /\ DOMAIN new = DOMAIN bound \union symbols
        /\ AllAccept(new, v, values)
             <=> /\ AllAccept(bound, v, values)
                 /\ Given(params, "nonalphamin")
                      => Accepts("nonalphamin", params.nonalphamin, v, values)
    <3>1. CASE Given(params, "nonalphamin")
      <4>1. "nonalphamin" \notin DOMAIN bound
        BY <2>2, <2>5, <3>1
      <4> QED
        BY <2>1, <4>1, SingleValMeans
    <3>2. CASE ~Given(params, "nonalphamin")
      BY <2>1, <3>2 DEF SingleVal
    <3> QED
      BY <3>1, <3>2
  <2> HIDE DEF bounds, symbols
  <2>7. Translates(new, a, params, checkbox, prior, v, values)
    BY <1>5, <2>2, <2>4, <2>5, <2>6 DEF Translates
  <2> QED
    BY <2>7 DEF new
<1> QED
  BY <1>1, <1>2, <1>3, <1>4, <1>5, MinMaxNamed DEF Adapters

-----------------------------------------------------------------------------
(***************************************************************************)
(* All the attributes of a field.                                          *)
(***************************************************************************)

\* Attributes as ASP.NET renders them, of which no two are made into the same rule.
Usable(asked) ==
  /\ DOMAIN asked \subseteq Adapters
  /\ \A a \in DOMAIN asked : Rendered(a, asked[a])
  /\ \A a, b \in DOMAIN asked :
       a # b => RuleNames(a, asked[a]) \intersect RuleNames(b, asked[b]) = {}

\* The rules that some of the adapters have made.
SoFar(held, done, asked, checkbox, fields, v, values) ==
  /\ \A r \in DOMAIN held : \E a \in DOMAIN asked \intersect done : r \in RuleNames(a, asked[a])
  /\ AllAccept(held, v, values)
       <=> \A a \in (DOMAIN asked \intersect done) \ {"remote"} :
             Complete(a, asked[a], fields) => Asks(a, asked[a], checkbox, v, values)
  /\ "remote" \in DOMAIN asked \intersect done => "remote" \in DOMAIN held
  /\ "equalTo" \in DOMAIN held /\ "equalto" \in DOMAIN asked =>
       Complete("equalto", asked["equalto"], fields)

LEMMA NamesDiffer ==
  ASSUME NEW a \in Adapters, NEW params, Rendered(a, params)
  PROVE  /\ a # "equalto" => "equalTo" \notin RuleNames(a, params)
         /\ "__dummy__" \notin RuleNames(a, params)
<1>1. CASE a \in DOMAIN MinMaxRules
  <2>1. RuleNames(a, params) = MinMaxNames(MinMaxRules[a], params)
    BY <1>1, MinMaxNamed DEF RuleNames
  <2>2. MinMaxRules[a].min \notin {"equalTo", "__dummy__"}
    BY <1>1, MinMaxNamed
  <2>3. MinMaxRules[a].max \notin {"equalTo", "__dummy__"}
    BY <1>1 DEF MinMaxRules, Undefined
  <2>4. MinMaxRules[a].both \notin {"equalTo", "__dummy__"}
    BY <1>1 DEF MinMaxRules, Undefined
  <2> QED
    BY <2>1, <2>2, <2>3, <2>4 DEF MinMaxNames
<1>2. CASE a \notin DOMAIN MinMaxRules
  BY <1>2, MinMaxNamed DEF RuleNames, Adapters
<1> QED
  BY <1>1, <1>2

LEMMA AfterMeans ==
  ASSUME NEW asked, Usable(asked), NEW checkbox, NEW fields, NEW v \in Nat, NEW values,
         \A b \in DOMAIN asked : Comparable(b, asked[b], v),
         NEW done, NEW held, SoFar(held, done, asked, checkbox, fields, v, values),
         NEW a \in Adapters, a \notin done
  PROVE  SoFar(After(held, a, asked, checkbox, fields), done \union {a},
               asked, checkbox, fields, v, values)
<1> DEFINE new == After(held, a, asked, checkbox, fields)
<1>1. CASE a \notin DOMAIN asked
  <2>1. new = held
    BY <1>1 DEF After
  <2>2. DOMAIN asked \intersect (done \union {a}) = DOMAIN asked \intersect done
    BY <1>1
  <2> HIDE DEF new
  <2>3. SoFar(new, done \union {a}, asked, checkbox, fields, v, values)
    BY <2>1, <2>2 DEF SoFar
  <2> QED
    BY <2>3 DEF new
<1>2. CASE a \in DOMAIN asked /\ ~Complete(a, asked[a], fields)
  <2>1. new = Adapt(held, a, asked[a], checkbox, fields)
    BY <1>2 DEF After
  <2>2. a = "equalto" /\ asked[a].other \notin fields
    BY <1>2 DEF Complete
  <2>3. new = EqualTo(held, asked[a], fields)
    BY <2>1, <2>2, MinMaxNamed DEF Adapt
  <2>4. new = held
    BY <2>2, <2>3 DEF EqualTo
  <2> HIDE DEF new
  <2>5. SoFar(new, done \union {a}, asked, checkbox, fields, v, values)
    BY <1>2, <2>2, <2>4 DEF SoFar
  <2> QED
    BY <2>5 DEF new
<1>3. CASE a \in DOMAIN asked /\ Complete(a, asked[a], fields)
  <2> DEFINE params == asked[a]
  <2>1. new = Adapt(held, a, params, checkbox, fields)
    BY <1>3 DEF After
  <2>2. Rendered(a, params)
    BY <1>3 DEF Usable
  <2>3. RuleNames(a, params) \intersect DOMAIN held = {} /\ Comparable(a, params, v)
    BY <1>3 DEF SoFar, Usable
  <2> HIDE DEF new, params
  <2>4. Translates(new, a, params, checkbox, held, v, values)
    BY <1>3, <2>1, <2>2, <2>3, AdaptMeans DEF params
  <2>5. \A r \in DOMAIN new : \E b \in DOMAIN asked \intersect (done \union {a}) :
                                r \in RuleNames(b, asked[b])
    BY <1>3, <2>4 DEF Translates, SoFar, params
  <2>6. AllAccept(new, v, values)
          <=> AllAccept(held, v, values) /\ (a # "remote" => Asks(a, params, checkbox, v, values))
    BY <2>4 DEF Translates
  <2>7. AllAccept(new, v, values)
          <=> \A b \in (DOMAIN asked \intersect (done \union {a})) \ {"remote"} :
                Complete(b, asked[b], fields) => Asks(b, asked[b], checkbox, v, values)
    BY <1>3, <2>6 DEF SoFar, params
  <2>8. "remote" \in DOMAIN asked \intersect (done \union {a}) => "remote" \in DOMAIN new
    BY <2>4 DEF Translates, SoFar
  <2>9. "equalTo" \in DOMAIN new /\ "equalto" \in DOMAIN asked =>
          Complete("equalto", asked["equalto"], fields)
    <3>1. CASE a = "equalto"
      BY <1>3, <3>1
    <3>2. CASE a # "equalto"
      <4>1. "equalTo" \in DOMAIN new => "equalTo" \in DOMAIN held
        BY <2>2, <2>4, <3>2, NamesDiffer DEF Translates
      <4> QED
        BY <4>1 DEF SoFar
    <3> QED
      BY <3>1, <3>2
  <2>10. SoFar(new, done \union {a}, asked, checkbox, fields, v, values)
    BY <2>5, <2>7, <2>8, <2>9 DEF SoFar
  <2> QED
    BY <2>10 DEF new
<1> QED
  BY <1>1, <1>2, <1>3

\* The rules of a field accept what its attributes ask for, apart from the server.
LEMMA ParsedMeans ==
  ASSUME NEW asked, Usable(asked), NEW checkbox, NEW fields, NEW v \in Nat, NEW values,
         \A a \in DOMAIN asked : Comparable(a, asked[a], v)
  PROVE  LET parsed == ParsedRules(asked, checkbox, fields)
         IN  /\ "__dummy__" \in DOMAIN parsed
             /\ "remote" \in DOMAIN asked => "remote" \in DOMAIN parsed
             /\ ("equalto" \in DOMAIN asked => "equalTo" \in DOMAIN parsed) =>
                  (AllAccept(parsed, v, values)
                     <=> \A a \in DOMAIN asked \ {"remote"} :
                           Asks(a, asked[a], checkbox, v, values))
<1> DEFINE Then(r, a) == After(r, a, asked, checkbox, fields)
           r1 == Then(NoRules, "length")
           r2 == Then(r1, "range")
           r3 == Then(r2, "minlength")
           r4 == Then(r3, "maxlength")
           r5 == Then(r4, "equalto")
           r6 == Then(r5, "required")
           r7 == Then(r6, "remote")
           r8 == Then(r7, "password")
           Made(r, done) == SoFar(r, done, asked, checkbox, fields, v, values)
<1>0. Adapted(asked, checkbox, fields) = r8
  BY DEF Adapted
<1>1. Made(NoRules, {})
  BY DEF SoFar, NoRules, AllAccept
<1>2. ASSUME NEW r, NEW done, Made(r, done), NEW a \in Adapters, a \notin done
      PROVE  Made(Then(r, a), done \union {a})
  BY <1>2, AfterMeans
<1> HIDE DEF Then, Made
<1>3. Made(r1, {"length"})
  <2>1. Made(Then(NoRules, "length"), {} \union {"length"})
    BY <1>1, <1>2 DEF Adapters
  <2> QED
    BY <2>1
<1> HIDE DEF r1
<1>4. Made(r2, {"length", "range"})
  <2>1. Made(Then(r1, "range"), {"length"} \union {"range"})
    BY <1>2, <1>3 DEF Adapters
  <2>2. {"length"} \union {"range"} = {"length", "range"}
    OBVIOUS
  <2> QED
    BY <2>1, <2>2
<1> HIDE DEF r2
<1>5. Made(r3, {"length", "range", "minlength"})
  <2>1. Made(Then(r2, "minlength"), {"length", "range"} \union {"minlength"})
    BY <1>2, <1>4 DEF Adapters
  <2>2. {"length", "range"} \union {"minlength"} = {"length", "range", "minlength"}
    OBVIOUS
  <2> QED
    BY <2>1, <2>2
<1> HIDE DEF r3
<1>6. Made(r4, {"length", "range", "minlength", "maxlength"})
  <2>1. Made(Then(r3, "maxlength"), {"length", "range", "minlength"} \union {"maxlength"})
    BY <1>2, <1>5 DEF Adapters
  <2>2. {"length", "range", "minlength"} \union {"maxlength"}
          = {"length", "range", "minlength", "maxlength"}
    OBVIOUS
  <2> QED
    BY <2>1, <2>2
<1> HIDE DEF r4
<1>7. Made(r5, {"length", "range", "minlength", "maxlength", "equalto"})
  <2>1. Made(Then(r4, "equalto"), {"length", "range", "minlength", "maxlength"} \union {"equalto"})
    BY <1>2, <1>6 DEF Adapters
  <2>2. {"length", "range", "minlength", "maxlength"} \union {"equalto"}
          = {"length", "range", "minlength", "maxlength", "equalto"}
    OBVIOUS
  <2> QED
    BY <2>1, <2>2
<1> HIDE DEF r5
<1>8. Made(r6, {"length", "range", "minlength", "maxlength", "equalto", "required"})
  <2>1. Made(Then(r5, "required"),
             {"length", "range", "minlength", "maxlength", "equalto"} \union {"required"})
    BY <1>2, <1>7 DEF Adapters
  <2>2. {"length", "range", "minlength", "maxlength", "equalto"} \union {"required"}
          = {"length", "range", "minlength", "maxlength", "equalto", "required"}
    OBVIOUS
  <2> QED
    BY <2>1, <2>2
<1> HIDE DEF r6
<1>9. Made(r7, {"length", "range", "minlength", "maxlength", "equalto", "required", "remote"})
  <2>1. Made(Then(r6, "remote"),
             {"length", "range", "minlength", "maxlength", "equalto", "required"}
               \union {"remote"})
    BY <1>2, <1>8 DEF Adapters
  <2>2. {"length", "range", "minlength", "maxlength", "equalto", "required"} \union {"remote"}
          = {"length", "range", "minlength", "maxlength", "equalto", "required", "remote"}
    OBVIOUS
  <2> QED
    BY <2>1, <2>2
<1> HIDE DEF r7
<1>10. Made(r8, Adapters)
  <2>1. Made(Then(r7, "password"),
             {"length", "range", "minlength", "maxlength", "equalto", "required", "remote"}
               \union {"password"})
    BY <1>2, <1>9 DEF Adapters
  <2>2. {"length", "range", "minlength", "maxlength", "equalto", "required", "remote"}
          \union {"password"} = Adapters
    BY DEF Adapters
  <2> QED
    BY <2>1, <2>2
<1> HIDE DEF r8
<1>11. SoFar(r8, Adapters, asked, checkbox, fields, v, values)
  BY <1>10 DEF Made
<1>12. DOMAIN asked \intersect Adapters = DOMAIN asked
  BY DEF Usable
<1>13. "__dummy__" \notin DOMAIN r8
  BY <1>11, NamesDiffer DEF SoFar, Usable
<1> DEFINE parsed == ParsedRules(asked, checkbox, fields)
<1>14. parsed = SetValidationValues(r8, "__dummy__", TRUE)
  BY <1>0 DEF ParsedRules, Bool
<1>15. Accepts("__dummy__", TRUE, v, values)
  BY DEF Accepts
<1> HIDE DEF parsed
<1>16. /\ DOMAIN parsed = DOMAIN r8 \union {"__dummy__"}
       /\ AllAccept(parsed, v, values) <=> AllAccept(r8, v, values)
  BY <1>13, <1>14, <1>15, SetAccepts
<1>17. "remote" \in DOMAIN asked => "remote" \in DOMAIN parsed
  BY <1>11, <1>12, <1>16 DEF SoFar
<1>18. ASSUME "equalto" \in DOMAIN asked => "equalTo" \in DOMAIN parsed
       PROVE  AllAccept(parsed, v, values)
                <=> \A a \in DOMAIN asked \ {"remote"} : Asks(a, asked[a], checkbox, v, values)
  <2>1. "equalto" \in DOMAIN asked => Complete("equalto", asked["equalto"], fields)
    BY <1>11, <1>16, <1>18 DEF SoFar
  <2>2. \A a \in DOMAIN asked : Complete(a, asked[a], fields)
    BY <2>1 DEF Complete
  <2>3. AllAccept(r8, v, values)
          <=> \A a \in DOMAIN asked \ {"remote"} :
                Complete(a, asked[a], fields) => Asks(a, asked[a], checkbox, v, values)
    BY <1>11, <1>12 DEF SoFar
  <2> QED
    BY <1>16, <2>2, <2>3
<1> QED
  BY <1>16, <1>17, <1>18 DEF parsed

-----------------------------------------------------------------------------
(***************************************************************************)
(* The form.                                                               *)
(***************************************************************************)

AnswerTypes(known, in) ==
  /\ known \in [Fields -> [old : Values \union {NoValue}, valid : BOOLEAN]]
  /\ in \in [Fields -> [value : Values \union {NoValue}, stale : BOOLEAN]]

FormTypes ==
  /\ \A f \in Fields : attributes[f] \in AttributeSets[f]
  /\ present \subseteq Fields
  /\ value \in [Fields -> Values]
  /\ invalid \in [Fields -> {"no key", "false", "true"}]
  /\ errorMap \subseteq Fields
  /\ AnswerTypes(previous, request)

\* Rules that were made of f's attributes, at some time.
IsParsed(held, f) ==
  \/ held = NoRules
  \/ f \in present /\ \E fields \in SUBSET Fields :
                         held = ParsedRules(attributes[f], f \in checkboxes, fields)

RulesAreParsed == \A f \in Fields : IsParsed(rules[f], f) /\ IsParsed(settings[f], f)

\* A page without a validator has not been checked.
Untouched ==
  ~attached => \A f \in Fields : /\ settings[f] = NoRules
                                 /\ mark[f] = "field-validation-valid"
                                 /\ invalid[f] = "no key"

\* What is known of the server's answers: the value in previousValue is the one that is
\* being checked, and when none is, one that the server has accepted if it says so.
KnownAnswers(known, in, waiting) ==
  \A f \in Fields :
    /\ f \in waiting <=> in[f].value # NoValue
    /\ f \in waiting => /\ f \in InForce
                        /\ known[f].old = IF in[f].stale THEN NoValue ELSE in[f].value
    /\ f \notin waiting /\ known[f].valid => known[f].old \notin Taken

AnswersAreKnown == pending \subseteq Fields /\ KnownAnswers(previous, request, pending)

\* The form was sent with values that the rules accept.
SentIsChecked ==
  sent => /\ attached
          /\ \A f \in InForce :
               /\ AllAccept(settings[f], value[f], value)
               /\ "remote" \in DOMAIN settings[f] => value[f] \notin Taken

ErrorsAreMarked == \A f \in errorMap : mark[f] = "field-validation-error"

FormInv ==
  FormTypes /\ RulesAreParsed /\ Untouched /\ AnswersAreKnown /\ SentIsChecked
  /\ MarksAgree /\ ErrorsAreMarked

LEMMA NoneInForce ==
  ASSUME NEW f \in Fields, settings[f] = NoRules
  PROVE  f \notin InForce
BY DEF InForce, NoRules

\* The rule that is added to all sees to it that check always has a verdict.
LEMMA CheckMeans ==
  ASSUME RulesAreParsed, NEW f \in InForce, NEW known
  PROVE  /\ Check(f, known) \in {"error", "success", "pending"}
         /\ Check(f, known) = "success" =>
              /\ AllAccept(settings[f], value[f], value)
              /\ "remote" \in DOMAIN settings[f] /\ value[f] # 0 =>
                   known[f].old = value[f] /\ known[f].valid
<1>1. IsParsed(settings[f], f) /\ f \in Fields
  BY DEF RulesAreParsed, InForce
<1>2. PICK fields : settings[f] = ParsedRules(attributes[f], f \in checkboxes, fields)
  BY <1>1, NoneInForce DEF IsParsed
<1> DEFINE adapted == Adapted(attributes[f], f \in checkboxes, fields)
<1>3. settings[f] = SetValidationValues(adapted, "__dummy__", TRUE)
  BY <1>2 DEF ParsedRules, Bool
<1> HIDE DEF adapted
<1>4. "__dummy__" \in DOMAIN settings[f]
  BY <1>3 DEF SetValidationValues
<1>5. ~NotConcerned(f)
  BY <1>4 DEF NotConcerned, Optional
<1>6. CASE ~AllAccept(settings[f], value[f], value)
  BY <1>5, <1>6 DEF Check
<1>7. CASE AllAccept(settings[f], value[f], value)
  <2>1. CASE "remote" \in DOMAIN settings[f] /\ value[f] # 0
    BY <1>5, <1>7, <2>1 DEF Check
  <2>2. CASE ~("remote" \in DOMAIN settings[f] /\ value[f] # 0)
    BY <1>5, <1>7, <2>2 DEF Check
  <2> QED
    BY <2>1, <2>2
<1> QED
  BY <1>6, <1>7

\* Every field of a form that is checked is marked, unless its answer is outstanding.
LEMMA FormMarks ==
  ASSUME FormTypes, RulesAreParsed, NEW known, NEW in, NEW waiting, Form(known, in, waiting)
  PROVE  /\ \A f \in InForce : Check(f, known) # "pending" =>
              (mark'[f] = "field-validation-error" <=> invalid'[f] = "true")
         /\ \A f \in InForce : Check(f, known) = "pending" => f \in pending'
         /\ invalid' \in [Fields -> {"no key", "false", "true"}]
         /\ errorMap' \subseteq Fields
         /\ \A f \in errorMap' : mark'[f] = "field-validation-error"
<1> DEFINE fields == InForce \intersect present
           errors == Found(fields, known, "error")
           successes == Found(fields, known, "success")
           asked == Found(fields, known, "pending")
<1>1. /\ mark' = OnSuccess(OnError(mark, errors), successes)
      /\ errorMap' = errors
      /\ invalid' = [f \in Fields |-> IF f \in errors THEN "true" ELSE "no key"]
      /\ pending' = waiting \union asked
  BY DEF Form, ShowErrors
<1>2. fields = InForce
  BY NoneInForce DEF RulesAreParsed, IsParsed, InForce
<1>3. /\ \A f \in InForce : f \in errors <=> Check(f, known) = "error"
      /\ \A f \in InForce : f \in successes <=> Check(f, known) = "success"
      /\ \A f \in InForce : f \in asked <=> Check(f, known) = "pending"
      /\ errors \subseteq InForce /\ errors \intersect successes = {}
  BY <1>2 DEF Found
<1>4. InForce \subseteq Fields
  BY DEF InForce
<1> HIDE DEF errors, successes, asked
<1>5. \A f \in Fields : mark'[f] = IF f \in successes THEN "field-validation-valid"
                                   ELSE IF f \in errors THEN "field-validation-error" ELSE mark[f]
  BY <1>1 DEF OnSuccess, OnError
<1>6. ASSUME NEW f \in InForce, Check(f, known) # "pending"
      PROVE  mark'[f] = "field-validation-error" <=> invalid'[f] = "true"
  <2>1. f \in errors \/ f \in successes
    BY <1>3, <1>6, CheckMeans
  <2> QED
    BY <1>1, <1>3, <1>4, <1>5, <2>1
<1>7. \A f \in InForce : Check(f, known) = "pending" => f \in pending'
  BY <1>1, <1>3
<1>8. invalid' \in [Fields -> {"no key", "false", "true"}] /\ errorMap' \subseteq Fields
  BY <1>1, <1>3, <1>4
<1>9. \A f \in errorMap' : mark'[f] = "field-validation-error"
  BY <1>1, <1>3, <1>4, <1>5
<1> QED
  BY <1>6, <1>7, <1>8, <1>9

LEMMA AskedAreKnown ==
  ASSUME FormTypes, NEW known, NEW in, NEW waiting, AnswerTypes(known, in),
         KnownAnswers(known, in, waiting), NEW asked \in SUBSET InForce
  PROVE  /\ AnswerTypes(Asked(known, asked), Requests(asked, in))
         /\ KnownAnswers(Asked(known, asked), Requests(asked, in), waiting \union asked)
<1> DEFINE again == Asked(known, asked)
           out == Requests(asked, in)
<1>1. value \in [Fields -> Values] /\ Values \subseteq Nat
  BY FormAssumption DEF FormTypes
<1>2. \A f \in Fields : again[f] = IF f \in asked THEN [old |-> value[f], valid |-> known[f].valid]
                                   ELSE known[f]
  BY DEF Asked, AnswerTypes
<1>3. \A f \in Fields : out[f] = IF f \in asked THEN [value |-> value[f], stale |-> FALSE] ELSE in[f]
  BY DEF Requests
<1>4. AnswerTypes(again, out)
  <2>1. again \in [Fields -> [old : Values \union {NoValue}, valid : BOOLEAN]]
    <3>1. again = [f \in Fields |-> again[f]]
      BY DEF Asked
    <3>2. \A f \in Fields : again[f] \in [old : Values \union {NoValue}, valid : BOOLEAN]
      <4> HIDE DEF again
      <4>1. ASSUME NEW f \in Fields
            PROVE  again[f] \in [old : Values \union {NoValue}, valid : BOOLEAN]
        <5>1. known[f] \in [old : Values \union {NoValue}, valid : BOOLEAN] /\ value[f] \in Values
          BY <1>1 DEF AnswerTypes
        <5>2. [old |-> value[f], valid |-> known[f].valid]
                \in [old : Values \union {NoValue}, valid : BOOLEAN]
          BY <5>1
        <5> QED
          BY <1>2, <5>1, <5>2
      <4> QED
        BY <4>1
    <3> HIDE DEF again
    <3> QED
      BY <3>1, <3>2
  <2>2. out \in [Fields -> [value : Values \union {NoValue}, stale : BOOLEAN]]
    <3>1. out = [f \in Fields |-> out[f]]
      BY DEF Requests
    <3>2. \A f \in Fields : out[f] \in [value : Values \union {NoValue}, stale : BOOLEAN]
      <4> HIDE DEF out
      <4>1. ASSUME NEW f \in Fields
            PROVE  out[f] \in [value : Values \union {NoValue}, stale : BOOLEAN]
        <5>1. in[f] \in [value : Values \union {NoValue}, stale : BOOLEAN] /\ value[f] \in Values
          BY <1>1 DEF AnswerTypes
        <5>2. [value |-> value[f], stale |-> FALSE]
                \in [value : Values \union {NoValue}, stale : BOOLEAN]
          BY <5>1
        <5> QED
          BY <1>3, <5>1, <5>2
      <4> QED
        BY <4>1
    <3> HIDE DEF out
    <3> QED
      BY <3>1, <3>2
  <2> QED
    BY <2>1, <2>2 DEF AnswerTypes
<1> HIDE DEF again, out
<1>5. \A f \in Fields : value[f] # NoValue
  BY <1>1 DEF NoValue
<1>6. KnownAnswers(again, out, waiting \union asked)
  <2> SUFFICES ASSUME NEW f \in Fields
               PROVE  /\ f \in waiting \union asked <=> out[f].value # NoValue
                      /\ f \in waiting \union asked =>
                           /\ f \in InForce
                           /\ again[f].old = IF out[f].stale THEN NoValue ELSE out[f].value
                      /\ f \notin waiting \union asked /\ again[f].valid => again[f].old \notin Taken
    BY DEF KnownAnswers
  <2>1. CASE f \in asked
    <3>1. out[f] = [value |-> value[f], stale |-> FALSE]
      BY <1>3, <2>1
    <3>2. again[f].old = value[f]
      <4>1. again[f] = [old |-> value[f], valid |-> known[f].valid]
        BY <1>2, <2>1
      <4> QED
        BY <4>1
    <3>3. out[f].value = value[f] /\ out[f].stale = FALSE
      BY <3>1
    <3> QED
      BY <1>5, <2>1, <3>2, <3>3
  <2>2. CASE f \notin asked
    BY <1>2, <1>3, <2>2 DEF KnownAnswers
  <2> QED
    BY <2>1, <2>2
<1> QED
  BY <1>4, <1>6 DEF again, out

\* The answer to a request makes what is known of its field true.
LEMMA LearnedIsKnown ==
  ASSUME FormTypes, AnswersAreKnown, NEW f \in Fields, request[f].value # NoValue
  PROVE  /\ AnswerTypes(Learned(f), Without(f))
         /\ KnownAnswers(Learned(f), Without(f), pending \ {f})
<1> DEFINE known == Learned(f)
           in == Without(f)
<1>1. /\ previous \in [Fields -> [old : Values \union {NoValue}, valid : BOOLEAN]]
      /\ request \in [Fields -> [value : Values \union {NoValue}, stale : BOOLEAN]]
  BY DEF FormTypes, AnswerTypes
<1>2. /\ in \in [Fields -> [value : Values \union {NoValue}, stale : BOOLEAN]]
      /\ in[f] = [value |-> NoValue, stale |-> FALSE]
      /\ \A g \in Fields : g # f => in[g] = request[g]
  BY <1>1 DEF Without, NoRequest
<1>3. /\ known \in [Fields -> [old : Values \union {NoValue}, valid : BOOLEAN]]
      /\ \A g \in Fields : g # f => known[g] = previous[g]
      /\ known[f].old = previous[f].old
      /\ ~request[f].stale => known[f].valid = (request[f].value \notin Taken)
  <2>1. CASE request[f].stale
    BY <1>1, <2>1 DEF Learned
  <2>2. CASE ~request[f].stale
    <3> DEFINE valid == request[f].value \notin Taken
    <3>1. known = [previous EXCEPT ![f].valid = valid]
      BY <2>2 DEF Learned
    <3>2. valid \in BOOLEAN
      OBVIOUS
    <3> HIDE DEF known, valid
    <3>3. /\ known \in [Fields -> [old : Values \union {NoValue}, valid : BOOLEAN]]
          /\ \A g \in Fields : g # f => known[g] = previous[g]
          /\ known[f] = [previous[f] EXCEPT !.valid = valid]
      BY <1>1, <3>1, <3>2
    <3>4. known[f].old = previous[f].old /\ known[f].valid = valid
      <4>1. previous[f] \in [old : Values \union {NoValue}, valid : BOOLEAN]
        BY <1>1
      <4> QED
        BY <3>3, <4>1
    <3> QED
      BY <3>3, <3>4 DEF valid
  <2> QED
    BY <2>1, <2>2
<1>4. NoValue \notin Taken
  BY FormAssumption DEF NoValue
<1> HIDE DEF known, in
<1>5. KnownAnswers(known, in, pending \ {f})
  <2> SUFFICES ASSUME NEW g \in Fields
               PROVE  /\ g \in pending \ {f} <=> in[g].value # NoValue
                      /\ g \in pending \ {f} =>
                           /\ g \in InForce
                           /\ known[g].old = IF in[g].stale THEN NoValue ELSE in[g].value
                      /\ g \notin pending \ {f} /\ known[g].valid => known[g].old \notin Taken
    BY DEF KnownAnswers
  <2>1. CASE g = f
    <3>1. in[g].value = NoValue
      BY <1>2, <2>1
    <3>2. known[g].old = IF request[f].stale THEN NoValue ELSE request[f].value
      BY <1>3, <2>1 DEF AnswersAreKnown, KnownAnswers
    <3>3. known[g].valid => known[g].old \notin Taken
      BY <1>3, <1>4, <2>1, <3>2
    <3> QED
      BY <2>1, <3>1, <3>3
  <2>2. CASE g # f
    BY <1>2, <1>3, <2>2 DEF AnswersAreKnown, KnownAnswers
  <2> QED
    BY <2>1, <2>2
<1> QED
  BY <1>2, <1>3, <1>5 DEF AnswerTypes, known, in

\* The steps that have fields parsed.
LEMMA PageStep ==
  ASSUME FormInv, RulesAreParsed', present' \subseteq Fields,
         UNCHANGED <<attributes, checkboxes, value, shownVars, remoteVars, formSubmitted, sent>>,
         (settings' = settings /\ attached' = attached) \/ (~attached /\ attached')
  PROVE  FormInv'
<1>1. FormTypes'
  BY DEF FormInv, FormTypes, AnswerTypes, shownVars, remoteVars
<1>2. ErrorsAreMarked'
  BY DEF FormInv, ErrorsAreMarked, shownVars
<1>3. CASE settings' = settings /\ attached' = attached
  <2>1. InForce' = InForce
    BY <1>3 DEF InForce
  <2>2. Untouched' /\ AnswersAreKnown' /\ MarksAgree'
    BY <1>3, <2>1 DEF FormInv, Untouched, AnswersAreKnown, KnownAnswers, MarksAgree,
                      shownVars, remoteVars
  <2>3. SentIsChecked'
    BY <1>3, <2>1 DEF FormInv, SentIsChecked, AllAccept, Accepts
  <2> QED
    BY <1>1, <1>2, <2>2, <2>3 DEF FormInv
<1>4. CASE ~attached /\ attached'
  <2>1. /\ InForce = {}
        /\ \A f \in Fields : /\ mark[f] = "field-validation-valid"
                             /\ invalid[f] = "no key"
    BY <1>4, NoneInForce DEF FormInv, Untouched, InForce
  <2>2. pending = {}
    BY <2>1 DEF FormInv, AnswersAreKnown, KnownAnswers
  <2>3. AnswersAreKnown'
    BY <2>1, <2>2 DEF FormInv, AnswersAreKnown, KnownAnswers, remoteVars
  <2>4. Untouched' /\ MarksAgree'
    BY <1>4, <2>1 DEF Untouched, MarksAgree, InForce, shownVars
  <2>5. SentIsChecked'
    BY <1>4 DEF FormInv, SentIsChecked
  <2> QED
    BY <1>1, <1>2, <2>3, <2>4, <2>5 DEF FormInv
<1> QED
  BY <1>3, <1>4

\* The check of the whole form, with what is known then.
LEMMA FormStep ==
  ASSUME FormInv, attached, NEW known, NEW in, NEW waiting, waiting \subseteq Fields,
         AnswerTypes(known, in), KnownAnswers(known, in, waiting),
         Form(known, in, waiting), UNCHANGED <<pageVars, value>>,
         sent' => /\ ~Refused(known) /\ waiting = {}
                  /\ Found(InForce \intersect present, known, "pending") = {}
  PROVE  FormInv'
<1> DEFINE fields == InForce \intersect present
           asked == Found(fields, known, "pending")
<1>1. InForce' = InForce
  BY DEF InForce, pageVars
<1>2. RulesAreParsed'
  BY DEF FormInv, RulesAreParsed, IsParsed, pageVars
<1>3. Untouched'
  BY DEF Untouched, pageVars
<1>4. /\ previous' = Asked(known, asked)
      /\ request' = Requests(asked, in)
      /\ pending' = waiting \union asked
  BY DEF Form
<1>5. fields = InForce
  BY NoneInForce DEF FormInv, RulesAreParsed, IsParsed, InForce
<1>6. asked \in SUBSET InForce
  BY DEF Found
<1>7. InForce \subseteq Fields
  BY DEF InForce
<1> HIDE DEF asked
<1>8. /\ AnswerTypes(Asked(known, asked), Requests(asked, in))
      /\ KnownAnswers(Asked(known, asked), Requests(asked, in), waiting \union asked)
  BY <1>6, AskedAreKnown DEF FormInv
<1>9. AnswersAreKnown' /\ AnswerTypes(previous, request)'
  BY <1>1, <1>4, <1>6, <1>7, <1>8 DEF AnswersAreKnown, KnownAnswers, AnswerTypes
<1>10. FormTypes' /\ MarksAgree' /\ ErrorsAreMarked'
  BY <1>1, <1>9, FormMarks DEF FormInv, FormTypes, MarksAgree, ErrorsAreMarked, pageVars
<1>11. SentIsChecked'
  <2> SUFFICES ASSUME sent', NEW f \in InForce
               PROVE  /\ AllAccept(settings[f], value[f], value)
                      /\ "remote" \in DOMAIN settings[f] => value[f] \notin Taken
    BY <1>1 DEF SentIsChecked, AllAccept, Accepts, pageVars
  <2>1. Check(f, known) = "success"
    BY <1>5, CheckMeans DEF FormInv, Refused, Found
  <2>2. known[f].valid => known[f].old \notin Taken
    BY <1>7 DEF KnownAnswers
  <2>3. 0 \notin Taken
    BY FormAssumption
  <2> QED
    BY <2>1, <2>2, <2>3, CheckMeans DEF FormInv
<1> QED
  BY <1>2, <1>3, <1>9, <1>10, <1>11 DEF FormInv

\* While the page stays as it is, what was parsed stays so.
LEMMA PageStays ==
  ASSUME UNCHANGED pageVars
  PROVE  /\ InForce' = InForce
         /\ RulesAreParsed => RulesAreParsed'
BY DEF InForce, RulesAreParsed, IsParsed, pageVars

\* Requests are made by a validator.
LEMMA SomeoneAsked ==
  ASSUME FormInv, NEW f \in Fields, request[f].value # NoValue
  PROVE  attached
<1>1. f \in InForce
  BY DEF FormInv, AnswersAreKnown, KnownAnswers
<1> QED
  BY <1>1, NoneInForce DEF FormInv, Untouched

LEMMA ValidateStep ==
  ASSUME FormInv, NEW f \in Fields, Validate(f)
  PROVE  FormInv'
<1> DEFINE errors == Found({f}, previous, "error")
           successes == Found({f}, previous, "success")
           asked == Found({f}, previous, "pending")
<1>1. /\ f \in InForce /\ ~sent
      /\ mark' = OnSuccess(OnError(mark, errors), successes)
      /\ errorMap' = errors
      /\ invalid' = [invalid EXCEPT ![f] = IF f \in errors THEN "true" ELSE "false"]
      /\ previous' = Asked(previous, asked)
      /\ request' = Requests(asked, request)
      /\ pending' = pending \union asked
      /\ UNCHANGED <<pageVars, value, summary, formSubmitted, sent>>
  BY DEF Validate, ShowErrors
<1>2. /\ errors \subseteq {f} /\ successes \subseteq {f} /\ asked \subseteq {f}
      /\ f \in errors <=> Check(f, previous) = "error"
      /\ f \in successes <=> Check(f, previous) = "success"
      /\ f \in asked <=> Check(f, previous) = "pending"
  BY DEF Found
<1>3. f \in errors \/ f \in successes \/ f \in asked
  BY <1>1, <1>2, CheckMeans DEF FormInv
<1> HIDE DEF errors, successes, asked
<1>4. InForce' = InForce /\ RulesAreParsed'
  BY <1>1, PageStays DEF FormInv
<1>5. Untouched'
  BY <1>1, NoneInForce DEF FormInv, Untouched, pageVars
<1>6. /\ AnswerTypes(Asked(previous, asked), Requests(asked, request))
      /\ KnownAnswers(Asked(previous, asked), Requests(asked, request), pending \union asked)
  BY <1>1, <1>2, AskedAreKnown DEF FormInv, FormTypes, AnswersAreKnown
<1>7. AnswersAreKnown' /\ AnswerTypes(previous, request)'
  BY <1>1, <1>2, <1>4, <1>6 DEF FormInv, AnswersAreKnown, KnownAnswers, AnswerTypes
<1>8. /\ invalid' \in [Fields -> {"no key", "false", "true"}]
      /\ invalid'[f] = IF f \in errors THEN "true" ELSE "false"
      /\ \A g \in Fields : g # f => invalid'[g] = invalid[g]
  BY <1>1 DEF FormInv, FormTypes
<1>9. /\ mark'[f] = IF f \in successes THEN "field-validation-valid"
                    ELSE IF f \in errors THEN "field-validation-error" ELSE mark[f]
      /\ \A g \in Fields : g # f => mark'[g] = mark[g]
  BY <1>1, <1>2 DEF OnSuccess, OnError
<1>10. MarksAgree'
  <2> SUFFICES ASSUME NEW g \in InForce, g \notin pending'
               PROVE  mark'[g] = "field-validation-error" <=> invalid'[g] = "true"
    BY <1>4 DEF MarksAgree
  <2>1. CASE g = f
    BY <1>1, <1>2, <1>3, <1>8, <1>9, <2>1
  <2>2. CASE g # f
    BY <1>1, <1>8, <1>9, <2>2 DEF FormInv, MarksAgree, InForce
  <2> QED
    BY <2>1, <2>2
<1>11. ErrorsAreMarked'
  BY <1>1, <1>2, <1>9 DEF ErrorsAreMarked
<1>12. FormTypes'
  BY <1>1, <1>2, <1>7, <1>8 DEF FormInv, FormTypes, pageVars
<1>13. SentIsChecked'
  BY <1>1 DEF SentIsChecked
<1> QED
  BY <1>4, <1>5, <1>7, <1>10, <1>11, <1>12, <1>13 DEF FormInv

LEMMA AnswerStep ==
  ASSUME FormInv, NEW f \in Fields, Answer(f)
  PROVE  FormInv'
<1> DEFINE valid == request[f].value \notin Taken
<1>1. /\ ~sent /\ request[f].value # NoValue
      /\ mark' = OnSuccess(OnError(mark, {f} \ {g \in {f} : valid}), {g \in {f} : valid})
      /\ errorMap' = IF valid THEN {} ELSE errorMap \union {f}
      /\ invalid' = [invalid EXCEPT ![f] = IF valid THEN "false" ELSE "true"]
      /\ previous' = Learned(f)
      /\ request' = Without(f)
      /\ pending' = pending \ {f}
      /\ UNCHANGED <<pageVars, value, submitted, sent>>
  BY DEF Answer, ShowErrors
<1>2. InForce' = InForce /\ RulesAreParsed'
  BY <1>1, PageStays DEF FormInv
<1>3. Untouched'
  BY <1>1, SomeoneAsked DEF Untouched, pageVars
<1>4. AnswersAreKnown' /\ AnswerTypes(previous, request)'
  <2>1. /\ AnswerTypes(Learned(f), Without(f))
        /\ KnownAnswers(Learned(f), Without(f), pending \ {f})
    BY <1>1, LearnedIsKnown DEF FormInv
  <2> QED
    BY <1>1, <1>2, <2>1 DEF FormInv, AnswersAreKnown, KnownAnswers, AnswerTypes
<1> HIDE DEF valid
<1>5. /\ invalid' \in [Fields -> {"no key", "false", "true"}]
      /\ invalid'[f] = IF valid THEN "false" ELSE "true"
      /\ \A g \in Fields : g # f => invalid'[g] = invalid[g]
  BY <1>1 DEF FormInv, FormTypes
<1>6. /\ mark'[f] = IF valid THEN "field-validation-valid" ELSE "field-validation-error"
      /\ \A g \in Fields : g # f => mark'[g] = mark[g]
  BY <1>1 DEF OnSuccess, OnError
<1>7. MarksAgree'
  <2> SUFFICES ASSUME NEW g \in InForce, g \notin pending'
               PROVE  mark'[g] = "field-validation-error" <=> invalid'[g] = "true"
    BY <1>2 DEF MarksAgree
  <2>1. CASE g = f
    BY <1>5, <1>6, <2>1
  <2>2. CASE g # f
    BY <1>1, <1>5, <1>6, <2>2 DEF FormInv, MarksAgree, InForce
  <2> QED
    BY <2>1, <2>2
<1>8. ErrorsAreMarked' /\ errorMap' \subseteq Fields
  BY <1>1, <1>6 DEF FormInv, FormTypes, ErrorsAreMarked
<1>9. FormTypes'
  BY <1>1, <1>4, <1>5, <1>8 DEF FormInv, FormTypes, pageVars
<1>10. SentIsChecked'
  BY <1>1 DEF SentIsChecked
<1> QED
  BY <1>2, <1>3, <1>4, <1>7, <1>8, <1>9, <1>10 DEF FormInv

LEMMA SubmitStep ==
  ASSUME FormInv, Submit
  PROVE  FormInv'
<1>1. /\ attached /\ Form(previous, request, pending)
      /\ sent' = (~Refused(previous) /\ pending' = {})
      /\ UNCHANGED <<pageVars, value>>
  BY DEF Submit
<1>2. pending' = pending \union Found(InForce \intersect present, previous, "pending")
  BY <1>1 DEF Form
<1>3. /\ AnswerTypes(previous, request) /\ pending \subseteq Fields
      /\ KnownAnswers(previous, request, pending)
  BY DEF FormInv, FormTypes, AnswersAreKnown
<1>4. sent' => /\ ~Refused(previous) /\ pending = {}
               /\ Found(InForce \intersect present, previous, "pending") = {}
  BY <1>1, <1>2
<1> QED
  BY <1>1, <1>3, <1>4, FormStep

LEMMA AnswerAndSubmitStep ==
  ASSUME FormInv, NEW f \in Fields, AnswerAndSubmit(f)
  PROVE  FormInv'
<1> DEFINE known == Learned(f)
           in == Without(f)
           asked == Found(InForce \intersect present, known, "pending")
           again == Asked(known, asked)
           out == Requests(asked, in)
<1>1. /\ ~sent /\ pending = {f} /\ request[f].value # NoValue
      /\ UNCHANGED <<pageVars, value>>
      /\ IF Refused(known)
         THEN Form(known, in, {}) /\ UNCHANGED sent
         ELSE Form(again, out, asked) /\ sent' = (~Refused(again) /\ asked = {})
  BY DEF AnswerAndSubmit
<1>2. attached
  BY <1>1, SomeoneAsked
<1>3. AnswerTypes(known, in) /\ KnownAnswers(known, in, {})
  <2>1. pending \ {f} = {}
    BY <1>1
  <2> QED
    BY <1>1, <2>1, LearnedIsKnown DEF FormInv
<1>4. asked \in SUBSET InForce
  BY DEF Found
<1> HIDE DEF known, in
<1>5. CASE Refused(known)
  BY <1>1, <1>2, <1>3, <1>5, FormStep
<1>6. CASE ~Refused(known)
  <2>1. Form(again, out, asked) /\ sent' = (~Refused(again) /\ asked = {})
    BY <1>1, <1>6
  <2>2. {} \union asked = asked
    OBVIOUS
  <2>3. AnswerTypes(again, out) /\ KnownAnswers(again, out, asked)
    <3> HIDE DEF asked
    <3>1. /\ AnswerTypes(Asked(known, asked), Requests(asked, in))
          /\ KnownAnswers(Asked(known, asked), Requests(asked, in), {} \union asked)
      BY <1>3, <1>4, AskedAreKnown DEF FormInv
    <3> QED
      BY <2>2, <3>1
  <2>4. asked \subseteq Fields
    BY <1>4 DEF InForce
  <2>5. asked = {} => again = known
    BY <1>3 DEF Asked, AnswerTypes
  <2>6. asked = Found(InForce \intersect present, known, "pending")
    OBVIOUS
  <2> HIDE DEF asked, again, out
  <2>7. sent' => /\ ~Refused(again) /\ asked = {}
                 /\ Found(InForce \intersect present, again, "pending") = {}
    BY <2>1, <2>5, <2>6
  <2> QED
    BY <1>1, <1>2, <2>1, <2>3, <2>4, <2>7, FormStep
<1> QED
  BY <1>5, <1>6

LEMMA EditStep ==
  ASSUME FormInv, NEW f \in Fields, NEW v \in Values, Edit(f, v)
  PROVE  FormInv'
<1>1. /\ ~sent /\ value' \in [Fields -> Values]
      /\ UNCHANGED <<pageVars, shownVars, remoteVars, formSubmitted, sent>>
  BY DEF Edit, FormInv, FormTypes
<1>2. InForce' = InForce /\ RulesAreParsed'
  BY <1>1, PageStays DEF FormInv
<1>3. FormTypes' /\ Untouched' /\ AnswersAreKnown' /\ MarksAgree' /\ ErrorsAreMarked'
  BY <1>1, <1>2 DEF FormInv, FormTypes, AnswerTypes, Untouched, AnswersAreKnown, KnownAnswers,
                    MarksAgree, ErrorsAreMarked, pageVars, shownVars, remoteVars
<1>4. SentIsChecked'
  BY <1>1 DEF SentIsChecked
<1> QED
  BY <1>2, <1>3, <1>4 DEF FormInv

LEMMA ResetStep ==
  ASSUME FormInv, Reset
  PROVE  FormInv'
<1>1. ~sent /\ ~sent' /\ UNCHANGED pageVars /\ value' = [f \in Fields |-> 0]
  BY DEF Reset
<1>2. InForce' = InForce /\ RulesAreParsed'
  BY <1>1, PageStays DEF FormInv
<1>3. value' \in [Fields -> Values]
  BY <1>1, FormAssumption
<1>4. SentIsChecked'
  BY <1>1 DEF SentIsChecked
<1>5. CASE handlers = 0
  <2>1. UNCHANGED <<shownVars, remoteVars>>
    BY <1>5 DEF Reset
  <2>2. FormTypes' /\ Untouched' /\ AnswersAreKnown' /\ MarksAgree' /\ ErrorsAreMarked'
    BY <1>1, <1>2, <1>3, <2>1
       DEF FormInv, FormTypes, AnswerTypes, Untouched, AnswersAreKnown, KnownAnswers,
           MarksAgree, ErrorsAreMarked, pageVars, shownVars, remoteVars
  <2> QED
    BY <1>2, <1>4, <2>2 DEF FormInv
<1>6. CASE handlers # 0
  <2>1. /\ mark' = [f \in Fields |-> "field-validation-valid"]
        /\ errorMap' = {}
        /\ invalid' = [f \in Fields |-> "no key"]
        /\ previous' = [f \in Fields |-> IF f \in InForce THEN Unasked ELSE previous[f]]
        /\ request' = [f \in Fields |-> IF f \in pending THEN [request[f] EXCEPT !.stale = TRUE]
                                        ELSE request[f]]
        /\ pending' = pending
    BY <1>6 DEF Reset
  <2>2. \A f \in Fields : /\ previous[f] \in [old : Values \union {NoValue}, valid : BOOLEAN]
                          /\ request[f] \in [value : Values \union {NoValue}, stale : BOOLEAN]
    BY DEF FormInv, FormTypes, AnswerTypes
  <2>3. \A f \in Fields :
          /\ previous'[f] \in [old : Values \union {NoValue}, valid : BOOLEAN]
          /\ f \in InForce => previous'[f].old = NoValue
          /\ f \notin InForce => previous'[f] = previous[f]
    BY <2>1, <2>2 DEF Unasked
  <2>4. \A f \in Fields :
          /\ request'[f] \in [value : Values \union {NoValue}, stale : BOOLEAN]
          /\ request'[f].value = request[f].value
          /\ f \in pending => request'[f].stale
    BY <2>1, <2>2
  <2>5. AnswerTypes(previous, request)'
    BY <2>1, <2>3, <2>4 DEF AnswerTypes
  <2>6. NoValue \notin Taken
    BY FormAssumption DEF NoValue
  <2>7. AnswersAreKnown'
    BY <1>2, <2>1, <2>3, <2>4, <2>6 DEF FormInv, AnswersAreKnown, KnownAnswers
  <2>8. FormTypes' /\ Untouched' /\ MarksAgree' /\ ErrorsAreMarked'
    BY <1>1, <1>2, <1>3, <2>1, <2>5
       DEF FormInv, FormTypes, Untouched, MarksAgree, ErrorsAreMarked, InForce, pageVars
  <2> QED
    BY <1>2, <1>4, <2>7, <2>8 DEF FormInv
<1> QED
  BY <1>5, <1>6

LEMMA ParseSteps ==
  ASSUME FormInv, RulesAreParsed', present' \subseteq Fields,
         UNCHANGED parseRest,
         AttachValidation \/ UNCHANGED <<settings, attached>>
  PROVE  FormInv'
<1>1. (settings' = settings /\ attached' = attached) \/ (~attached /\ attached')
  BY DEF AttachValidation
<1> QED
  BY <1>1, PageStep DEF parseRest

LEMMA ParsedAreParsed ==
  ASSUME FormInv, NEW S \in SUBSET present, rules' = Parsed(S),
         UNCHANGED <<attributes, checkboxes, present>>,
         settings' \in {settings, rules'}
  PROVE  RulesAreParsed'
<1>1. ASSUME NEW f \in Fields
      PROVE  IsParsed(rules'[f], f)
  <2>1. CASE f \in S
    <3>1. rules'[f] = ParsedRules(attributes[f], f \in checkboxes, present)
      BY <2>1 DEF Parsed
    <3> QED
      BY <2>1, <3>1 DEF IsParsed, FormInv, FormTypes
  <2>2. CASE f \notin S
    <3>1. rules'[f] = rules[f]
      BY <2>2 DEF Parsed
    <3> QED
      BY <3>1 DEF FormInv, RulesAreParsed
  <2> QED
    BY <2>1, <2>2
<1>2. \A f \in Fields : IsParsed(settings'[f], f)
  BY <1>1 DEF FormInv, RulesAreParsed
<1> QED
  BY <1>1, <1>2 DEF RulesAreParsed, IsParsed

LEMMA FormInit == Init => FormInv
<1> SUFFICES ASSUME Init
             PROVE  FormInv
  OBVIOUS
<1>1. \A f \in Fields : settings[f] = NoRules /\ rules[f] = NoRules
  BY DEF Init
<1>2. InForce = {}
  BY <1>1, NoneInForce DEF InForce
<1>3. NoValue \notin Taken /\ 0 \in Values
  BY FormAssumption DEF NoValue
<1>4. FormTypes
  BY <1>3 DEF Init, FormTypes, AnswerTypes, Unasked, NoRequest
<1>5. AnswersAreKnown
  BY <1>3 DEF Init, AnswersAreKnown, KnownAnswers, Unasked, NoRequest
<1>6. RulesAreParsed /\ Untouched
  BY <1>1 DEF Init, RulesAreParsed, IsParsed, Untouched
<1>7. SentIsChecked /\ MarksAgree /\ ErrorsAreMarked
  BY <1>2 DEF Init, SentIsChecked, MarksAgree, ErrorsAreMarked
<1> QED
  BY <1>4, <1>5, <1>6, <1>7 DEF FormInv

LEMMA FormNext == FormInv /\ [Next]_vars => FormInv'
<1> SUFFICES ASSUME FormInv, [Next]_vars
             PROVE  FormInv'
  OBVIOUS
<1>1. ASSUME NEW f \in Fields, Insert(f)
      PROVE  FormInv'
  <2>1. RulesAreParsed' /\ present' \subseteq Fields
    BY <1>1 DEF Insert, FormInv, FormTypes, RulesAreParsed, IsParsed
  <2> QED
    BY <1>1, <2>1, PageStep DEF Insert
<1>2. ASSUME NEW S \in SUBSET Fields, Parse(S)
      PROVE  FormInv'
  <2>1. RulesAreParsed'
    BY <1>2, ParsedAreParsed DEF Parse, AttachValidation, parseRest
  <2> QED
    BY <1>2, <2>1, ParseSteps DEF Parse, parseRest, FormInv, FormTypes
<1>3. ASSUME NEW f \in Fields, NEW skipAttach \in BOOLEAN, ParseElement(f, skipAttach)
      PROVE  FormInv'
  <2>1. /\ {f} \in SUBSET present /\ rules' = Parsed({f}) /\ UNCHANGED parseRest
        /\ AttachValidation \/ UNCHANGED <<settings, attached>>
    BY <1>3 DEF ParseElement
  <2>2. RulesAreParsed'
    BY <2>1, ParsedAreParsed DEF AttachValidation, parseRest
  <2> QED
    BY <2>1, <2>2, ParseSteps DEF parseRest, FormInv, FormTypes
<1>4. ASSUME UNCHANGED vars
      PROVE  FormInv'
  <2>1. UNCHANGED <<pageVars, value, shownVars, remoteVars, formSubmitted, sent>>
    BY <1>4 DEF vars
  <2>2. RulesAreParsed' /\ present' \subseteq Fields
    BY <2>1, PageStays DEF FormInv, FormTypes, pageVars
  <2> QED
    BY <2>1, <2>2, PageStep DEF pageVars
<1> QED
  BY <1>1, <1>2, <1>3, <1>4, ValidateStep, AnswerStep, AnswerAndSubmitStep, EditStep, SubmitStep,
     ResetStep DEF Next

\* The inductive invariant of the form holds for any fields, values and attributes.
LEMMA FormInvariant == Spec => []FormInv
<1> QED
  BY FormInit, FormNext, PTL DEF Spec

\* The mark beside a field says what the validator holds of it: the handlers that write
\* the one write the other, in whatever order the user's and the server's events come.
THEOREM MarksAgreeAlways == Spec => []MarksAgree
<1>1. FormInv => MarksAgree
  BY DEF FormInv
<1> QED
  BY <1>1, FormInvariant, PTL

\* The fields that the summary lists are marked, also when it is shown by a late answer.
THEOREM SummaryAgrees == Spec => SummaryIsMarked
<1> DEFINE Listed == summary' # summary => \A f \in summary' : mark'[f] = "field-validation-error"
<1>1. FormInv /\ [Next]_vars => [Listed]_vars
  <2> SUFFICES ASSUME FormInv, Next, summary' # summary
               PROVE  \A f \in summary' : mark'[f] = "field-validation-error"
    BY DEF vars
  <2>1. FormInv'
    BY FormNext
  <2>2. summary' = errorMap'
    <3>1. ASSUME NEW known, NEW in, NEW waiting, Form(known, in, waiting)
          PROVE  summary' = errorMap'
      BY <3>1 DEF Form, OnErrors
    <3>2. ASSUME NEW f \in Fields, Answer(f)
          PROVE  summary' = errorMap'
      BY <3>2 DEF Answer, OnErrors
    <3>3. ASSUME NEW f \in Fields, AnswerAndSubmit(f)
          PROVE  summary' = errorMap'
      BY <3>1, <3>3 DEF AnswerAndSubmit
    <3>4. ASSUME Submit
          PROVE  summary' = errorMap'
      BY <3>1, <3>4 DEF Submit
    <3>5. ASSUME Reset
          PROVE  summary' = errorMap'
      BY <3>5 DEF Reset, shownVars
    <3> QED
      BY <3>2, <3>3, <3>4, <3>5
         DEF Next, Insert, Validate, Parse, ParseElement, Edit, parseRest, shownVars
  <2> QED
    BY <2>1, <2>2 DEF FormInv, ErrorsAreMarked
<1> QED
  BY <1>1, FormInvariant, PTL DEF Spec, SummaryIsMarked

\* Rules that were made of attributes, at some time, accept what the attributes mean.
LEMMA ParsedIsMeant ==
  ASSUME RulesDiffer, FormInv, NEW f \in InForce,
         "equalto" \in DOMAIN attributes[f] => "equalTo" \in DOMAIN settings[f],
         NEW v \in Values, AllComparable(f, v)
  PROVE  /\ "remote" \notin DOMAIN attributes[f] \/ v \notin Taken =>
              (Meant(f, v) <=> AllAccept(settings[f], v, value))
         /\ "remote" \in DOMAIN attributes[f] => "remote" \in DOMAIN settings[f]
<1>1. f \in Fields /\ v \in Nat
  BY FormAssumption DEF InForce
<1>2. /\ Usable(attributes[f])
      /\ \A a \in DOMAIN attributes[f] : Comparable(a, attributes[f][a], v)
  BY <1>1, FormAssumption DEF FormInv, FormTypes, RulesDiffer, Usable, AllComparable
<1> DEFINE checkbox == f \in checkboxes
<1>3. PICK fields : settings[f] = ParsedRules(attributes[f], checkbox, fields)
  BY <1>1, NoneInForce DEF FormInv, RulesAreParsed, IsParsed
<1>4. Meant(f, v) <=> \A a \in DOMAIN attributes[f] : Asks(a, attributes[f][a], checkbox, v, value)
  BY DEF Meant
<1> HIDE DEF checkbox
<1> DEFINE asked == attributes[f]
<1>5. "remote" \notin DOMAIN asked \/ v \notin Taken =>
        (Meant(f, v) <=> \A a \in DOMAIN asked \ {"remote"} : Asks(a, asked[a], checkbox, v, value))
  <2>1. v \notin Taken => Asks("remote", asked["remote"], checkbox, v, value)
    BY DEF Asks
  <2> QED
    BY <1>4, <2>1
<1> HIDE DEF asked
<1>6. /\ "remote" \in DOMAIN asked => "remote" \in DOMAIN settings[f]
      /\ AllAccept(settings[f], v, value)
           <=> \A a \in DOMAIN asked \ {"remote"} : Asks(a, asked[a], checkbox, v, value)
  BY <1>1, <1>2, <1>3, ParsedMeans DEF asked
<1> QED
  BY <1>5, <1>6 DEF asked

\* What the adapters make of attributes says what the attributes mean, whenever the field
\* was parsed.  Attributes that are made into the same rule are left out, for addMinMax and
\* addSingleVal overwrite each other's parameters, and so are numbers that a lone bound,
\* compared as text, means otherwise.
THEOREM RulesAreMeant == ASSUME RulesDiffer PROVE Spec => []RulesMeanAttributes
<1>1. FormInv => RulesMeanAttributes
  BY ParsedIsMeant DEF RulesMeanAttributes
<1> QED
  BY <1>1, FormInvariant, PTL

\* A form that is sent holds only what the attributes and the server accept, whichever
\* answers are outstanding when the user submits, edits or resets; a lone bound of a range
\* vouches only for numbers with as many digits.
THEOREM SentIsMeant == ASSUME RulesDiffer PROVE Spec => []SentIsAccepted
<1>1. FormInv => SentIsAccepted
  <2> SUFFICES ASSUME FormInv, sent, NEW f \in InForce,
                      "equalto" \in DOMAIN attributes[f] => "equalTo" \in DOMAIN settings[f],
                      AllComparable(f, value[f])
               PROVE  Meant(f, value[f])
    BY DEF SentIsAccepted
  <2>1. value[f] \in Values
    BY DEF FormInv, FormTypes, InForce
  <2>2. /\ AllAccept(settings[f], value[f], value)
        /\ "remote" \in DOMAIN settings[f] => value[f] \notin Taken
    BY DEF FormInv, SentIsChecked
  <2>3. CASE value[f] \notin Taken
    BY <2>1, <2>2, <2>3, ParsedIsMeant
  <2>4. CASE value[f] \in Taken
    <3>1. "remote" \notin DOMAIN attributes[f]
      BY <2>1, <2>2, <2>4, ParsedIsMeant
    <3> QED
      BY <2>1, <2>2, <3>1, ParsedIsMeant
  <2> QED
    BY <2>3, <2>4
<1> QED
  BY <1>1, FormInvariant, PTL
=============================================================================
