--------------------------- MODULE FormValidation ---------------------------
(***************************************************************************)
(* A form of a page that loads jquery.validate.unobtrusive.js, the script  *)
(* that the front end's _ValidationScriptsPartial offers its pages,        *)
(* together with what it relies on of jQuery Validate.                     *)
(*                                                                         *)
(* The browser runs one event handler at a time, and so each action is a   *)
(* whole handler.  What interleaves are the user, who edits, leaves,       *)
(* submits and resets; the page, which adds fields and has them parsed;    *)
(* and the server, which answers requests to check a value ("remote").     *)
(***************************************************************************)
EXTENDS Integers, FiniteSets, FormRules

CONSTANTS
  Fields,           \* names of inputs with data-val=true
  Values,           \* what they may contain; 0 is the empty value, and the default
  Taken,            \* values that the server refuses
  AttributeSets     \* AttributeSets[f]: attributes that f may have

NoValue == -1

Adapters ==
  {"length", "range", "minlength", "maxlength", "equalto", "required", "remote", "password"}

\* The parameters that ASP.NET gives an attribute.
Rendered(a, params) ==
  /\ \A p \in {"min", "max"} : Given(params, p) => params[p] \in Nat
  /\ Given(params, "nonalphamin") => params.nonalphamin \in Nat \ {0}
  /\ a \in {"minlength", "password"} => ~Given(params, "max")
  /\ a = "maxlength" => ~Given(params, "min")
  /\ a = "equalto" => Given(params, "other") /\ params.other \in Fields

ASSUME FormAssumption ==
  /\ Values \subseteq Nat /\ 0 \in Values /\ Taken \subseteq Values \ {0}
  /\ DOMAIN AttributeSets = Fields
  /\ \A f \in Fields : \A asked \in AttributeSets[f] :
       DOMAIN asked \subseteq Adapters /\ \A a \in DOMAIN asked : Rendered(a, asked[a])

\* No two attributes of a field are made into the same rule: the later one would replace
\* the parameter of the earlier.
RulesDiffer ==
  \A f \in Fields : \A asked \in AttributeSets[f] : \A a, b \in DOMAIN asked :
    a # b => RuleNames(a, asked[a]) \intersect RuleNames(b, asked[b]) = {}

VARIABLES
  attributes,   \* the fields' attributes, and which of them are checkboxes
  checkboxes,
  present,      \* fields that are in the form
  rules,        \* rules[f], of the options that validationInfo keeps for the form
  settings,     \* the rules that the form's validator copied from them
  attached,     \* whether there is a validator
  handlers,     \* handlers of the reset event
  value,        \* value[f]: what the field contains
  mark,         \* mark[f]: the class of f's message container
  summary,      \* fields in the validation summary, while that is shown
  invalid, submitted, errorMap,    \* of the validator
  previous,     \* previous[f]: f's "previousValue"
  request,      \* request[f]: the value sent to be checked, and for which previousValue
  pending,      \* fields in the validator's pending
  formSubmitted,
  sent          \* the browser has sent the form

pageVars == <<attributes, checkboxes, present, rules, settings, attached, handlers>>
remoteVars == <<previous, request, pending>>
shownVars == <<mark, summary, invalid, submitted, errorMap>>
vars == <<pageVars, value, shownVars, remoteVars, formSubmitted, sent>>

Unasked == [old |-> NoValue, valid |-> TRUE]
NoRequest == [value |-> NoValue, stale |-> FALSE]
InForce == {f \in Fields : DOMAIN settings[f] # {}}

Init ==
  /\ attributes \in {a \in [Fields -> UNION {AttributeSets[f] : f \in Fields}] :
                       \A f \in Fields : a[f] \in AttributeSets[f]}
  /\ checkboxes \in SUBSET {f \in Fields : DOMAIN attributes[f] = {"required"}}
  /\ present \in SUBSET Fields
  /\ rules = [f \in Fields |-> NoRules] /\ settings = [f \in Fields |-> NoRules]
  /\ attached = FALSE /\ handlers = 0
  /\ value = [f \in Fields |-> 0]
  /\ mark = [f \in Fields |-> "field-validation-valid"]
  /\ summary = {} /\ submitted = {} /\ errorMap = {}
  /\ invalid = [f \in Fields |-> "no key"]
  /\ previous = [f \in Fields |-> Unasked]
  /\ request = [f \in Fields |-> NoRequest]
  /\ pending = {} /\ formSubmitted = FALSE /\ sent = FALSE
-----------------------------------------------------------------------------
(***************************************************************************)
(* The page has its fields parsed.                                         *)
(***************************************************************************)

\* The page adds a field.
Insert(f) ==
  /\ f \notin present
  /\ present' = present \union {f}
  /\ UNCHANGED <<attributes, checkboxes, rules, settings, attached, handlers, value,
                 shownVars, remoteVars, formSubmitted, sent>>

Parsed(S) ==
  [f \in Fields |-> IF f \in S THEN ParsedRules(attributes[f], f \in checkboxes, present)
                    ELSE rules[f]]

\* attachValidation: one handler of reset events, also when it is called again, and a
\* validator, unless there is one.  That takes a copy of the rules.
AttachValidation ==
  /\ handlers' = 1
  /\ attached' = TRUE
  /\ settings' = IF attached THEN settings ELSE rules'

parseRest == <<attributes, checkboxes, present, value, shownVars, remoteVars,
               formSubmitted, sent>>

\* parse, of the document or a part of it.
Parse(S) ==
  /\ S # {} /\ S \subseteq present
  /\ rules' = Parsed(S)
  /\ AttachValidation
  /\ UNCHANGED parseRest

\* parseElement, which may leave it to others to attach the validation.
ParseElement(f, skipAttach) ==
  /\ f \in present
  /\ rules' = Parsed({f})
  /\ IF skipAttach THEN UNCHANGED <<settings, attached, handlers>> ELSE AttachValidation
  /\ UNCHANGED parseRest
-----------------------------------------------------------------------------
(***************************************************************************)
(* The validator checks fields.                                            *)
(***************************************************************************)

\* Only one rule, and one that an empty value does not concern.
NotConcerned(f) ==
  value[f] = 0 /\ Cardinality(DOMAIN settings[f]) = 1 /\ DOMAIN settings[f] \subseteq Optional

\* check.  The server is asked last, once for the same value; to the next check the
\* answer to an earlier value is good enough.
Check(f, known) ==
  CASE ~AllAccept(settings[f], value[f], value) -> "error"
    [] NotConcerned(f) -> "none"
    [] /\ AllAccept(settings[f], value[f], value) /\ ~NotConcerned(f)
       /\ "remote" \in DOMAIN settings[f] /\ value[f] # 0 ->
         IF known[f].old # value[f] THEN "pending"
         ELSE IF known[f].valid THEN "success" ELSE "error"
    [] OTHER -> "success"

\* The fields that check finds so.
Found(S, known, verdict) == {f \in S : Check(f, known) = verdict}

\* startRequest; a request for an earlier value is aborted.
Asked(known, asked) ==
  [f \in Fields |-> IF f \in asked THEN [known[f] EXCEPT !.old = value[f]] ELSE known[f]]
Requests(asked, in) ==
  [f \in Fields |-> IF f \in asked THEN [value |-> value[f], stale |-> FALSE] ELSE in[f]]

\* onError, as errorPlacement, and onSuccess, as success, of the form's messages.
OnError(shown, errors) ==
  [f \in Fields |-> IF f \in errors THEN "field-validation-error" ELSE shown[f]]
OnSuccess(shown, successes) ==
  [f \in Fields |-> IF f \in successes THEN "field-validation-valid" ELSE shown[f]]

\* showErrors.
ShowErrors(errors, successes) == mark' = OnSuccess(OnError(mark, errors), successes)

\* element, when the user leaves a field, or types in one that has been found invalid, or
\* leaves the one that it has to be equal to.
Validate(f) ==
  LET errors == Found({f}, previous, "error")
      asked == Found({f}, previous, "pending")
  IN  /\ ~sent /\ f \in InForce \intersect present
      /\ \/ f \in submitted \/ invalid[f] # "no key"
         \/ value[f] # 0 /\ f \notin checkboxes
         \/ "equalTo" \in DOMAIN settings[f]
      /\ ShowErrors(errors, Found({f}, previous, "success"))
      /\ errorMap' = errors
      /\ invalid' = [invalid EXCEPT ![f] = IF f \in errors THEN "true" ELSE "false"]
      /\ submitted' = submitted \union errors
      /\ previous' = Asked(previous, asked)
      /\ request' = Requests(asked, request)
      /\ pending' = pending \union asked
      /\ UNCHANGED <<pageVars, value, summary, formSubmitted, sent>>

\* Mutant: the summary lists all that has ever been found.
OnErrorsEver(errors) == summary' = IF errors = {} THEN summary ELSE errors \union submitted

\* onErrors: the summary lists what the validator has found.
OnErrors(errors) == summary' = IF errors = {} THEN summary ELSE errors

\* form, with what is known of the server's answers.
Form(known, in, waiting) ==
  LET fields == InForce \intersect present
      errors == Found(fields, known, "error")
      asked == Found(fields, known, "pending")
  IN  /\ ShowErrors(errors, Found(fields, known, "success"))
      /\ errorMap' = errors
      /\ invalid' = [f \in Fields |-> IF f \in errors THEN "true" ELSE "no key"]
      /\ submitted' = submitted \union errors
      /\ OnErrors(errors)
      /\ previous' = Asked(known, asked)
      /\ request' = Requests(asked, in)
      /\ pending' = waiting \union asked

Refused(known) == Found(InForce \intersect present, known, "error") # {}

\* Mutant: the form does not wait for answers.
SubmitAtOnce ==
  /\ ~sent /\ attached
  /\ Form(previous, request, pending)
  /\ sent' = ~Refused(previous)
  /\ UNCHANGED <<pageVars, value, formSubmitted>>

\* The user submits, and the form is sent when no field is in error, and none waits for
\* its answer.
Submit ==
  /\ ~sent /\ attached
  /\ Form(previous, request, pending)
  /\ sent' = (~Refused(previous) /\ pending' = {})
  /\ formSubmitted' = (formSubmitted \/ (~Refused(previous) /\ pending' # {}))
  /\ UNCHANGED <<pageVars, value>>

\* The user edits a field.
Edit(f, v) ==
  /\ ~sent /\ f \in present /\ value[f] # v
  /\ value' = [value EXCEPT ![f] = v]
  /\ UNCHANGED <<pageVars, shownVars, remoteVars, formSubmitted, sent>>
-----------------------------------------------------------------------------
(***************************************************************************)
(* The server answers.                                                     *)
(***************************************************************************)

\* previousValue, unless a reset has replaced it.
Learned(f) ==
  IF request[f].stale THEN previous
  ELSE [previous EXCEPT ![f].valid = request[f].value \notin Taken]

\* The request is over.
Without(f) == [request EXCEPT ![f] = NoRequest]

\* remote's success function and stopRequest, when no submitted form waits for this
\* answer alone ...
Answer(f) ==
  LET valid == request[f].value \notin Taken
  IN  /\ ~sent /\ request[f].value # NoValue
      /\ ~(formSubmitted /\ pending = {f} /\ valid)
      /\ ShowErrors({f} \ {g \in {f} : valid}, {g \in {f} : valid})
      /\ errorMap' = IF valid THEN {} ELSE errorMap \union {f}
      /\ invalid' = [invalid EXCEPT ![f] = IF valid THEN "false" ELSE "true"]
      /\ previous' = Learned(f)
      /\ request' = Without(f)
      /\ pending' = pending \ {f}
      /\ IF formSubmitted /\ pending = {f}
         THEN OnErrors(errorMap') /\ formSubmitted' = FALSE
         ELSE UNCHANGED <<summary, formSubmitted>>
      /\ UNCHANGED <<pageVars, value, submitted, sent>>

\* ... and when one does: the form is checked again and, if no field is in error,
\* submitted, which checks it once more.  If one is, it goes on waiting.
AnswerAndSubmit(f) ==
  LET known == Learned(f)
      asked == Found(InForce \intersect present, known, "pending")
      again == Asked(known, asked)
  IN  /\ ~sent /\ formSubmitted /\ pending = {f}
      /\ request[f].value # NoValue /\ request[f].value \notin Taken
      /\ IF Refused(known)
         THEN Form(known, Without(f), {}) /\ UNCHANGED <<formSubmitted, sent>>
         ELSE /\ Form(again, Requests(asked, Without(f)), asked)
              /\ sent' = (~Refused(again) /\ asked = {})
              /\ formSubmitted' = FALSE
      /\ UNCHANGED <<pageVars, value>>
-----------------------------------------------------------------------------
\* The user resets the form, and onReset the validator and the messages.  Neither takes
\* back a request, nor the submission that waits for it.
Reset ==
  /\ ~sent
  /\ value' = [f \in Fields |-> 0]
  /\ IF handlers = 0 THEN UNCHANGED <<shownVars, remoteVars>>
     ELSE /\ mark' = [f \in Fields |-> "field-validation-valid"]
          /\ summary' = {} /\ submitted' = {} /\ errorMap' = {}
          /\ invalid' = [f \in Fields |-> "no key"]
          /\ previous' = [f \in Fields |-> IF f \in InForce THEN Unasked ELSE previous[f]]
          /\ request' = [f \in Fields |-> IF f \in pending THEN [request[f] EXCEPT !.stale = TRUE]
                                          ELSE request[f]]
          /\ UNCHANGED pending
  /\ UNCHANGED <<pageVars, formSubmitted, sent>>
-----------------------------------------------------------------------------
Next ==
  \/ \E f \in Fields : Insert(f) \/ Validate(f) \/ Answer(f) \/ AnswerAndSubmit(f)
  \/ \E S \in SUBSET Fields : Parse(S)
  \/ \E f \in Fields, skipAttach \in BOOLEAN : ParseElement(f, skipAttach)
  \/ \E f \in Fields, v \in Values : Edit(f, v)
  \/ Submit
  \/ Reset

Spec == Init /\ [][Next]_vars
-----------------------------------------------------------------------------
(***************************************************************************)
(* Properties.                                                             *)
(***************************************************************************)

Within(value_, params) ==
  /\ Given(params, "min") => value_ >= params.min
  /\ Given(params, "max") => value_ <= params.max

\* What an attribute asks of a value, as the server understands it.
Asks(a, params, checkbox, v, values) ==
  /\ a = "required" => checkbox \/ v # 0
  /\ a \in {"length", "range", "minlength", "maxlength", "password"} => v = 0 \/ Within(v, params)
  /\ a = "password" /\ Given(params, "nonalphamin") => v >= params.nonalphamin
  /\ a = "equalto" => v = values[params.other]
  /\ a = "remote" => v \notin Taken

Meant(f, v) ==
  \A a \in DOMAIN attributes[f] : Asks(a, attributes[f][a], f \in checkboxes, v, value)

\* A range with only one bound is compared as text, and so says what it means only of
\* values with as many digits.
Comparable(a, params, v) ==
  \/ a # "range" \/ v = 0
  \/ Given(params, "min") /\ Given(params, "max")
  \/ \A p \in {"min", "max"} : Given(params, p) => Digits[params[p]] = Digits[v]

AllComparable(f, v) == \A a \in DOMAIN attributes[f] : Comparable(a, attributes[f][a], v)

\* The rules in force accept exactly the values that the attributes mean, whatever the
\* adapters make of them and whenever they were parsed, but for the other field of
\* equalto that was not yet there, for the server, and for numbers that a lone bound is
\* not comparable with.
RulesMeanAttributes ==
  \A f \in InForce :
    ("equalto" \in DOMAIN attributes[f] => "equalTo" \in DOMAIN settings[f]) =>
      \A v \in Values : v \notin Taken /\ AllComparable(f, v) =>
        (Meant(f, v) <=> AllAccept(settings[f], v, value))

\* A form is sent only with values that all attributes in force, and the server, accept,
\* however submissions, edits, resets and late answers follow each other; but for the
\* numbers that a lone bound lets through as texts.
SentIsAccepted ==
  sent => \A f \in InForce \intersect present :
            /\ "equalto" \in DOMAIN attributes[f] => "equalTo" \in DOMAIN settings[f]
            /\ AllComparable(f, value[f])
            => Meant(f, value[f])

\* A field is marked as in error exactly when the validator holds it to be invalid,
\* unless its answer is outstanding.
MarksAgree ==
  \A f \in InForce \ pending :
    mark[f] = "field-validation-error" <=> invalid[f] = "true"

\* Whenever the summary is shown anew, each field that it lists is marked, too.
SummaryIsMarked ==
  [][summary' # summary => \A f \in summary' : mark'[f] = "field-validation-error"]_vars
=============================================================================
