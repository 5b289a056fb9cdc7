\* Two fields, three values.
CONSTANTS
  a = a
  b = b
  Fields = {a, b}
  Values <- ValuesValue
  Taken = {1}
  AttributeSets <- AttributeSetsValue
SPECIFICATION Spec
INVARIANTS
  RulesMeanAttributes
  SentIsAccepted
  MarksAgree
PROPERTIES
  SummaryIsMarked
CHECK_DEADLOCK FALSE
