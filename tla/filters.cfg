\* Two filters, and the service as a third, in every order, scope and role; what they
\* do is left to them.
CONSTANTS
  Filters = {f1, f2}
  Instance = service
  Orders = {0, 1}
  Scopes = {10, 30}
  HostRoleSets <- HostRoleSetsValue
  ClientRoleSets <- ClientRoleSetsValue
  MaxCalls = 2
SPECIFICATION Spec
INVARIANTS
  OuterFirst
  Nested
  AnswerIsGiven
PROPERTIES
  ShortCircuits
CHECK_DEADLOCK FALSE
