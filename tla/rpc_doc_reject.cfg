\* The documented RejectRequest.
CONSTANTS
  Calls = {c1}
  Hosts = {h1, h2}
  Prefetch = 1
  MaxDeliveries = 2
  Outcomes = {"value", "reject"}
  GenericCalls = {}
  MaxRetries = 0
  MaxCrashes = 0
SPECIFICATION Spec
INVARIANT
  RejectedIsNotAnswered
CHECK_DEADLOCK FALSE
