\* Two calls that share a replica, its channel and its tokens, with RejectRequest:
\* double settlement, faulted channels, one call's fault taking the other down.
CONSTANTS
  Calls = {c1, c2}
  Hosts = {h1}
  Prefetch = 2
  MaxDeliveries = 1
  Outcomes = {"value", "reject"}
  GenericCalls = {}
  MaxRetries = 0
  MaxCrashes = 0
SYMMETRY CallSymmetry
SPECIFICATION Spec
INVARIANTS
  SuccessIsOwn
CHECK_DEADLOCK FALSE
