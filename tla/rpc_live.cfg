\* One call and two replicas of which one crashes or stops, under fairness: the call
\* returns, the request is settled, and the whole implements RpcPromise.  ReturnDefault
\* throws, as it does for an action that returns Task<T>.
CONSTANTS
  Calls = {c1}
  Hosts = {h1, h2}
  Prefetch = 1
  MaxDeliveries = 2
  Outcomes = {"value", "default"}
  GenericCalls = {c1}
  MaxRetries = 0
  MaxCrashes = 1
SPECIFICATION FairSpec
PROPERTIES
  RequestIsSettled
  KeepsPromise
CHECK_DEADLOCK FALSE
