\* One call and two replicas, with one crash or stop of a process or one rejection.  With
\* RejectRequest a replica is given the request again while it still answers it, and
\* settles it twice.
CONSTANTS
  Calls = {c1}
  Hosts = {h1, h2}
  Prefetch = 1
  MaxDeliveries = 2
  Outcomes = {"value", "default", "conflict", "unknown", "throws", "reject"}
  GenericCalls = {}
  MaxRetries = 0
  MaxCrashes = 1
SPECIFICATION Spec
SYMMETRY HostSymmetry
CONSTRAINT OneFault
INVARIANTS
  TypeOK
  AbortedOnlyOnRequest
  StatusAgreesOrTimerRaced
  AckedAnswerNotLost
  ExecutingIsCancellable
  NoConcurrentExecution
PROPERTY
  OutcomeIsFinal
CHECK_DEADLOCK FALSE
