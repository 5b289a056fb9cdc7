\* Two observers, two events and a fault, before and after the bus is started.
CONSTANTS
  Observers = {o1, o2}
  MaxEvents = 2
  MaxFaults = 1
SPECIFICATION FairSpec
INVARIANTS
  TypeOK
  AtMostOnce
  RunningIsConnected
PROPERTIES
  InOrder
  LateByOne
  NobodyMissesSilently
  BusStarts
CHECK_DEADLOCK FALSE
