\* Bounds: two calls on our side, one request of the other.
SPECIFICATION Spec
CONSTANTS
  MaxCalls = 2
  MaxRequests = 1
  LateCalls = TRUE
  Cancels = TRUE
  WrongTypes = TRUE
INVARIANTS
  PeerInv
PROPERTIES
  WaitEnds
  PeerEnds
CHECK_DEADLOCK FALSE
