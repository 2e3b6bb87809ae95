\* Bounds: two connections to one node or two, of which one may fail, one
\* request waiting at each, one tip.
SPECIFICATION Spec
CONSTANTS
  c1 = c1
  c2 = c2
  Conns = {c1, c2}
  Keyings <- OneNodeOrTwo
  Tips = {"x"}
  NoConn = NoConn
  Queue = 1
  Closes = TRUE
  MaxFails = 1
  Fatal = {"request", "sync"}
INVARIANTS
  SyncInv
PROPERTIES
  RequestsHandled
  
  RunReturns
CHECK_DEADLOCK FALSE
