SPECIFICATION Spec
CONSTANTS
  Requests = {q}
  Hops = {h1, h2}
  Slots = {s1}
  MaxRetries = 1
  Clrids = {0}
  NoConn = NoConn
INVARIANT WriteExecutedOnce
CHECK_DEADLOCK FALSE
