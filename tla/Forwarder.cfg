SPECIFICATION FairSpec
CONSTANTS
  Requests = {q}
  Hops = {h1, h2}
  Slots = {s1}
  MaxRetries = 2
  Clrids = {1}
  NoConn = NoConn
INVARIANTS TypeOK WriteRetriedOnlyAfterClose OutcomeExplained HopAskedOncePerAttempt
PROPERTY ForwardReturns
CHECK_DEADLOCK FALSE
