SPECIFICATION FairSpec
CONSTANTS
  Conns = {c1, c2, c3}
  max_connections = 2
  ZoneMode = TRUE
INVARIANTS TypeOK LimitKept SlotsAccounted
PROPERTIES SlotsReturn CancelExits StaysRegistered
CHECK_DEADLOCK FALSE
