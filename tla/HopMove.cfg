SPECIFICATION FairSpec
CONSTANTS
  Pool = {p1, p2}
  Addresses = {a1, a2}
  ConnPerHop = 1
  Spawned = {r1}
  NoAddr = NoAddr
PROPERTY FollowsMove
CHECK_DEADLOCK FALSE
