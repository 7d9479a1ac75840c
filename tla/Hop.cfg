SPECIFICATION FairSpec
CONSTANTS
  Pool = {p1, p2, p3, p4}
  Addresses = {a1, a2}
  ConnPerHop = 2
  Spawned = {r1}
  NoAddr = NoAddr
INVARIANTS TypeOK NeverOverProvisioned
PROPERTIES Recovers RetiredHopCloses
CHECK_DEADLOCK FALSE
