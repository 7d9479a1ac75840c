SPECIFICATION FairSpec
CONSTANTS
  Shards = {h1, h2}
  Bridges = {b1}
  Segments = {s1}
  NoShard = NoShard
  MaxVersion = 3
INVARIANTS TypeOK RoutedShardsHaveBridges HopsRegistered BelievedMeansTrue
PROPERTY BridgesConverge
CHECK_DEADLOCK FALSE
