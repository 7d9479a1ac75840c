SPECIFICATION FairSpec
CONSTANTS
  Shards = {h1, h2}
  Bridges = {}
  Segments = {s1}
  NoShard = NoShard
  MaxVersion = 4
PROPERTY SegmentsConverge
CHECK_DEADLOCK FALSE
