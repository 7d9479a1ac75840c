SPECIFICATION FairSpec
CONSTANTS
  Calls = {c1}
  NoCall = NoCall
  Ping = Ping
  IdSpace = 4
  NumShards = 2
  QueueCap = 1
  SocketCap = 1
PROPERTIES CallsReturn PeerCloseNoticed ClosedWriterStops
CHECK_DEADLOCK FALSE
