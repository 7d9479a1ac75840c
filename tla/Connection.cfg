SPECIFICATION Spec
CONSTANTS
  Calls = {c1, c2}
  NoCall = NoCall
  Ping = Ping
  IdSpace = 4
  NumShards = 2
  QueueCap = 1
  SocketCap = 1
SYMMETRY CallSymmetry
INVARIANTS TypeOK EarlyCallsNotified NoLeakedEntry NoCrossDelivery SenderNotDropped
PROPERTY ImplementsSendAndWait
CHECK_DEADLOCK FALSE
