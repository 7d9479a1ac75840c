SPECIFICATION FairSpec
CONSTANTS
  Pieces = {"read"}
  MaxPieces = 1
  MaxRead = 20
  max_buffer_size = 37
  max_frame_size = 18
  frame_timeout = 1
  idle_timeout = 4
  ScanWindow = 6
  ScanKeep = 2
INVARIANT FrameGetsItsTime
CHECK_DEADLOCK FALSE
