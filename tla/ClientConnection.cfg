SPECIFICATION FairSpec
CONSTANTS
  Pieces = {"read", "write", "segments", "codecs", "keepalive", "noise",
            "absurd", "short", "binary", "long", "tiny", "wide", "unmarked",
            "cut"}
  MaxPieces = 2
  MaxRead = 20
  max_buffer_size = 37
  max_frame_size = 18
  frame_timeout = 1
  idle_timeout = 1
  ScanWindow = 6
  ScanKeep = 2
INVARIANTS TypeOK FramesFound CompliantServed AnsweredInOrder
PROPERTY HandlerEnds
CHECK_DEADLOCK FALSE
