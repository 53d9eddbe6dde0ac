SPECIFICATION StreamSpec
CONSTANTS
  FrameSet <- MCFrames
  ShortLen = 2
  CheapPrepend = 8
  MaxFrames = 3
INVARIANT WaitsForMoreData
CHECK_DEADLOCK FALSE
