SPECIFICATION StreamSpec
CONSTANTS
  FrameSet <- MCFrames
  ShortLen = 2
  CheapPrepend = 8
  MaxFrames = 3
INVARIANT PrependFits
CHECK_DEADLOCK FALSE
