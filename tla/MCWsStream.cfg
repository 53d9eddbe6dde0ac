SPECIFICATION StreamSpec
CONSTANTS
  FrameSet <- MCFrames
  ShortLen = 2
  CheapPrepend = 8
  MaxFrames = 3
INVARIANTS
  StreamTypeOK CutsDoNotMatter ErrorHasCause MalformedCloses
CHECK_DEADLOCK FALSE
