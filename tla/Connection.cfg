SPECIFICATION Spec
CONSTANTS
  Threads = {t1}
  Channels = {socket, other}
  Functors <- ConnectionFunctors
  MaxQueued = 4
  Socket = socket
  Other = other
  LoopCaller = loop
  MaxSends = 2
  MessageBytes = 2
INVARIANTS
  TypeOK AssertionsHold SentInOrder BufferedIsAwaited ClosedStaysQuiet SendsFindConnection
PROPERTIES
  CloseIsHandled
CHECK_DEADLOCK FALSE
