SPECIFICATION Spec
CONSTANTS
  Threads = {t1}
  Channels = {socket, other}
  Functors <- ConnectionFunctors
  MaxQueued = 2
  Socket = socket
  Other = other
  LoopCaller = loop
  MaxSends = 0
  MessageBytes = 1
PROPERTIES
  ClosedIsFreed
CHECK_DEADLOCK FALSE
