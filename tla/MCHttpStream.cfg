SPECIFICATION HttpSpec
CONSTANTS
  RequestSet <- MCRequests
  MaxRequests = 2
  CheapPrepend = 8
INVARIANTS
  HttpTypeOK RequestsArrive ClosedForCause
CHECK_DEADLOCK FALSE
