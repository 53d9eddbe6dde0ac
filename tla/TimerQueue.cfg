SPECIFICATION Spec
CONSTANTS
  Threads = {t1}
  Channels = {timerfd, socket}
  Functors <- TimerFunctors
  MaxQueued = 2
  TimerChannel = timerfd
  Addrs = {a1, a2}
  Nothing = Nothing
  MaxTimers = 2
  MaxTime = 2
INVARIANTS
  TypeOK FunctorsInOrder NoLostWakeup TimersAgree NeverOversleeps CancelledStaysCancelled
PROPERTIES
  FunctorsRun DueTimersRun QuitStops
CHECK_DEADLOCK FALSE
