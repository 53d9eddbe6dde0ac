SPECIFICATION Spec
CONSTANTS
  Sids = {i1, i2}
  Sockets = {s1, s2}
  Trans = {t1, t2, t3}
  Conns = {c1, c2}
  MaxPackets = 2
  Keeps = TRUE
  NoSid = NoSid
  NoSocket = NoSocket
  NoTran = NoTran
  NoConn = NoConn
SYMMETRY Symmetry
INVARIANTS
  AnsweredOnce ParkedPollIsAwaited WritableHasPoll InOrder
CHECK_DEADLOCK FALSE
