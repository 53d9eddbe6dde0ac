SPECIFICATION Spec
CONSTANTS
  Sids = {i1}
  Sockets = {s1}
  Trans = {t1, t2, t3}
  Conns = {c1, c2, c3}
  MaxPackets = 4
  Keeps = TRUE
  NoSid = NoSid
  NoSocket = NoSocket
  NoTran = NoTran
  NoConn = NoConn
SYMMETRY Symmetry
INVARIANTS
  TypeOK CurrentIsBound StallsOnlyAfterUpgrade NoLossWhileConnected
PROPERTIES
  SwitchesToWebsocket ImplementsDelivery
CHECK_DEADLOCK FALSE
