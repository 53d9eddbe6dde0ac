SPECIFICATION HandoverSpec
CONSTANTS
  Sids = {i1}
  Sockets = {s1}
  Trans = {poll, web}
  Conns = {cGet, cPost, cWeb}
  MaxPackets = 7
  Keeps = TRUE
  NoSid = NoSid
  NoSocket = NoSocket
  NoTran = NoTran
  NoConn = NoConn
  S = s1
  I = i1
  Poll = poll
  Web = web
  GetConn = cGet
  PostConn = cPost
  WebConn = cWeb
  MaxMessages = 3
  MaxSends = 2
INVARIANTS
  HandoverTypeOK HandoverIsSeamless TransmittedOnce NoPollLeftBehind TerminatesOnlyOnClose
PROPERTIES
  OnlyParkedPollBlocks OnlyLostPingStalls
CHECK_DEADLOCK FALSE
