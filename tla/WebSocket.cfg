\* endpoints of both kinds, and two tasks that both read and write, and may race for the handshake
CONSTANTS
  t1 = t1
  t2 = t2
  Tasks = {t1, t2}
  Kinds = {"function", "class"}
  Raisable = {"HTTPException", "WebSocketException", "Other"}
  Codes = {"None", "1000", "1001"}
  MaxReceive = 2
  MaxSend = 4
SPECIFICATION SessionsSpec
INVARIANTS NothingLost EndingTold
PROPERTIES WireInOrder SilentOnceLost ReaderReturns Disconnects
\* the connection is over
CHECK_DEADLOCK FALSE
