\* a function that raises HTTPException
CONSTANTS
  t1 = t1
  t2 = t2
  Tasks = {t1}
  Kinds = {"function"}
  Raisable = {"HTTPException"}
  Codes = {"None", "1000", "1001"}
  MaxReceive = 1
  MaxSend = 3
SPECIFICATION SessionsSpec
INVARIANTS AcceptedStaysWebSocket
\* the connection is over
CHECK_DEADLOCK FALSE
