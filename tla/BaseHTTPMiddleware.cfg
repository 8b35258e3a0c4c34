\* one request message, two response chunks
CONSTANTS
  MaxMessages = 1
  RepeatDisconnect = TRUE
  MaxBody = 2
SPECIFICATION Spec
INVARIANT BodyComplete
PROPERTIES WireInOrder RequestGiven NobodyWaits
\* the call is over
CHECK_DEADLOCK FALSE
