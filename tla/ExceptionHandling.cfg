\* an application mounted in another, with every set of handlers in each
CONSTANTS
  Apps = {"outer", "inner"}
  Layers <- Mounted
  Keys = {"404", "Custom", "RuntimeError", "Exception"}
  Exceptions <- MCExceptions
  Mro <- MCMro
  Status <- MCStatus
  NoStatus = "no status"
  ClientGone = "OSError"
  AlreadyStarted = "RuntimeError"
  MaxBody = 1
SPECIFICATION Spec
INVARIANTS RightHandler ErrorIsTold
PROPERTIES WireInOrder NoHandlerAfterStart
\* the request is over
CHECK_DEADLOCK FALSE
