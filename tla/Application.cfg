\* two handlers of each kind, or a context manager; every path of up to three segments
CONSTANTS
  Contexts = {"handlers", "manager"}
  StateSupport = {TRUE, FALSE}
  MaxHandlers = 2
  MaxSends = 3
  MaxTestSends = 2
  MaxAppSends = 4
  MaxCalls = 1
  Routers <- MCRouters
  Apps <- MCApps
  Numbers <- MCNumbers
  Requests <- MCRequests
SPECIFICATION ApplicationSpec
INVARIANTS LifeInOrder RightRoute OwnUrl ClientTold
PROPERTIES AcceptedInOrder ClientReturns
