\* dispatch() and downstream read the body, one after the other or at the same time
CONSTANTS
  MaxMessages = 3
  RepeatDisconnect = FALSE
SPECIFICATION BodySpec
INVARIANTS BodyDelivered EndIsTrue
PROPERTIES NothingAfterTheEnd EndReachesDownstream
\* the request is over: nobody reads any more
CHECK_DEADLOCK FALSE
