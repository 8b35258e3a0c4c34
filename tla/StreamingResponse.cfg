\* servers of both kinds; an endpoint that streams, or a WSGI application
CONSTANTS
  Versions = {"2.3", "2.4"}
  MaxChunks = 3
  MaxRequests = 2
  MaxTasks = 2
  MaxUpload = 1
  MaxYields = 2
  MaxStarts = 2
SPECIFICATION AnswerSpec
INVARIANTS AfterTheStream ThreadTold
PROPERTIES AnswerInOrder AnswerEnds
