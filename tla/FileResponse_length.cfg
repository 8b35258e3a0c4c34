\* multipart responses
CONSTANTS
  MaxSize = 3
  ChunkSize = 2
  Requests <- MCMultipart
  Directories = 2
  Trees <- MCTrees
  Edits <- MCEdits
  MaxTime = 2
  Sizes = {1, 2}
  MaxChanges = 0
  MaxRequests = 0
SPECIFICATION AnswersSpec
INVARIANTS MultipartLengthAnnounced
