\* every header of up to three ranges, for a file of up to three bytes; two directories that change twice,
\* and two requests of a client with a cache
CONSTANTS
  MaxSize = 3
  ChunkSize = 2
  Requests <- MCRequests
  Directories = 2
  Trees <- MCTrees
  Edits <- MCEdits
  MaxTime = 2
  Sizes = {1, 2}
  MaxChanges = 2
  MaxRequests = 2
SPECIFICATION AnswersSpec
INVARIANTS BodyAsAnnounced RightFile
PROPERTIES WireInOrder Finishes
