\* The data cache with the real line length and recovery time: two ways, two sets.
SPECIFICATION FairSpec
CONSTANTS
  WAYS = 2
  SETS = 2
  TAGS = 3
  LINEWORDS = 8
  WORDBYTES = 2
  BYTES = 3
  FINISHES = 7
  HOLDS = TRUE
  Requests <- DataRequests
  Images <- MCImages
INVARIANTS TypeOK UniqueTags OneIncoming CleanLinesMatchMemory FlushLeavesNothing TransferMatchesMiss
PROPERTIES ImplementsSequentialMemory RequestServed
