SPECIFICATION Spec
CONSTANTS
  WAYS = 2
  SETS = 1
  TAGS = 3
  LINEWORDS = 2
  WORDBYTES = 1
  BYTES = 6
  FINISHES = 1
  Requests <- MCReads
  Images <- MCImages
PROPERTIES FetchedInstruction
