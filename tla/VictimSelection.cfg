\* Ages and victims: five blocks compete for four ways.
SPECIFICATION Spec
CONSTANTS
  WAYS = 4
  SETS = 1
  TAGS = 5
  LINEWORDS = 2
  WORDBYTES = 1
  BYTES = 5
  FINISHES = 1
  HOLDS = TRUE
  Requests <- VictimRequests
  Images <- MCImages
INVARIANTS AgesDistinct
PROPERTIES OnlyColdLinesReplaced
