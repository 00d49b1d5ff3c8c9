\* A heap of 16 addresses; the system calls' least size is 4 instead of 32. The
\* simulator stops at a release of free memory, so a state without a step is allowed.
SPECIFICATION Spec
CHECK_DEADLOCK FALSE
CONSTANTS
  WORD = 64
  HEAPSTART = 40
  BREAKSTART = 8
  HEAPLIMIT = 55
  MAXBLOCKS = 4
  MINSIZE = 4
  Requests = {3, 5, 8}
  Increments = {8, 24, 32, 56}
INVARIANTS TypeOK BreakBetweenStarts
PROPERTIES ImplementsAllocator AlignedEndNeverRefuses
