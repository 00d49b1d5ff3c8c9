\* As HeapBlocks.cfg.
SPECIFICATION Spec
CHECK_DEADLOCK FALSE
CONSTANTS
  WORD = 64
  HEAPSTART = 40
  BREAKSTART = 8
  HEAPLIMIT = 55
  MAXBLOCKS = 4
  MINSIZE = 4
  Requests = {3, 5, 8}
  Increments = {8, 24, 32, 56}
PROPERTIES RefusedWhenFull
