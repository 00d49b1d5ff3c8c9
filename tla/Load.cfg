\* Loading and booting small executables, whole and damaged.
SPECIFICATION Spec
CONSTANTS
  HALFWORD = 8
  NOOP_LOOP = 7
  DEFAULT = 114
  DEFAULT_CXX = 110
  NO_GP = 63
  Files <- MCFiles
  Garbage <- MCGarbage
  GSP = 34
  RESET = 40
  BootPage <- MCBootPage
  Addresses <- MCAddresses
  Delays = {1, 2, 5, 8}
INVARIANTS TypeOK MemoryIsImage EntersAtEntry TextLoaderAgrees RedirectsAsListed
PROPERTIES BootReachesEntry
CHECK_DEADLOCK FALSE
