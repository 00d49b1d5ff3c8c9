\* Every sequence of three loads, stores and system calls on two words.
SPECIFICATION Spec
CONSTANTS
  DIGIT = 4
  SIZE = 8
  MAXISSUED = 3
  Images <- MCImages
  Values <- MCValues
INVARIANTS TypeOK
PROPERTIES ImplementsMipsMemory
