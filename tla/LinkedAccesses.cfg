\* ll and sc in a loop, under every pattern of stalls.
SPECIFICATION DataSpec
CONSTANTS
  WORDS = 6
  Program <- MCLinkedProgram
  RESET_PC = 1
  Bubble = Bubble
  Registers <- MCRegisters
  ANSWER = 2
  OLDEST = 4
PROPERTIES LinkedAccessesExecuted
