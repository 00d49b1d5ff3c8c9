\* A load, the number of a system call and the call, under every pattern of stalls.
SPECIFICATION DataSpec
CONSTANTS
  WORDS = 7
  Program <- MCStallProgram
  RESET_PC = 1
  Bubble = Bubble
  Registers <- MCRegisters
  ANSWER = 2
  OLDEST = 4
INVARIANTS CallSeesRegisters
