\* The pipeline of project 2 under every pattern of stalls.
SPECIFICATION DataSpec
CONSTANTS
  WORDS = 19
  Program <- MCProgram
  RESET_PC = 1
  Bubble = Bubble
  Registers <- MCRegisters
  ANSWER = 2
  OLDEST = 4
INVARIANTS TypeOK SysSeesResults DecodeReadsCurrent ExecuteReadsCurrent MemoryReadsCurrent RegistersFollowProgram
PROPERTIES KeepsProgramOrder LeavesWhenCalled SyscallIsCalled
