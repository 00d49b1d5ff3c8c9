---------------------------- MODULE BlockMemory ----------------------------
(***************************************************************************)
(* The memory behind a cache, as sim_main.cpp serves it: once per clock,   *)
(* just before the falling edge is evaluated, it looks at the cache's      *)
(* memory wires as the last rising edge left them, answers a block read if *)
(* its timing automaton allows and performs a block write at once.         *)
(***************************************************************************)
EXTENDS CacheGeometry

CONSTANT FINISHES   \* number of MEM_FSM_FINISHi states after a block read

ASSUME FinishesAssumption == FINISHES \in Nat

VARIABLES
  memory,                                        \* MAIN_MEMORY
  mem_fsm,                                       \* icache_fsm / dcache_fsm
  block_read, block_read_valid, block_write_valid    \* inputs of the processor

memoryVars == <<memory, mem_fsm, block_read, block_read_valid, block_write_valid>>

\* mem_fsm_t counted down: GO, then FINISH states, then IDLE.  (WAIT2 and
\* WAIT1 are never entered.)
MEM_FSM_IDLE == 0
MEM_FSM_GO   == FINISHES + 1

MemoryInit ==
  /\ memory \in Images
  /\ mem_fsm = MEM_FSM_IDLE
  /\ block_read = ZeroLine
  /\ block_read_valid = FALSE /\ block_write_valid = FALSE

\* A timing automaton that stops in its last state instead of idling again.
AdvancedToLast == IF mem_fsm > 1 THEN mem_fsm - 1 ELSE mem_fsm

\* update_mem_fsm
Advanced == IF mem_fsm = MEM_FSM_IDLE THEN MEM_FSM_IDLE ELSE mem_fsm - 1

\* mem_process_request: the request is served in IDLE (which moves to GO) and
\* in GO; in the FINISH states it has to wait.
ServeRead(read, address) ==
  /\ block_read' = IF read THEN memory[address] ELSE block_read
  /\ block_read_valid' = (read /\ Advanced \in {MEM_FSM_IDLE, MEM_FSM_GO})
  /\ mem_fsm' = IF read /\ Advanced = MEM_FSM_IDLE THEN MEM_FSM_GO ELSE Advanced

ServeWrite(write, address, data) ==
  /\ memory' = IF write THEN [memory EXCEPT ![address] = data] ELSE memory
  /\ block_write_valid' = write

\* A cycle in which SYS is high handles a system call instead of block
\* writes: it may store into the program's memory (a read fills a buffer),
\* and block_write_valid keeps its value.
ServeSyscall ==
  /\ \/ memory' = memory
     \/ \E r \in Requests :
          /\ r.op = "write"
          /\ memory' = [memory EXCEPT ![BlockOf(r)] = Stored(@, r)]
  /\ UNCHANGED block_write_valid

MemoryTypeOK ==
  /\ memory \in [Address -> Line]
  /\ mem_fsm \in 0 .. MEM_FSM_GO
  /\ block_read \in Line
  /\ block_read_valid \in BOOLEAN /\ block_write_valid \in BOOLEAN

=============================================================================
