------------------------------- MODULE Fetch -------------------------------
(***************************************************************************)
(* ece401-project3's fetch stage (IF.v) with its instruction cache, a       *)
(* read-only instance of Cache.v, and sim_main's memory.  The reorder      *)
(* buffer may redirect the fetch at any rising edge; the address on the    *)
(* cache's wires then changes whether or not a miss is in progress.        *)
(***************************************************************************)
EXTENDS Cache, BlockMemory

VARIABLES
  Instr1_OUT, Instr_PC_OUT, Instr_PC_Plus4,   \* IF's registers
  STALL, Request_Alt_PC, Alt_PC,              \* IF's inputs from FIFO and ROB
  clock

fetchVars == <<Instr1_OUT, Instr_PC_OUT, Instr_PC_Plus4>>
vars == <<cacheVars, memoryVars, fetchVars, STALL, Request_Alt_PC, Alt_PC, clock>>

----------------------------------------------------------------------------
(* Word addresses and their cache fields.                                  *)

PCs == 0 .. TAGS * SETS * LINEWORDS - 1

ReadOf(pc) ==
  [NoRequest EXCEPT !.op = "read",
                    !.tag = pc \div (SETS * LINEWORDS),
                    !.index = (pc \div LINEWORDS) % SETS,
                    !.word = pc % LINEWORDS]

InstructionAt(pc) == memory[BlockOf(ReadOf(pc))][ReadOf(pc).word]

Plus4(pc) == (pc + 1) % (TAGS * SETS * LINEWORDS)

Instr_address_2IM == IF Request_Alt_PC THEN Alt_PC ELSE Instr_PC_Plus4

----------------------------------------------------------------------------

Init ==
  /\ CacheInit /\ MemoryInit
  /\ Instr1_OUT = ZeroWord /\ Instr_PC_OUT = 0 /\ Instr_PC_Plus4 = 0
  /\ STALL = FALSE /\ Request_Alt_PC = FALSE /\ Alt_PC = 0
  /\ clock = "service"

MemoryService ==
  /\ clock = "service" /\ clock' = "fall"
  /\ ServeRead(read_2DM, address_2DM)
  /\ UNCHANGED <<memory, block_write_valid, cacheVars, fetchVars,
                 STALL, Request_Alt_PC, Alt_PC>>

Fall ==
  /\ clock = "fall" /\ clock' = "rise"
  /\ NegEdge(ReadOf(Instr_address_2IM))
  /\ UNCHANGED <<memoryVars, fetchVars, STALL, Request_Alt_PC, Alt_PC>>

TakeInstruction ==
  IF ~STALL /\ OperationAccepted1
  THEN /\ Instr1_OUT' = ReadData1
       /\ Instr_PC_OUT' = Instr_address_2IM
       /\ Instr_PC_Plus4' = Plus4(Instr_address_2IM)
  ELSE UNCHANGED fetchVars

Rise ==
  /\ clock = "rise" /\ clock' = "service"
  /\ PosEdge(read_2DM /\ block_read_valid, block_read)
  /\ TakeInstruction
  /\ STALL' \in BOOLEAN /\ Request_Alt_PC' \in BOOLEAN
  /\ Alt_PC' \in IF Request_Alt_PC' THEN PCs ELSE {Alt_PC}
  /\ UNCHANGED memoryVars

Next == MemoryService \/ Fall \/ Rise

Spec == Init /\ [][Next]_vars

----------------------------------------------------------------------------

\* The instruction handed on is the one at the address handed on with it
\* (IF.v:14-17): a redirect that changes the address while memory's answer
\* for the old one is under way must not fill the new block with it.
FetchedInstruction ==
  [][Instr_PC_OUT' # Instr_PC_OUT => Instr1_OUT' = InstructionAt(Instr_PC_OUT')]_vars

\* A redirect that the reorder buffer does not repeat is loaded (IF.v:29-30):
\* the fetch goes on after Alt_PC, or still tries to fetch it.
RedirectTaken ==
  [][clock = "rise" /\ Request_Alt_PC /\ ~Request_Alt_PC'
       => Instr_PC_Plus4' \in {Alt_PC, Plus4(Alt_PC)}]_vars

=============================================================================
