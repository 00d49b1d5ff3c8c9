----------------------------- MODULE MemoryPort -----------------------------
(***************************************************************************)
(* Loads and stores of a processor without a data cache: MEM.v of project  *)
(* 2, which turns each into an aligned read or a write of one to four      *)
(* bytes, and the memory accesses that sim_main.cpp does before it         *)
(* evaluates each edge of the clock.  System calls, which store into the   *)
(* same memory, are handled between the access and the falling edge.       *)
(***************************************************************************)
EXTENDS MainMemory

CONSTANTS
  SIZE,        \* bytes of memory
  Images,      \* what memory may hold at first
  Values,      \* results of instructions that are not loads, values stored by
               \*   system calls
  MAXISSUED    \* bound: operations and system calls of one behaviour

ASSUME SizeAssumption == SIZE \in Nat /\ SIZE % 4 = 0
ASSUME ValuesAreWords == Values \subseteq 0 .. FULL - 1
ASSUME SomeAreIssued == MAXISSUED \in Nat
ASSUME ImagesAreBytes == Images \subseteq [0 .. SIZE - 1 -> 0 .. BYTE - 1]

VARIABLES
  MAIN_MEMORY,
  CLK, stage,          \* the edge the loop is at, and how far its turn is
  operation,           \* what MEM holds: ALU_Control1_IN and ALU_result1_IN
  register,            \* the value of WriteRegister1_IN as instructions see it
  data_read_fDM,
  issued

vars == <<MAIN_MEMORY, CLK, stage, operation, register, data_read_fDM, issued>>

Address == 0 .. SIZE - 1

LoadOperations  == {"LW", "LB", "LBU", "LH", "LHU", "LWL", "LWR"}
StoreOperations == {"SW", "SH", "SB", "SWL", "SWR"}

\* Compilers align words and halfwords.
Operations ==
  {o \in [op : LoadOperations \cup StoreOperations, address : Address] :
     /\ o.op \in {"LW", "SW"} => o.address % 4 = 0
     /\ o.op \in {"LH", "LHU", "SH"} => o.address % 2 = 0}

NoOperation == [op |-> "NOP", address |-> 0]

MemRead  == operation.op \in LoadOperations
MemWrite == operation.op \in StoreOperations

----------------------------------------------------------------------------
(* MEM.v.                                                                  *)

\* Bytes low .. high of a word, the least significant being byte 0.
Slice(word, high, low) == (word \div ByteValues(low)) % ByteValues(high - low + 1)

\* (The sign of a halfword extended as if it were a byte's.)
SignExtendedShort(value, n) ==
  IF 2 * value >= ByteValues(n) THEN FULL - BYTE + value ELSE value

\* A value of n bytes with its sign bit repeated to the left.
SignExtended(value, n) ==
  IF 2 * value >= ByteValues(n) THEN FULL - ByteValues(n) + value ELSE value

data_read_aligned(op, at, MemoryData, read) ==
  CASE op = "LWL" ->
         Slice(read, 3 - at, 0) * ByteValues(at) + (MemoryData % ByteValues(at))
    [] op = "LWR" ->
         MemoryData - Slice(MemoryData, at, 0) + Slice(read, 3, 3 - at)
    [] op = "LB"  -> SignExtended(Slice(read, 3 - at, 3 - at), 1)
    [] op = "LBU" -> Slice(read, 3 - at, 3 - at)
    [] op = "LH"  -> SignExtended(Slice(read, 3 - at, 2 - at), 2)
    [] op = "LHU" -> Slice(read, 3 - at, 2 - at)
    [] OTHER -> read

\* (swr with the count of swl.)
WriteBytesOnLeft(op, at) ==
  CASE op = "SB" -> 1 [] op = "SH" -> 2 [] op \in {"SWL", "SWR"} -> 4 - at [] OTHER -> 4

\* data_write_size_2DM counts the bytes, 0 for all four; of data_write_2DM
\* the bytes that are written (the others keep the values of an earlier store).
WriteBytes(op, at) ==
  CASE op = "SB"  -> 1
    [] op = "SH"  -> 2
    [] op = "SWL" -> 4 - at
    [] op = "SWR" -> at + 1
    [] OTHER -> 4

data_write_2DM(op, at, MemoryData) ==
  IF op = "SWL" THEN Slice(MemoryData, 3, at)
  ELSE Slice(MemoryData, WriteBytes(op, at) - 1, 0)

data_address_2DM ==
  IF operation.op \in StoreOperations \ {"SWR"} THEN operation.address
  ELSE operation.address - (operation.address % 4)

----------------------------------------------------------------------------
(* sim_main.cpp.                                                           *)

\* A write of three bytes is a byte and a halfword.
PortWrite(memory, address, size, data) ==
  CASE size = 4 -> writeWord(memory, address, data)
    [] size = 1 -> writeByte(memory, address, data)
    [] size = 2 -> writeHalfWord(memory, address, data)
    [] size = 3 -> writeHalfWord(writeByte(memory, address, data \div HALF), address + 1, data)

MemoryAccess ==
  /\ stage = "access"
  /\ stage' = IF CLK = 0 THEN "syscall" ELSE "eval"
  /\ data_read_fDM' = IF MemRead THEN readWord(MAIN_MEMORY, data_address_2DM) ELSE data_read_fDM
  /\ LET at == operation.address % 4 IN
     MAIN_MEMORY' = IF MemWrite
                    THEN PortWrite(MAIN_MEMORY, data_address_2DM, WriteBytes(operation.op, at),
                                   data_write_2DM(operation.op, at, register))
                    ELSE MAIN_MEMORY
  /\ UNCHANGED <<CLK, operation, register, issued>>

\* SYS is raised when everything before the call is done, so not while MEM
\* still holds a store (MIPS.v).
SystemCall ==
  /\ stage = "syscall" /\ stage' = "eval"
  /\ \/ UNCHANGED <<MAIN_MEMORY, issued>>
     \/ /\ ~MemWrite /\ issued < MAXISSUED /\ issued' = issued + 1
        /\ \E a \in Address, value \in Values :
             \/ MAIN_MEMORY' = loadSingleHEXInt(MAIN_MEMORY, value, a, AsByte)
             \/ /\ a % 4 = 0
                /\ MAIN_MEMORY' = loadSingleHEX(MAIN_MEMORY, HexOf(value, 8), a, AsWord)
  /\ UNCHANGED <<CLK, operation, register, data_read_fDM>>

WriteData1 ==
  data_read_aligned(operation.op, operation.address % 4, register, data_read_fDM)

\* At the rising edge MEM hands its result on and takes the next operation.
Eval ==
  /\ stage = "eval" /\ stage' = "access" /\ CLK' = 1 - CLK
  /\ IF CLK = 0
     THEN UNCHANGED <<operation, register, issued>>
     ELSE \/ /\ operation' = NoOperation /\ UNCHANGED issued
             /\ register' \in IF MemRead THEN {WriteData1}
                              ELSE IF MemWrite THEN {register} ELSE Values \cup {register}
          \/ /\ issued < MAXISSUED /\ issued' = issued + 1
             /\ operation' \in Operations
             /\ register' = IF MemRead THEN WriteData1 ELSE register
  /\ UNCHANGED <<MAIN_MEMORY, data_read_fDM>>

Init ==
  /\ MAIN_MEMORY \in Images /\ CLK = 1 /\ stage = "access"
  /\ operation = NoOperation /\ register = 0 /\ data_read_fDM = 0
  /\ issued = 0

Next == MemoryAccess \/ SystemCall \/ Eval

Spec == Init /\ [][Next]_vars

----------------------------------------------------------------------------
(* Properties.                                                             *)

TypeOK ==
  /\ MAIN_MEMORY \in [Address -> 0 .. BYTE - 1]
  /\ CLK \in {0, 1} /\ stage \in {"access", "syscall", "eval"}
  /\ operation \in Operations \cup {NoOperation}
  /\ register \in 0 .. FULL - 1 /\ data_read_fDM \in 0 .. FULL - 1
  /\ issued \in 0 .. MAXISSUED

Lanes(word) == [i \in 1 .. 4 |-> Slice(word, 4 - i, 4 - i)]

Meaning ==
  INSTANCE MipsMemory WITH
    Bytes <- 0 .. BYTE - 1, Addresses <- Address, HostValues <- {Lanes(v) : v \in Values},
    bytes <- MAIN_MEMORY, register <- Lanes(register)

\* Every load and store, aligned or not (swr is marked as untested in MEM.v),
\* does exactly what it means and is done before the next instruction, though
\* the port is served at both edges and a system call may store between the
\* two reads of a load.
ImplementsMipsMemory == Meaning!Spec

=============================================================================
