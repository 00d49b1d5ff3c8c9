----------------------------- MODULE Forwarding -----------------------------
(***************************************************************************)
(* The data of project 2's pipeline: the register file, the operands that  *)
(* the stages hand on, and the bypasses by which ID, EXE and MEM replace   *)
(* them with results that have not been written yet.  Of a value only      *)
(* counts which one it is: the register it was computed for, and its age,  *)
(* the number of values the program has given to that register since.      *)
(*                                                                         *)
(* The ALU computes at the falling edge, half-way through a cycle, from    *)
(* what the rising edge before left, and keeps its result until the next   *)
(* falling edge; stages take it at the rising edge.                        *)
(***************************************************************************)
EXTENDS Pipeline, FiniteSetsExt

CONSTANTS
  Registers,   \* numbers of registers, 0 among them
  ANSWER,      \* 2, the register in which a system call is answered
  OLDEST       \* bound: the age from which values are not told apart

Regs(a)     == IF a = Bubble THEN [a |-> 0, b |-> 0, w |-> 0, writes |-> FALSE]
               ELSE Program[a].regs
InMemory(a) == a # Bubble /\ Program[a].kind = "memory"

\* Of what a register may hold while three instructions are in flight no two
\* are OLDEST.
ASSUME DataAssumption ==
  /\ Registers \subseteq Nat /\ 0 \in Registers /\ ANSWER \in Registers \ {0}
  /\ OLDEST \in Nat /\ OLDEST > 3
  /\ \A a \in Addresses :
       {Regs(a).a, Regs(a).b, Regs(a).w} \subseteq Registers /\ Regs(a).writes \in BOOLEAN

VARIABLES
  Reg,                          \* RegFile
  operands,                     \* OperandA1, OperandB1 and MemWriteData1 of ID
  aluResult,                    \* of ALU
  ALU_result1, MemWriteData1,   \* of EXE
  WriteData1,                   \* of MEM
  due, memoryDue,   \* what the instructions in EXE and MEM should work with
  loaded,           \* the register that the last instruction handed on loads, or 0
  lost              \* the registers whose last value never comes, see the properties

dataVars == <<Reg, operands, aluResult, ALU_result1, MemWriteData1, WriteData1,
              due, memoryDue, loaded, lost>>

\* What the program would read from a register.
Current(r) == <<r, 0>>

\* A value when some registers are given others.
Aged(v, given) == IF v[1] \in given THEN <<v[1], Min({v[2] + 1, OLDEST})>> ELSE v

AllAged(record, given) == [f \in DOMAIN record |-> Aged(record[f], given)]

\* Results that are no register's value.
Wrong   == <<-1, 0>>
Address == <<-1, 1>>

\* What an instruction should work with when nothing is promised.
Open == <<-1, 2>>

Nothing == [a |-> Current(0), b |-> Current(0), data |-> Current(0), value |-> Current(0)]
NoOperands == [a |-> Current(0), b |-> Current(0), data |-> Current(0)]

----------------------------------------------------------------------------
(* Bypasses: an instruction in a later stage has [register, value, valid]. *)

RegValue1(r, value, first) ==
  IF first.register = r /\ first.valid THEN first.value ELSE value

\* (The older of two results wins.)
OlderFirst(r, value, first, second) == RegValue1(r, RegValue1(r, value, first), second)

RegValue2(r, value, first, second) == RegValue1(r, RegValue1(r, value, second), first)

\* (A result that is written at the edge is not there yet.)
WithoutThird(r, value, first, second, third) == RegValue2(r, value, first, second)

RegValue3(r, value, first, second, third) ==
  RegValue1(r, RegValue2(r, value, second, third), first)

Bypass(a, result, valid) == [register |-> Regs(a).w, value |-> result, valid |-> valid]

\* (Writes of register 0 taken for others.)
WritesAny(a) == Regs(a).writes

RegWrite1(a) == Regs(a).writes /\ Regs(a).w # 0

\* What an instruction should compute; register 0 is never given a value.
Gives(a)  == Regs(a).writes /\ Regs(a).w # 0
Result(a) == IF Gives(a) THEN Current(Regs(a).w) ELSE Wrong

Computes(a) == RegWrite1(a) /\ ~InMemory(a)

FromMEMWB == Bypass(memwb, WriteData1, RegWrite1(memwb))

\* Operands of EXE when the ALU computes.  What is nearest is taken from the
\* ALU's own output, which still is the result of the instruction before.
FromEXEMEM == Bypass(exemem, aluResult, Computes(exemem))
A1 == RegValue2(Regs(idexe).a, operands.a, FromEXEMEM, FromMEMWB)
B1 == RegValue2(Regs(idexe).b, operands.b, FromEXEMEM, FromMEMWB)

OperandsDue == due.a \in {A1, Open} /\ due.b \in {B1, Open}

\* The output of the ALU from the falling edge on.
ALU == IF ~OperandsDue THEN Wrong ELSE IF InMemory(idexe) THEN Address ELSE due.value

\* EXE takes what an access stores at the rising edge, when the ALU's output
\* is the access's own address.
StoreData ==
  RegValue2(Regs(idexe).w, operands.data, [FromEXEMEM EXCEPT !.value = ALU], FromMEMWB)

\* (Nothing forwarded to an access in MEM.)
NotForwarded == MemWriteData1

MemoryData1 == RegValue1(Regs(exemem).w, MemWriteData1, FromMEMWB)

\* What MEM hands on, once an access has ended; lwl and lwr keep a part of
\* what the register had.
WriteData1_async ==
  IF ~InMemory(exemem) THEN ALU_result1
  ELSE IF ALU_result1 # Address \/ memoryDue.data \notin {MemoryData1, Open} THEN Wrong
  ELSE memoryDue.value

Decoded(r) ==
  RegValue3(r, Reg[r], Bypass(idexe, ALU, Computes(idexe)),
            Bypass(exemem, WriteData1_async, RegWrite1(exemem)), FromMEMWB)

----------------------------------------------------------------------------

\* An instruction is handed on with its operands.
HandsOn(w) == SendsInstr /\ ~WANT_FREEZE(w)

\* An ll or sc leaves ID, and is not handed on.
Skips(w) == Instr1_IFID.kind = "llsc" /\ ~SendsInstr /\ ~WANT_FREEZE(w)

\* The registers that get another value, from the program or, while SYS is
\* high, from the simulator.
Given(w) ==
  (IF SYS THEN {ANSWER} ELSE {})
    \cup (IF (HandsOn(w) \/ Skips(w)) /\ Gives(Instr_PC_OUT)
          THEN {Regs(Instr_PC_OUT).w} ELSE {})

\* MIPS leaves open what the instruction after a load takes for its result.
Promised(r) == IF r \in lost \/ (r = loaded /\ r # 0) THEN Open ELSE Current(r)

\* lwl and lwr, and stores, may take it.
PromisedData(r) == IF r \in lost THEN Open ELSE Current(r)

ID_Data(w, given) ==
  LET r == Regs(Instr_PC_OUT) IN
  CASE HandsOn(w) ->
         /\ operands' = AllAged([a |-> Decoded(r.a), b |-> Decoded(r.b), data |-> Decoded(r.w)], given)
         /\ due' = [AllAged([Nothing EXCEPT !.a = Promised(r.a), !.b = Promised(r.b),
                                            !.data = PromisedData(r.w)], given)
                      EXCEPT !.value = Result(Instr_PC_OUT)]
         /\ loaded' = IF InMemory(Instr_PC_OUT) /\ Gives(Instr_PC_OUT) THEN r.w ELSE 0
    [] SendsNop \/ (SendsInstr /\ WANT_FREEZE(w) /\ ~w.dStall) ->
         operands' = NoOperands /\ due' = Nothing /\ UNCHANGED loaded
    [] OTHER -> operands' = AllAged(operands, given) /\ due' = AllAged(due, given) /\ UNCHANGED loaded

EXE_MEM_Data(w, given) ==
  /\ aluResult' = Aged(ALU, given)
  /\ ALU_result1' = Aged(IF w.dStall THEN ALU_result1 ELSE ALU, given)
  /\ MemWriteData1' = Aged(IF w.dStall THEN MemWriteData1 ELSE StoreData, given)
  /\ WriteData1' = Aged(IF w.dStall THEN WriteData1 ELSE WriteData1_async, given)
  /\ memoryDue' = AllAged(IF w.dStall THEN memoryDue ELSE due, given)

\* The answer of a call is in the register file before the edge.
RegFile(given) ==
  Reg' = [r \in Registers |->
            IF RegWrite1(memwb) /\ Regs(memwb).w = r THEN Aged(WriteData1, given)
            ELSE IF SYS /\ r = ANSWER THEN Current(r) ELSE Aged(Reg[r], given)]

DataInit ==
  /\ Init
  /\ Reg = [r \in Registers |-> Current(r)]
  /\ operands = NoOperands /\ due = Nothing /\ memoryDue = Nothing
  /\ aluResult = Current(0) /\ ALU_result1 = Current(0)
  /\ MemWriteData1 = Current(0) /\ WriteData1 = Current(0)
  /\ loaded = 0 /\ lost = {}

Results(stages) == {Regs(a).w : a \in {x \in stages : RegWrite1(x)}}

\* A bubble is put over an instruction that EXE has not taken.
BubbleOver(w) == IF SendsNop /\ w.dStall THEN Results({idexe}) ELSE {}

\* A call is answered while an earlier result for the register is in flight.
AnswerUnder(w) ==
  IF SYS THEN {ANSWER} \cap Results({memwb, exemem} \cup (IF w.dStall THEN {} ELSE {idexe})) ELSE {}

\* ll and sc give their register nothing.
SkippedBy(w) == IF Skips(w) THEN Results({Instr_PC_OUT}) ELSE {}

DataNext ==
  \E w \in Inputs :
    /\ Edge(w)
    /\ LET given == Given(w) IN
       /\ ID_Data(w, given) /\ EXE_MEM_Data(w, given) /\ RegFile(given)
       /\ lost' = ((lost \cup BubbleOver(w)) \ given) \cup AnswerUnder(w) \cup SkippedBy(w)

\* The data never keep an edge from happening, so the clock of Pipeline will do.
DataSpec == DataInit /\ [][DataNext]_<<vars, dataVars>> /\ WF_vars(Next)

----------------------------------------------------------------------------
(* Properties.  But for the last they except what an instruction takes     *)
(* from a load just before it, and registers that are lost until they are  *)
(* given new values: a bubble was put over the last instruction for them,  *)
(* or it was an ll or sc (the mishaps of KeepsProgramOrder), or a result   *)
(* that a call did not wait for is written over its answer (that of        *)
(* SysSeesResults).                                                        *)

\* What ID reads of a register, to hand it on, to compare it or to jump to
\* it, is what the program last gave to it, in whichever stage that is by
\* then, once an access in MEM has ended: a branch that waits is compared
\* with the same operands again.
DecodeReadsCurrent ==
  \A r \in {Regs(Instr_PC_OUT).a, Regs(Instr_PC_OUT).b} : Promised(r) \in {Decoded(r), Open}

\* The ALU works with the operands that the program gives to the instruction,
\* also when it computes again because MEM is stalled.
ExecuteReadsCurrent == OperandsDue

\* What is stored, and what lwl and lwr keep, is current when MEM uses it,
\* even if the instruction before has just loaded it.
MemoryReadsCurrent == InMemory(exemem) => memoryDue.data \in {MemoryData1, Open}

\* Whenever no instruction is in flight, as when a system call is answered,
\* the register file is what the program made of it.
RegistersFollowProgram ==
  InFlight = <<>> => \A r \in Registers \ lost : Reg[r] = Current(r)

\* When the simulator is called, all register data is flushed to the register
\* file (MIPS.v:54-56), so the simulator reads what the program has given to
\* the registers, after a stalled load as well (mem_stall_test.s:40-52).
CallSeesRegisters == SYS => \A r \in Registers : Reg[r] = Current(r)

=============================================================================
