------------------------------ MODULE Pipeline ------------------------------
(***************************************************************************)
(* The control of project 2's five stages, IF.v, ID.v, EXE.v and MEM.v as  *)
(* MIPS.v connects them: what each stage takes and hands on at an edge of  *)
(* the clock.  Instructions count as one address.  The caches may stall    *)
(* the pipeline for as long as they like, the data cache while a memory    *)
(* instruction is in MEM.  Data are in Forwarding: here a branch compares  *)
(* its operands with some outcome, which stays the same unless one of them *)
(* is forwarded from a load that has not ended.                            *)
(***************************************************************************)
EXTENDS Integers, Sequences

CONSTANTS
  WORDS,      \* 2^30: addresses count words
  Program,    \* the instruction at an address, [kind, target]
  RESET_PC,   \* 0xBFC00000
  Bubble      \* what a stage holds when it holds no instruction

Addresses == 0 .. WORDS - 1

\* In 32 bits.
NextWord(a) == (a + 1) % WORDS

\* A delay slot holds no jump.
ASSUME ProgramAssumption ==
  /\ WORDS \in Nat \ {0} /\ DOMAIN Program = Addresses
  /\ RESET_PC \in Addresses /\ Bubble \notin Addresses
  /\ \A a \in Addresses :
       /\ Program[a].kind \in {"alu", "memory", "branch", "jump", "syscall", "llsc"}
       /\ Program[a].target \in Addresses
       /\ Program[a].kind \in {"branch", "jump"} =>
            Program[NextWord(a)].kind \notin {"branch", "jump"}

VARIABLES
  Instr1_IFID, Instr_PC_OUT, Instr_PC_Plus4,                           \* IF
  first_stall, delay_slot_flag, delay_slot,
  outcome,                                                             \* ID
  Alt_PC, Request_Alt_PC, jump_delay_flag,
  syscall_bubble_counter, SYS, INHIBIT_FREEZE,
  idexe, exemem, memwb,     \* addresses of the instructions in these registers
  late,                     \* a jump was seen late so far, see the properties
  waited                    \* MEM was stalled since the call came into ID

fetchVars == <<Instr1_IFID, Instr_PC_OUT, Instr_PC_Plus4, first_stall, delay_slot_flag,
               delay_slot, outcome>>
decodeVars == <<Alt_PC, Request_Alt_PC, jump_delay_flag, syscall_bubble_counter, SYS,
                INHIBIT_FREEZE, idexe>>
vars == <<fetchVars, decodeVars, exemem, memwb, late, waited>>

----------------------------------------------------------------------------
(* Wires of a cycle in which the caches say w.iStall and w.dStall, and the *)
(* comparison says w.taken.                                                *)

Instr_address_2IM == IF Request_Alt_PC THEN Alt_PC ELSE Instr_PC_Plus4

\* (An instruction cache that answers before it has the block.)
Garbage == [kind |-> "alu", target |-> 0]
Instr1_fIM(w) == IF w.iStall THEN Garbage ELSE Program[Instr_address_2IM]
Fetched(w) == [instr |-> Instr1_fIM(w), pc |-> Instr_address_2IM]

Request_Alt_PC1(w) ==
  Instr1_IFID.kind = "jump" \/ (Instr1_IFID.kind = "branch" /\ w.taken)

\* System calls, and ll and sc, which flush the cache as well.
syscal1 == Instr1_IFID.kind \in {"syscall", "llsc"}

jump_STALL(w) == ~jump_delay_flag /\ Request_Alt_PC1(w)

\* (Held only until the countdown starts.)
FREEZE_AtStart(w) ==
  \/ syscal1 /\ syscall_bubble_counter = 0
  \/ w.iStall \/ jump_STALL(w) \/ w.dStall

WANT_FREEZE(w) ==
  \/ syscal1 /\ ~INHIBIT_FREEZE
  \/ w.iStall \/ jump_STALL(w) \/ w.dStall

----------------------------------------------------------------------------

\* (The delay slot taken from wherever the cache stands by then.)
SavedSlotOnAnyStall(w) ==
  IF jump_STALL(w) \/ jump_delay_flag THEN Fetched(w) ELSE delay_slot

\* In the first cycle of a stall, the instruction after a jump is kept.
SavedSlot(w) ==
  IF first_stall /\ jump_STALL(w) THEN Fetched(w) ELSE delay_slot

IF_Edge(w) ==
  IF WANT_FREEZE(w)
  THEN /\ delay_slot_flag' = (delay_slot_flag \/ (jump_STALL(w) /\ ~w.iStall))
       /\ delay_slot' = SavedSlot(w)
       /\ first_stall' = FALSE
       /\ UNCHANGED <<Instr1_IFID, Instr_PC_OUT, Instr_PC_Plus4, outcome>>
  ELSE /\ IF delay_slot_flag
          THEN Instr1_IFID' = delay_slot.instr /\ Instr_PC_OUT' = delay_slot.pc
          ELSE Instr1_IFID' = Instr1_fIM(w) /\ Instr_PC_OUT' = Instr_address_2IM
       /\ Instr_PC_Plus4' = NextWord(Instr_address_2IM)
       /\ delay_slot_flag' = FALSE /\ first_stall' = TRUE
       /\ outcome' \in BOOLEAN
       /\ UNCHANGED delay_slot

\* (Two bubbles too few.)
CounterFromTwo ==
  IF syscall_bubble_counter > 0 THEN syscall_bubble_counter - 1
  ELSE IF syscal1 THEN 2 ELSE 0

\* (Started again in every cycle.)
CounterStarted == IF syscal1 THEN 4 ELSE 0

\* Started only when the last countdown is over.
NextCounter ==
  IF syscall_bubble_counter > 0 THEN syscall_bubble_counter - 1
  ELSE IF syscal1 THEN 4 ELSE 0

\* (For ll and sc as well.)
CallsForAll == syscall_bubble_counter = 2

Calls == syscall_bubble_counter = 2 /\ Instr1_IFID.kind # "llsc"

Inhibits == syscall_bubble_counter = 2

\* In these cycles ID hands on nothing, whatever EXE does.
SendsNop ==
  \/ syscal1 /\ syscall_bubble_counter \in {0, 5, 4, 3, 1}
  \/ ~syscal1 /\ syscall_bubble_counter = 1

SendsInstr == syscall_bubble_counter = IF syscal1 THEN 2 ELSE 0

Sent(w) ==
  CASE ~WANT_FREEZE(w) -> Instr_PC_OUT
    [] WANT_FREEZE(w) /\ ~w.dStall -> Bubble
    [] OTHER -> idexe

ID_Edge(w) ==
  /\ jump_delay_flag' = Request_Alt_PC1(w)
  /\ IF WANT_FREEZE(w) THEN UNCHANGED <<Alt_PC, Request_Alt_PC>>
     ELSE Alt_PC' = Instr1_IFID.target /\ Request_Alt_PC' = Request_Alt_PC1(w)
  /\ syscall_bubble_counter' = NextCounter
  /\ INHIBIT_FREEZE' = IF syscall_bubble_counter \in 0 .. 2 THEN Inhibits ELSE INHIBIT_FREEZE
  /\ SYS' = IF syscall_bubble_counter \in 1 .. 2 THEN Calls ELSE SYS
  /\ idexe' = CASE SendsNop -> Bubble [] SendsInstr -> Sent(w) [] OTHER -> idexe

\* EXE and MEM take what is before them together.
EXE_MEM_Edge(w) ==
  IF w.dStall THEN UNCHANGED <<exemem, memwb>> ELSE exemem' = idexe /\ memwb' = exemem

\* The history: whether a jump was seen first when the cycle in which its
\* delay slot is kept was over, and whether MEM was stalled while a system
\* call was in ID.
History(w) ==
  /\ late' = (late \/ (jump_STALL(w) /\ ~w.iStall /\ ~first_stall /\ ~delay_slot_flag))
  /\ waited' = (WANT_FREEZE(w) /\ syscal1 /\ (waited \/ w.dStall))

Inputs ==
  {w \in [iStall : BOOLEAN, dStall : BOOLEAN, taken : BOOLEAN] :
     /\ w.dStall => exemem # Bubble /\ Program[exemem].kind = "memory"
     /\ ~w.dStall => w.taken = outcome}

Edge(w) == IF_Edge(w) /\ ID_Edge(w) /\ EXE_MEM_Edge(w) /\ History(w)

Init ==
  /\ Instr1_IFID = Program[0] /\ Instr_PC_OUT = 0 /\ Instr_PC_Plus4 = RESET_PC
  /\ first_stall = FALSE /\ delay_slot_flag = FALSE
  /\ delay_slot = [instr |-> Garbage, pc |-> 0] /\ outcome \in BOOLEAN
  /\ Alt_PC = 0 /\ Request_Alt_PC = FALSE /\ jump_delay_flag = FALSE
  /\ syscall_bubble_counter = 0 /\ SYS = FALSE /\ INHIBIT_FREEZE = FALSE
  /\ idexe = Bubble /\ exemem = Bubble /\ memwb = Bubble
  /\ late = FALSE /\ waited = FALSE

Next == \E w \in Inputs : Edge(w)

\* The clock of the simulator ticks for as long as the program runs.
Spec == Init /\ [][Next]_vars /\ WF_vars(Next)

----------------------------------------------------------------------------
(* Properties.                                                             *)

Instructions == {Program[a] : a \in Addresses} \cup {Garbage}

\* The wires and registers hold what they may; the countdown of a system
\* call never meets another instruction in ID.
TypeOK ==
  /\ Instr1_IFID \in Instructions /\ delay_slot \in [instr : Instructions, pc : Addresses]
  /\ {Instr_PC_OUT, Instr_PC_Plus4, Alt_PC} \subseteq Addresses
  /\ {first_stall, delay_slot_flag, outcome, Request_Alt_PC, jump_delay_flag, SYS, INHIBIT_FREEZE,
      late, waited} \subseteq BOOLEAN
  /\ syscall_bubble_counter \in 0 .. 4 /\ (syscall_bubble_counter > 0 => syscal1)
  /\ {idexe, exemem, memwb} \subseteq Addresses \cup {Bubble}

HoldsOne(a) == IF a = Bubble THEN <<>> ELSE <<a>>
InFlight == HoldsOne(memwb) \o HoldsOne(exemem) \o HoldsOne(idexe)

Order == INSTANCE ProgramOrder WITH
  pc <- Instr_PC_OUT, npc <- Instr_address_2IM, instruction <- Instr1_IFID, inflight <- InFlight

\* While a system call, ll or sc is in ID, a bubble takes the place of the
\* instruction before it, which waits in idexe for an access to leave MEM.
Overwritten ==
  /\ syscal1 /\ exemem # Bubble /\ Program[exemem].kind = "memory"
  /\ Order!Lose(idexe)

\* ll or sc leaves ID, and a bubble goes to EXE.
LinkedSkipped == Instr1_IFID.kind = "llsc" /\ Order!Skip

\* Whatever the caches do, delay slots are kept, targets are not lost, and
\* instructions are executed and finished in the order of the program, each
\* once, but for the two mishaps above, after which the order is kept again,
\* and for what follows a jump that is seen late.
KeepsProgramOrder ==
  /\ Order!Init
  /\ [][late' \/ [Order!Next \/ Overwritten \/ LinkedSkipped]_(Order!vars)]_vars

\* ll and sc are executed like other loads and stores, as the programs
\* tests/asm/sys_ll_sc.s:23-36 and tests/asm/lwctest.s:13-23 need it and
\* MEM.v:192 and MEM.v:214 provide for: EXE gets one that leaves ID.
LinkedAccessesExecuted ==
  [][Instr1_IFID.kind = "llsc" /\ Instr_PC_OUT' # Instr_PC_OUT => idexe' = Instr_PC_OUT]_vars

\* When the simulator is called, the instructions before the call are out of
\* the pipeline (MIPS.v:54-56), unless MEM had to wait for the data cache
\* while the call's bubbles were counted.
SysSeesResults == SYS /\ ~waited => InFlight = <<>>

\* An instruction that leaves ID was called for at that time exactly if it is
\* a system call.
LeavesWhenCalled ==
  [][Instr_PC_OUT' # Instr_PC_OUT => (SYS <=> Instr1_IFID.kind = "syscall")]_vars

\* Stalls do not keep a system call from the simulator.
SyscallIsCalled == Instr1_IFID.kind = "syscall" ~> SYS

=============================================================================
