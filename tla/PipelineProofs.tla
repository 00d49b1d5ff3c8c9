--------------------------- MODULE PipelineProofs ---------------------------
(***************************************************************************)
(* Theorems about Pipeline and Forwarding for every program, every set of  *)
(* registers and every pattern of stalls.                                  *)
(***************************************************************************)
EXTENDS Forwarding, TLAPS, SequenceTheorems

\* The countdown of a system call stands at 1 in the one cycle in which it
\* may leave ID, and SYS is high in that cycle only.
Countdown ==
  /\ syscall_bubble_counter \in 0 .. 4
  /\ syscall_bubble_counter > 0 => syscal1
  /\ INHIBIT_FREEZE = (syscall_bubble_counter = 1)
  /\ SYS = (syscall_bubble_counter = 1 /\ Instr1_IFID.kind = "syscall")

LEMMA CountdownStarts == Init => Countdown
<1> SUFFICES ASSUME Init PROVE Countdown  OBVIOUS
<1>1. syscall_bubble_counter = 0 /\ INHIBIT_FREEZE = FALSE /\ SYS = FALSE  BY DEF Init
<1>2. ~(syscall_bubble_counter = 1) /\ syscall_bubble_counter \in 0 .. 4
      /\ ~(syscall_bubble_counter > 0)
  BY <1>1
<1> QED  BY <1>1, <1>2, Zenon DEF Countdown

\* Nothing enters ID before the call that is counted down has left it.
LEMMA CallStays ==
  ASSUME Countdown, NEW w \in Inputs, syscal1, syscall_bubble_counter # 1, Edge(w)
  PROVE  WANT_FREEZE(w) /\ Instr1_IFID' = Instr1_IFID /\ Instr_PC_OUT' = Instr_PC_OUT
<1>1. WANT_FREEZE(w)  BY DEF WANT_FREEZE, Countdown
<1> QED  BY <1>1 DEF Edge, IF_Edge

LEMMA CountdownStep ==
  ASSUME Countdown, NEW w \in Inputs, Edge(w)
  PROVE  Countdown'
<1> DEFINE c == syscall_bubble_counter
<1>1. /\ c' = NextCounter
      /\ INHIBIT_FREEZE' = IF c \in 0 .. 2 THEN Inhibits ELSE INHIBIT_FREEZE
      /\ SYS' = IF c \in 1 .. 2 THEN Calls ELSE SYS
  BY DEF Edge, ID_Edge
<1>2. c \in 0 .. 4 /\ (c > 0 => syscal1)  BY DEF Countdown
<1>3. CASE c = 0
  <2>1. c \in 0 .. 2 /\ c \notin 1 .. 2 /\ ~(c > 0) /\ ~(c = 1) /\ ~(c = 2)  BY <1>3
  <2>2. c' = (IF syscal1 THEN 4 ELSE 0)  BY <1>1, <2>1 DEF NextCounter
  <2>3. INHIBIT_FREEZE' = FALSE  BY <1>1, <2>1 DEF Inhibits
  <2>4. SYS' = FALSE  BY <1>1, <2>1 DEF Countdown
  <2>5. ~(c' = 1) /\ c' \in 0 .. 4 /\ (c' > 0 => syscal1)  BY <2>2
  <2>6. syscal1 => syscal1'
    <3>1. syscal1 => Instr1_IFID' = Instr1_IFID  BY <2>1, CallStays
    <3> QED  BY <3>1 DEF syscal1
  <2> QED  BY <2>3, <2>4, <2>5, <2>6, Zenon DEF Countdown
<1>4. CASE c = 1
  <2>1. c \in 0 .. 2 /\ c \in 1 .. 2 /\ c > 0 /\ ~(c = 2)  BY <1>4
  <2>2. c' = c - 1  BY <1>1, <2>1 DEF NextCounter
  <2>3. INHIBIT_FREEZE' = FALSE  BY <1>1, <2>1 DEF Inhibits
  <2>4. SYS' = FALSE  BY <1>1, <2>1 DEF Calls
  <2>5. ~(c' = 1) /\ c' \in 0 .. 4 /\ ~(c' > 0)  BY <2>2, <1>4
  <2> QED  BY <2>3, <2>4, <2>5, Zenon DEF Countdown
<1>5. CASE c = 2
  <2>1. c \in 0 .. 2 /\ c \in 1 .. 2 /\ c > 0 /\ ~(c = 1)  BY <1>5
  <2>2. c' = 1  BY <1>1, <1>5, <2>1 DEF NextCounter
  <2>3. INHIBIT_FREEZE' = TRUE  BY <1>1, <1>5, <2>1 DEF Inhibits
  <2>4. syscal1 /\ Instr1_IFID' = Instr1_IFID  BY <1>2, <2>1, CallStays
  <2>5. SYS' = (Instr1_IFID.kind = "syscall")
    <3>1. SYS' = (Instr1_IFID.kind # "llsc")  BY <1>1, <1>5, <2>1 DEF Calls
    <3>2. Instr1_IFID.kind # "llsc" <=> Instr1_IFID.kind = "syscall"
      BY <2>4 DEF syscal1
    <3> QED  BY <3>1, <3>2
  <2>6. c' \in 0 .. 4  BY <2>2
  <2>7. syscal1'  BY <2>4 DEF syscal1
  <2> QED  BY <2>2, <2>3, <2>4, <2>5, <2>6, <2>7, Zenon DEF Countdown
<1>6. CASE c \in 3 .. 4
  <2>1. c \notin 0 .. 2 /\ c \notin 1 .. 2 /\ c > 0 /\ ~(c = 1)  BY <1>6
  <2>2. c' = c - 1  BY <1>1, <2>1 DEF NextCounter
  <2>3. INHIBIT_FREEZE' = FALSE /\ SYS' = FALSE  BY <1>1, <2>1 DEF Countdown
  <2>4. syscal1 /\ Instr1_IFID' = Instr1_IFID  BY <1>2, <2>1, CallStays
  <2>5. c' \in 0 .. 4 /\ ~(c' = 1)  BY <2>2, <1>6
  <2>6. syscal1'  BY <2>4 DEF syscal1
  <2> QED  BY <2>3, <2>5, <2>6, Zenon DEF Countdown
<1> QED  BY <1>2, <1>3, <1>4, <1>5, <1>6

LEMMA CountdownHolds == Spec => []Countdown
<1>1. Countdown /\ [Next]_vars => Countdown'
  <2> SUFFICES ASSUME Countdown, [Next]_vars PROVE Countdown'  OBVIOUS
  <2>1. CASE Next  BY <2>1, CountdownStep DEF Next
  <2>2. CASE UNCHANGED vars
    BY <2>2 DEF vars, fetchVars, decodeVars, Countdown, syscal1
  <2> QED  BY <2>1, <2>2
<1> QED  BY CountdownStarts, <1>1, PTL DEF Spec

\* What leaves ID was called for exactly if it is a system call, whatever
\* the program and the caches.
THEOREM LeavesWhenCalledHolds == Spec => LeavesWhenCalled
<1> DEFINE Leaving == Instr_PC_OUT' # Instr_PC_OUT => (SYS <=> Instr1_IFID.kind = "syscall")
<1>1. Countdown /\ [Next]_vars => [Leaving]_vars
  <2> SUFFICES ASSUME Countdown, Next, Instr_PC_OUT' # Instr_PC_OUT
               PROVE  SYS <=> Instr1_IFID.kind = "syscall"
    OBVIOUS
  <2>1. PICK w \in Inputs : Edge(w)  BY DEF Next
  <2>2. ~(syscal1 /\ syscall_bubble_counter # 1)  BY <2>1, CallStays
  <2> QED  BY <2>2 DEF Countdown, syscal1
<1> QED  BY <1>1, CountdownHolds, PTL DEF Spec, LeavesWhenCalled

----------------------------------------------------------------------------
(* What the simulator sees.                                                *)

\* While MEM has not waited, the bubbles of a call move with its countdown.
Drained ==
  ~waited =>
    /\ syscall_bubble_counter \in 1 .. 4 => idexe = Bubble
    /\ syscall_bubble_counter \in 1 .. 3 => exemem = Bubble
    /\ syscall_bubble_counter \in 1 .. 2 => memwb = Bubble

LEMMA DrainedStep ==
  ASSUME Countdown, Drained, NEW w \in Inputs, Edge(w)
  PROVE  Drained'
<1> DEFINE c == syscall_bubble_counter
<1> SUFFICES ASSUME ~waited', c' \in 1 .. 4
             PROVE  /\ idexe' = Bubble
                    /\ c' \in 1 .. 3 => exemem' = Bubble
                    /\ c' \in 1 .. 2 => memwb' = Bubble
  BY DEF Drained
<1>1. c \in 0 .. 4 /\ (c > 0 => syscal1)  BY DEF Countdown
<1>2. c' = NextCounter  BY DEF Edge, ID_Edge
<1>3. syscal1 /\ c # 1 /\ c \in {0, 2, 3, 4}
  BY <1>1, <1>2 DEF NextCounter
<1>4. c' = (IF c = 0 THEN 4 ELSE c - 1)  BY <1>1, <1>2, <1>3 DEF NextCounter
<1>5. ~waited /\ ~w.dStall
  <2>1. WANT_FREEZE(w)  BY <1>3, CallStays
  <2> QED  BY <2>1, <1>3 DEF Edge, History
<1>6. exemem' = idexe /\ memwb' = exemem  BY <1>5 DEF Edge, EXE_MEM_Edge
<1>7. idexe' = Bubble
  <2>1. CASE c = 2
    <3>1. WANT_FREEZE(w)  BY <1>3, CallStays
    <3>2. Sent(w) = Bubble  BY <3>1, <1>5 DEF Sent
    <3>3. SendsInstr /\ ~SendsNop  BY <1>3, <2>1 DEF SendsInstr, SendsNop
    <3> QED  BY <3>2, <3>3 DEF Edge, ID_Edge
  <2>2. CASE c # 2
    <3>1. SendsNop /\ ~SendsInstr  BY <1>3, <2>2 DEF SendsNop, SendsInstr
    <3> QED  BY <3>1 DEF Edge, ID_Edge
  <2> QED  BY <2>1, <2>2
<1>8. /\ c \in 1 .. 4 => idexe = Bubble
      /\ c \in 1 .. 3 => exemem = Bubble
  BY <1>5 DEF Drained
<1> QED  BY <1>3, <1>4, <1>6, <1>7, <1>8

LEMMA DrainedHolds == Spec => []Drained
<1>1. Init => Drained
  <2> SUFFICES ASSUME Init PROVE Drained  OBVIOUS
  <2>1. syscall_bubble_counter = 0  BY DEF Init
  <2> QED  BY <2>1 DEF Drained
<1>2. Countdown /\ Drained /\ [Next]_vars => Drained'
  <2> SUFFICES ASSUME Countdown, Drained, [Next]_vars PROVE Drained'  OBVIOUS
  <2>1. CASE Next  BY <2>1, DrainedStep DEF Next
  <2>2. CASE UNCHANGED vars  BY <2>2 DEF vars, fetchVars, decodeVars, Drained
  <2> QED  BY <2>1, <2>2
<1> QED  BY <1>1, <1>2, CountdownHolds, PTL DEF Spec

\* A call sees every result before it, in every program and unless MEM had
\* to wait: the countdown is as long as the pipeline is deep.
THEOREM SysSeesResultsHolds == Spec => []SysSeesResults
<1>1. Countdown /\ Drained => SysSeesResults
  <2> SUFFICES ASSUME Countdown, Drained, SYS, ~waited PROVE InFlight = <<>>
    BY DEF SysSeesResults
  <2>1. syscall_bubble_counter = 1  BY DEF Countdown
  <2>2. idexe = Bubble /\ exemem = Bubble /\ memwb = Bubble  BY <2>1 DEF Drained
  <2> QED  BY <2>2 DEF InFlight, HoldsOne
<1> QED  BY <1>1, CountdownHolds, DrainedHolds, PTL

----------------------------------------------------------------------------
(* Types.                                                                  *)

LEMMA AddressFacts ==
  /\ 0 \in Addresses /\ RESET_PC \in Addresses
  /\ \A a \in Addresses : NextWord(a) \in Addresses /\ Program[a] \in Instructions
  /\ Garbage \in Instructions
  /\ \A i \in Instructions : i.target \in Addresses
<1>1. 0 \in Addresses  BY ProgramAssumption DEF Addresses
<1>2. ASSUME NEW a \in Addresses PROVE NextWord(a) \in Addresses
  BY ProgramAssumption DEF Addresses, NextWord
<1>3. ASSUME NEW i \in Instructions PROVE i.target \in Addresses
  BY <1>1, ProgramAssumption DEF Instructions, Garbage
<1> QED  BY <1>1, <1>2, <1>3, ProgramAssumption DEF Instructions

LEMMA TypeStep ==
  ASSUME TypeOK, Countdown, NEW w \in Inputs, Edge(w)
  PROVE  TypeOK'
<1>1. Instr_address_2IM \in Addresses
  BY AddressFacts DEF Instr_address_2IM, TypeOK
<1>2. Instr1_fIM(w) \in Instructions /\ Fetched(w) \in [instr : Instructions, pc : Addresses]
  BY <1>1, AddressFacts DEF Instr1_fIM, Fetched
<1>3. w.iStall \in BOOLEAN /\ w.dStall \in BOOLEAN /\ w.taken \in BOOLEAN  BY DEF Inputs
<1>4. Request_Alt_PC1(w) \in BOOLEAN /\ jump_STALL(w) \in BOOLEAN /\ WANT_FREEZE(w) \in BOOLEAN
  BY DEF Request_Alt_PC1, jump_STALL, WANT_FREEZE
<1>5. delay_slot' \in [instr : Instructions, pc : Addresses]
  BY <1>2 DEF Edge, IF_Edge, SavedSlot, TypeOK
<1>6. Instr1_IFID' \in Instructions /\ Instr_PC_OUT' \in Addresses /\ Instr_PC_Plus4' \in Addresses
  <2>1. delay_slot.instr \in Instructions /\ delay_slot.pc \in Addresses  BY DEF TypeOK
  <2> QED  BY <1>1, <1>2, <2>1, AddressFacts DEF Edge, IF_Edge, TypeOK
<1>7. first_stall' \in BOOLEAN /\ delay_slot_flag' \in BOOLEAN /\ outcome' \in BOOLEAN
  BY DEF Edge, IF_Edge, TypeOK
<1>8. Alt_PC' \in Addresses /\ Request_Alt_PC' \in BOOLEAN /\ jump_delay_flag' \in BOOLEAN
  BY <1>4, AddressFacts DEF Edge, ID_Edge, TypeOK
<1>9. {idexe, exemem, memwb}' \subseteq Addresses \cup {Bubble}
  <2>1. Sent(w) \in Addresses \cup {Bubble}  BY DEF Sent, TypeOK
  <2>2. idexe' \in Addresses \cup {Bubble}  BY <2>1 DEF Edge, ID_Edge, TypeOK
  <2>3. exemem' \in Addresses \cup {Bubble} /\ memwb' \in Addresses \cup {Bubble}
    BY DEF Edge, EXE_MEM_Edge, TypeOK
  <2> QED  BY <2>2, <2>3
<1>10. late' \in BOOLEAN /\ waited' \in BOOLEAN
  BY DEF Edge, History
<1>11. Countdown'  BY CountdownStep
<1>12. SYS' \in BOOLEAN /\ INHIBIT_FREEZE' \in BOOLEAN  BY <1>11 DEF Countdown
<1>13. syscall_bubble_counter' \in 0 .. 4 /\ (syscall_bubble_counter' > 0 => syscal1')
  BY <1>11 DEF Countdown
<1> QED
  BY <1>5, <1>6, <1>7, <1>8, <1>9, <1>10, <1>12, <1>13, Zenon DEF TypeOK

\* Wires and registers hold what they may in every program, and a countdown
\* never meets another instruction than the call that it was started for.
THEOREM TypeCorrect == Spec => []TypeOK
<1>1. Init => TypeOK
  <2> SUFFICES ASSUME Init PROVE TypeOK  OBVIOUS
  <2>1. delay_slot \in [instr : Instructions, pc : Addresses] /\ Instr1_IFID \in Instructions
    BY AddressFacts DEF Init
  <2>2. {Instr_PC_OUT, Instr_PC_Plus4, Alt_PC} \subseteq Addresses
    BY AddressFacts DEF Init
  <2>3. syscall_bubble_counter \in 0 .. 4 /\ ~(syscall_bubble_counter > 0)  BY DEF Init
  <2>4. {idexe, exemem, memwb} \subseteq Addresses \cup {Bubble}  BY DEF Init
  <2>5. {first_stall, delay_slot_flag, outcome, Request_Alt_PC, jump_delay_flag, SYS, INHIBIT_FREEZE,
         late, waited} \subseteq BOOLEAN
    BY DEF Init
  <2> QED  BY <2>1, <2>2, <2>3, <2>4, <2>5, Zenon DEF TypeOK
<1>2. TypeOK /\ Countdown /\ [Next]_vars => TypeOK'
  <2> SUFFICES ASSUME TypeOK, Countdown, [Next]_vars PROVE TypeOK'  OBVIOUS
  <2>1. CASE Next  BY <2>1, TypeStep DEF Next
  <2>2. CASE UNCHANGED vars
    BY <2>2 DEF vars, fetchVars, decodeVars, TypeOK, syscal1
  <2> QED  BY <2>1, <2>2
<1> QED  BY <1>1, <1>2, CountdownHolds, PTL DEF Spec

----------------------------------------------------------------------------
(* The order of the program.                                               *)

\* What was kept for a delay slot is the instruction that is fetched.
SlotKept ==
  /\ delay_slot_flag => ~first_stall
  /\ delay_slot_flag /\ ~late =>
       delay_slot = [instr |-> Program[Instr_address_2IM], pc |-> Instr_address_2IM]

LEMMA SlotStep ==
  ASSUME TypeOK, SlotKept, NEW w \in Inputs, Edge(w)
  PROVE  SlotKept'
<1>1. CASE WANT_FREEZE(w)
  <2>1. /\ delay_slot_flag' = (delay_slot_flag \/ (jump_STALL(w) /\ ~w.iStall))
        /\ delay_slot' = SavedSlot(w) /\ first_stall' = FALSE
        /\ Instr_PC_Plus4' = Instr_PC_Plus4 /\ Alt_PC' = Alt_PC
        /\ Request_Alt_PC' = Request_Alt_PC
    BY <1>1 DEF Edge, IF_Edge, ID_Edge
  <2>2. Instr_address_2IM' = Instr_address_2IM  BY <2>1 DEF Instr_address_2IM
  <2>3. late' = (late \/ (jump_STALL(w) /\ ~w.iStall /\ ~first_stall /\ ~delay_slot_flag))
    BY DEF Edge, History
  <2>4. ASSUME delay_slot_flag', ~late'
        PROVE  delay_slot' = [instr |-> Program[Instr_address_2IM], pc |-> Instr_address_2IM]
    <3>1. CASE delay_slot_flag
      <4>1. ~late /\ ~first_stall  BY <2>3, <2>4, <3>1 DEF SlotKept
      <4>2. delay_slot' = delay_slot  BY <2>1, <4>1 DEF SavedSlot
      <4> QED  BY <3>1, <4>1, <4>2 DEF SlotKept
    <3>2. CASE ~delay_slot_flag
      <4>1. jump_STALL(w) /\ ~w.iStall  BY <2>1, <2>4, <3>2
      <4>2. first_stall  BY <2>3, <2>4, <3>2, <4>1
      <4>3. delay_slot' = Fetched(w)  BY <2>1, <4>1, <4>2 DEF SavedSlot
      <4> QED  BY <4>1, <4>3 DEF Fetched, Instr1_fIM
    <3> QED  BY <3>1, <3>2
  <2> QED  BY <2>1, <2>2, <2>4 DEF SlotKept
<1>2. CASE ~WANT_FREEZE(w)
  BY <1>2 DEF Edge, IF_Edge, SlotKept
<1> QED  BY <1>1, <1>2

\* What ID holds next, and the one after that.
LEMMA DecodeStep ==
  ASSUME TypeOK, SlotKept, NEW w \in Inputs, Edge(w), ~late'
  PROVE  IF WANT_FREEZE(w)
         THEN UNCHANGED <<Instr_PC_OUT, Instr_address_2IM, Instr1_IFID>>
         ELSE Order!Decode
<1>1. CASE WANT_FREEZE(w)
  BY <1>1 DEF Edge, IF_Edge, ID_Edge, Instr_address_2IM
<1>2. CASE ~WANT_FREEZE(w)
  <2>1. ~w.iStall /\ ~w.dStall /\ w.taken \in BOOLEAN  BY <1>2 DEF WANT_FREEZE, Inputs
  <2>2. ~late  BY DEF Edge, History
  <2>3. Instr1_IFID' = Program[Instr_address_2IM] /\ Instr_PC_OUT' = Instr_address_2IM
    <3>1. CASE delay_slot_flag
      BY <1>2, <2>2, <3>1 DEF Edge, IF_Edge, SlotKept
    <3>2. CASE ~delay_slot_flag
      BY <1>2, <2>1, <3>2 DEF Edge, IF_Edge, Instr1_fIM
    <3> QED  BY <3>1, <3>2
  <2>4. /\ Instr_PC_Plus4' = NextWord(Instr_address_2IM)
        /\ Alt_PC' = Instr1_IFID.target /\ Request_Alt_PC' = Request_Alt_PC1(w)
    BY <1>2 DEF Edge, IF_Edge, ID_Edge
  <2>5. Request_Alt_PC1(w) \in Order!Jumps
    BY <2>1 DEF Request_Alt_PC1, Order!Jumps
  <2>6. Instr_address_2IM' = IF Request_Alt_PC1(w) THEN Instr1_IFID.target
                             ELSE (Instr_address_2IM + 1) % WORDS
    BY <2>4 DEF Instr_address_2IM, NextWord
  <2> QED  BY <1>2, <2>3, <2>5, <2>6 DEF Order!Decode
<1> QED  BY <1>1, <1>2

LEMMA HoldsOneIsSeq ==
  ASSUME NEW a \in Addresses \cup {Bubble}
  PROVE  HoldsOne(a) \in Seq(Addresses)
BY DEF HoldsOne

\* The oldest goes first.
LEMMA TailOfOne ==
  ASSUME NEW a \in Addresses, NEW s \in Seq(Addresses)
  PROVE  Tail(<<a>> \o s) = s /\ <<a>> \o s # <<>>
<1> DEFINE t == <<a>> \o s
<1>1. <<a>> \in Seq(Addresses) /\ Len(<<a>>) = 1  OBVIOUS
<1>2. /\ t \in Seq(Addresses) /\ Len(t) = 1 + Len(s)
      /\ \A i \in 1 .. 1 + Len(s) : t[i] = IF i <= 1 THEN a ELSE s[i - 1]
  BY <1>1, ConcatProperties
<1>3. Len(s) \in Nat  BY LenProperties
<1> HIDE DEF t
<1>4. t # <<>>  BY <1>2, <1>3, EmptySeq
<1>5. /\ Tail(t) \in Seq(Addresses) /\ Len(Tail(t)) = Len(s)
      /\ \A i \in 1 .. Len(s) : Tail(t)[i] = t[i + 1]
  BY <1>2, <1>3, <1>4, HeadTailProperties
<1>6. \A i \in 1 .. Len(s) : Tail(t)[i] = s[i]
  BY <1>2, <1>3, <1>5
<1>7. Tail(t) = s  BY <1>5, <1>6, SeqEqual
<1> QED  BY <1>4, <1>7 DEF t

\* What enters EXE when ID hands on, or holds, and MEM does not wait.
LEMMA SentStep ==
  ASSUME TypeOK, Countdown, NEW w \in Inputs, Edge(w), ~w.dStall
  PROVE  HoldsOne(idexe') = IF ~WANT_FREEZE(w) /\ ~syscal1 THEN <<Instr_PC_OUT>> ELSE <<>>
<1> DEFINE c == syscall_bubble_counter
<1>1. c \in 0 .. 4 /\ (c > 0 => syscal1)  BY DEF Countdown
<1>2. CASE syscal1
  <2>1. idexe' = Bubble
    <3>1. CASE c = 2
      <4>1. WANT_FREEZE(w)  BY <1>2, <3>1, CallStays
      <4>2. Sent(w) = Bubble  BY <4>1 DEF Sent
      <4>3. SendsInstr /\ ~SendsNop  BY <1>2, <3>1 DEF SendsInstr, SendsNop
      <4> QED  BY <4>2, <4>3 DEF Edge, ID_Edge
    <3>2. CASE c # 2
      <4>1. SendsNop /\ ~SendsInstr  BY <1>1, <1>2, <3>2 DEF SendsNop, SendsInstr
      <4> QED  BY <4>1 DEF Edge, ID_Edge
    <3> QED  BY <3>1, <3>2
  <2> QED  BY <1>2, <2>1 DEF HoldsOne
<1>3. CASE ~syscal1
  <2>1. c = 0  BY <1>1, <1>3
  <2>2. SendsInstr /\ ~SendsNop  BY <1>3, <2>1 DEF SendsInstr, SendsNop
  <2>3. idexe' = Sent(w)  BY <2>2 DEF Edge, ID_Edge
  <2>4. Instr_PC_OUT # Bubble  BY ProgramAssumption DEF TypeOK
  <2>5. CASE WANT_FREEZE(w)
    <3>1. Sent(w) = Bubble  BY <2>5 DEF Sent
    <3> QED  BY <2>3, <2>5, <3>1 DEF HoldsOne
  <2>6. CASE ~WANT_FREEZE(w)
    <3>1. Sent(w) = Instr_PC_OUT  BY <2>6 DEF Sent
    <3> QED  BY <1>3, <2>3, <2>4, <2>6, <3>1 DEF HoldsOne
  <2> QED  BY <2>5, <2>6
<1> QED  BY <1>2, <1>3

\* A bubble goes over the instruction in idexe.
BubbleWaits(w) == w.dStall /\ SendsNop /\ idexe # Bubble

LEMMA FlightStep ==
  ASSUME TypeOK, Countdown, NEW w \in Inputs, Edge(w), ~BubbleWaits(w)
  PROVE  \E finish \in BOOLEAN :
           /\ finish => InFlight # <<>>
           /\ InFlight' = (IF finish THEN Tail(InFlight) ELSE InFlight)
                \o (IF ~WANT_FREEZE(w) /\ ~syscal1 THEN <<Instr_PC_OUT>> ELSE <<>>)
<1> DEFINE Handed == IF ~WANT_FREEZE(w) /\ ~syscal1 THEN <<Instr_PC_OUT>> ELSE <<>>
           early == HoldsOne(memwb)
           middle == HoldsOne(exemem)
           last == HoldsOne(idexe)
<1>1. /\ early \in Seq(Addresses) /\ middle \in Seq(Addresses) /\ last \in Seq(Addresses)
      /\ memwb \in Addresses \cup {Bubble}
  BY HoldsOneIsSeq DEF TypeOK
<1>2. InFlight = (early \o middle) \o last  BY DEF InFlight
<1>3. InFlight \in Seq(Addresses)
  <2> HIDE DEF early, middle, last
  <2> QED  BY <1>1, <1>2, ConcatProperties
<1>4. CASE w.dStall
  <2>1. WANT_FREEZE(w)  BY <1>4 DEF WANT_FREEZE
  <2>2. exemem' = exemem /\ memwb' = memwb  BY <1>4 DEF Edge, EXE_MEM_Edge
  <2>3. idexe' = idexe
    <3>1. ~(SendsNop /\ idexe # Bubble)  BY <1>4 DEF BubbleWaits
    <3>2. Sent(w) = idexe  BY <1>4, <2>1 DEF Sent
    <3>3. ~(SendsNop /\ SendsInstr)  BY DEF SendsNop, SendsInstr
    <3>4. CASE SendsNop  BY <3>1, <3>3, <3>4 DEF Edge, ID_Edge
    <3>5. CASE ~SendsNop  BY <3>2, <3>5 DEF Edge, ID_Edge
    <3> QED  BY <3>4, <3>5
  <2>4. InFlight' = InFlight  BY <2>2, <2>3 DEF InFlight
  <2>5. Handed = <<>>  BY <2>1
  <2>6. InFlight \o <<>> = InFlight  BY <1>3, ConcatEmptySeq
  <2> HIDE DEF Handed
  <2>7. InFlight' = (IF FALSE THEN Tail(InFlight) ELSE InFlight) \o Handed
    BY <2>4, <2>5, <2>6
  <2> QED  BY <2>7 DEF Handed
<1>5. CASE ~w.dStall
  <2>1. exemem' = idexe /\ memwb' = exemem  BY <1>5 DEF Edge, EXE_MEM_Edge
  <2>2. HoldsOne(idexe') = Handed  BY <1>5, SentStep
  <2>3. InFlight' = (middle \o last) \o Handed
    BY <2>1, <2>2 DEF InFlight, HoldsOne
  <2>4. middle \o last \in Seq(Addresses) /\ InFlight = early \o (middle \o last)
    <3> HIDE DEF early, middle, last
    <3> QED  BY <1>1, <1>2, ConcatProperties, ConcatAssociative
  <2> HIDE DEF Handed, middle, last
  <2>5. CASE memwb = Bubble
    <3>1. early = <<>>  BY <2>5 DEF HoldsOne
    <3>2. InFlight = middle \o last  BY <2>4, <3>1, ConcatEmptySeq
    <3>3. InFlight' = (IF FALSE THEN Tail(InFlight) ELSE InFlight) \o Handed
      BY <2>3, <3>2
    <3> QED  BY <3>3 DEF Handed
  <2>6. CASE memwb # Bubble
    <3>1. early = <<memwb>> /\ memwb \in Addresses  BY <1>1, <2>6 DEF HoldsOne
    <3>2. InFlight = <<memwb>> \o (middle \o last)  BY <2>4, <3>1
    <3>3. Tail(InFlight) = middle \o last /\ InFlight # <<>>
      BY <2>4, <3>1, <3>2, TailOfOne
    <3>4. InFlight' = (IF TRUE THEN Tail(InFlight) ELSE InFlight) \o Handed
      BY <2>3, <3>3
    <3> QED  BY <3>3, <3>4 DEF Handed
  <2> QED  BY <2>5, <2>6
<1> QED  BY <1>4, <1>5

\* Such a bubble is a call's, and the instruction before is the one that is
\* lost.
LEMMA OverwriteStep ==
  ASSUME TypeOK, Countdown, SlotKept, NEW w \in Inputs, Edge(w), ~late', BubbleWaits(w)
  PROVE  Overwritten
<1> DEFINE early == HoldsOne(memwb)
           middle == HoldsOne(exemem)
<1>1. w.dStall /\ SendsNop /\ idexe # Bubble /\ WANT_FREEZE(w)
  BY DEF BubbleWaits, WANT_FREEZE
<1>2. exemem # Bubble /\ Program[exemem].kind = "memory"  BY <1>1 DEF Inputs
<1>3. syscal1  BY <1>1 DEF SendsNop, Countdown
<1>4. exemem' = exemem /\ memwb' = memwb /\ idexe' = Bubble
  <2>1. ~SendsInstr  BY <1>1 DEF SendsNop, SendsInstr
  <2> QED  BY <1>1, <2>1 DEF Edge, EXE_MEM_Edge, ID_Edge
<1>5. InFlight = Append(InFlight', idexe)
  <2>1. /\ early \in Seq(Addresses) /\ middle \in Seq(Addresses)
        /\ idexe \in Addresses /\ HoldsOne(idexe) = <<idexe>>
    BY <1>1, HoldsOneIsSeq DEF TypeOK, HoldsOne
  <2>2. InFlight = (early \o middle) \o <<idexe>>  BY <2>1 DEF InFlight
  <2>3. InFlight' = (early \o middle) \o <<>>  BY <1>4 DEF InFlight, HoldsOne
  <2> HIDE DEF early, middle
  <2>4. early \o middle \in Seq(Addresses)  BY <2>1, ConcatProperties
  <2>5. InFlight' = early \o middle  BY <2>3, <2>4, ConcatEmptySeq
  <2>6. (early \o middle) \o <<idexe>> = Append(early \o middle, idexe)
    BY <2>1, <2>4, AppendIsConcat
  <2> QED  BY <2>2, <2>5, <2>6
<1>6. UNCHANGED <<Instr_PC_OUT, Instr_address_2IM, Instr1_IFID>>  BY <1>1, DecodeStep
<1> QED  BY <1>2, <1>3, <1>5, <1>6 DEF Overwritten, Order!Lose

\* Jumps, delay slots and the instructions in flight follow the program, in
\* every program and under every pattern of stalls, up to the mishaps.
THEOREM KeepsProgramOrderHolds == Spec => KeepsProgramOrder
<1> DEFINE Ordered == Order!Next \/ Overwritten \/ LinkedSkipped
           InOrder == late' \/ [Ordered]_(Order!vars)
<1>1. Init => SlotKept /\ Order!Init
  <2> SUFFICES ASSUME Init PROVE SlotKept /\ Order!Init  OBVIOUS
  <2>1. SlotKept  BY DEF Init, SlotKept
  <2>2. InFlight = <<>>  BY DEF Init, InFlight, HoldsOne
  <2> QED  BY <2>1, <2>2 DEF Init, Order!Init, Instr_address_2IM
<1>2. TypeOK /\ SlotKept /\ [Next]_vars => SlotKept'
  <2> SUFFICES ASSUME TypeOK, SlotKept, [Next]_vars PROVE SlotKept'  OBVIOUS
  <2>1. CASE Next  BY <2>1, SlotStep DEF Next
  <2>2. CASE UNCHANGED vars
    BY <2>2 DEF vars, fetchVars, decodeVars, SlotKept, Instr_address_2IM
  <2> QED  BY <2>1, <2>2
<1>3. TypeOK /\ Countdown /\ SlotKept /\ [Next]_vars => [InOrder]_vars
  <2> SUFFICES ASSUME TypeOK, Countdown, SlotKept, Next, ~late'
               PROVE  Ordered
    OBVIOUS
  <2>1. PICK w \in Inputs : Edge(w)  BY DEF Next
  <2>2. IF WANT_FREEZE(w) THEN UNCHANGED <<Instr_PC_OUT, Instr_address_2IM, Instr1_IFID>>
        ELSE Order!Decode
    BY <2>1, DecodeStep
  <2>3. CASE BubbleWaits(w)  BY <2>1, <2>3, OverwriteStep
  <2>4. CASE ~BubbleWaits(w)
    <3>1. PICK finish \in BOOLEAN : Order!Flow(finish, ~WANT_FREEZE(w) /\ ~syscal1)
      <4>1. PICK finish \in BOOLEAN :
              /\ finish => InFlight # <<>>
              /\ InFlight' = (IF finish THEN Tail(InFlight) ELSE InFlight)
                   \o (IF ~WANT_FREEZE(w) /\ ~syscal1 THEN <<Instr_PC_OUT>> ELSE <<>>)
        BY <2>1, <2>4, FlightStep
      <4> QED  BY <4>1 DEF Order!Flow
    <3>2. CASE WANT_FREEZE(w)
      <4>1. Order!Flow(finish, FALSE /\ Order!Executed)  BY <3>1, <3>2 DEF Order!Flow
      <4>2. IF FALSE THEN Order!Decode
            ELSE UNCHANGED <<Instr_PC_OUT, Instr_address_2IM, Instr1_IFID>>
        BY <2>2, <3>2
      <4>3. Order!Next  BY <4>1, <4>2 DEF Order!Next
      <4> QED  BY <4>3
    <3>3. CASE ~WANT_FREEZE(w) /\ Instr1_IFID.kind = "llsc"
      <4>1. Order!Flow(finish, FALSE)  BY <3>1, <3>3 DEF syscal1, Order!Flow
      <4>2. Order!Skip  BY <2>2, <3>3, <4>1 DEF Order!Skip
      <4> QED  BY <3>3, <4>2 DEF LinkedSkipped
    <3>4. CASE ~WANT_FREEZE(w) /\ Instr1_IFID.kind # "llsc"
      <4>1. ~syscal1 <=> Order!Executed  BY <3>4 DEF syscal1, Order!Executed
      <4>2. Order!Flow(finish, TRUE /\ Order!Executed)  BY <3>1, <3>4, <4>1 DEF Order!Flow
      <4>3. IF TRUE THEN Order!Decode
            ELSE UNCHANGED <<Instr_PC_OUT, Instr_address_2IM, Instr1_IFID>>
        BY <2>2, <3>4
      <4>4. Order!Next  BY <4>2, <4>3 DEF Order!Next
      <4> QED  BY <4>4
    <3> QED  BY <3>2, <3>3, <3>4
  <2> QED  BY <2>3, <2>4
<1> QED  BY <1>1, <1>2, <1>3, TypeCorrect, CountdownHolds, PTL DEF Spec, KeepsProgramOrder

\* The pipeline with its data is the pipeline.
THEOREM DataSpecIsSpec == DataSpec => Spec
<1>1. DataInit => Init  BY DEF DataInit
<1>2. [DataNext]_<<vars, dataVars>> => [Next]_vars
  BY DEF DataNext, Next
<1> QED  BY <1>1, <1>2, PTL DEF DataSpec, Spec

----------------------------------------------------------------------------
(* The values that instructions get.                                       *)

\* The instruction in this register hands register r its result.
Writes(a, r) == RegWrite1(a) /\ Regs(a).w = r

Fields == {"a", "b", "data"}

Shape ==
  /\ DOMAIN Reg = Registers
  /\ DOMAIN operands = Fields
  /\ DOMAIN due = Fields \cup {"value"} /\ DOMAIN memoryDue = Fields \cup {"value"}

\* Register 0 is never lost.
LostRegisters == lost \subseteq Registers \ {0}

\* The load that loaded speaks of is known while it is in EXE.
LoadKnown == InMemory(idexe) /\ RegWrite1(idexe) => loaded = Regs(idexe).w

\* What a value that is due in EXE, an operand, is by the time the
\* instruction reaches MEM: a result on the way, or the operand as it was read.
Follows(d, operand, r) ==
  \/ d = Open
  \/ d = IF Writes(exemem, r) THEN memoryDue.value
         ELSE IF Writes(memwb, r) THEN WriteData1 ELSE operand

\* Operands follow the program, those of the ALU without taking from a load
\* that is in MEM.
OperandsFollow ==
  /\ Follows(due.a, operands.a, Regs(idexe).a)
  /\ Follows(due.b, operands.b, Regs(idexe).b)
  /\ Follows(due.data, operands.data, Regs(idexe).w)
  /\ InMemory(exemem) =>
       /\ Writes(exemem, Regs(idexe).a) => due.a = Open
       /\ Writes(exemem, Regs(idexe).b) => due.b = Open

\* The instruction in MEM was computed as it should be.
Computed ==
  /\ InMemory(exemem) => ALU_result1 = Address
  /\ Computes(exemem) => ALU_result1 = memoryDue.value /\ aluResult = memoryDue.value

\* The newest value of a register is with the youngest instruction in flight
\* that writes it, or else in the register file.
Newest(r) ==
  IF Writes(idexe, r) THEN due.value
  ELSE IF Writes(exemem, r) THEN memoryDue.value
  ELSE IF Writes(memwb, r) THEN WriteData1 ELSE Reg[r]

NewestIsCurrent == \A r \in Registers \ lost : Newest(r) = Current(r)

DataInv ==
  /\ Shape /\ LostRegisters /\ LoadKnown /\ OperandsFollow /\ Computed
  /\ MemoryReadsCurrent /\ NewestIsCurrent

----------------------------------------------------------------------------
(* The operators.                                                          *)

LEMMA RegsFacts ==
  /\ \A a \in Addresses \cup {Bubble} :
       /\ Regs(a).a \in Registers /\ Regs(a).b \in Registers /\ Regs(a).w \in Registers
       /\ RegWrite1(a) \in BOOLEAN /\ (RegWrite1(a) => Regs(a).w # 0)
  /\ ~RegWrite1(Bubble) /\ ~InMemory(Bubble)
  /\ Regs(Bubble).a = 0 /\ Regs(Bubble).b = 0 /\ Regs(Bubble).w = 0
<1>1. Regs(Bubble) = [a |-> 0, b |-> 0, w |-> 0, writes |-> FALSE]  BY DEF Regs
<1>2. ~RegWrite1(Bubble) /\ ~InMemory(Bubble)  BY <1>1 DEF RegWrite1, InMemory
<1> QED  BY <1>1, <1>2, DataAssumption DEF RegWrite1

\* Values that are given no register stay as old as they are.
LEMMA AgedFacts ==
  ASSUME NEW given \in SUBSET (Registers \ {0})
  PROVE  /\ \A r : r \notin given => Aged(Current(r), given) = Current(r)
         /\ Aged(Open, given) = Open /\ Aged(Address, given) = Address
         /\ Aged(Current(0), given) = Current(0)
<1>1. -1 \notin given /\ 0 \notin given  BY DataAssumption
<1> QED  BY <1>1 DEF Aged, Current, Open, Address

LEMMA GivenFacts ==
  ASSUME TypeOK, NEW w
  PROVE  Given(w) \in SUBSET (Registers \ {0})
<1>1. Instr_PC_OUT \in Addresses  BY DEF TypeOK
<1> QED  BY <1>1, RegsFacts, DataAssumption DEF Given, Gives, RegWrite1

\* ID hands on an instruction, or a bubble, or EXE keeps what it has.
LEMMA HandsOnOrNot ==
  ASSUME TypeOK, Countdown, NEW w \in Inputs, Edge(w), NEW given, ID_Data(w, given)
  PROVE  \/ /\ HandsOn(w) /\ ~w.dStall /\ ~SYS /\ idexe' = Instr_PC_OUT
         \/ /\ ~HandsOn(w) /\ idexe' = Bubble /\ (w.dStall => SendsNop)
            /\ operands' = NoOperands /\ due' = Nothing /\ loaded' = loaded
         \/ /\ ~HandsOn(w) /\ w.dStall /\ ~SYS /\ ~SendsNop /\ idexe' = idexe
            /\ operands' = AllAged(operands, given) /\ due' = AllAged(due, given)
            /\ loaded' = loaded
<1> DEFINE c == syscall_bubble_counter
<1>1. /\ c \in 0 .. 4 /\ (c > 0 => syscal1) /\ syscal1 \in BOOLEAN
      /\ SYS => c = 1
  <2>1. SYS = (c = 1 /\ Instr1_IFID.kind = "syscall")  BY DEF Countdown
  <2>2. c \in 0 .. 4 /\ (c > 0 => syscal1) /\ syscal1 \in BOOLEAN  BY DEF Countdown, syscal1
  <2> QED  BY <2>1, <2>2, Zenon
<1>2. SendsNop <=> syscal1 /\ c # 2  BY <1>1 DEF SendsNop
<1>3. SendsInstr <=> ~SendsNop  BY <1>1, <1>2 DEF SendsInstr
<1>4. SYS => SendsNop  BY <1>1, <1>2
<1>5. WANT_FREEZE(w) \in BOOLEAN /\ (w.dStall => WANT_FREEZE(w)) /\ w.dStall \in BOOLEAN
  BY DEF WANT_FREEZE, Inputs
<1>6. idexe' = IF SendsNop THEN Bubble ELSE Sent(w)
  BY <1>3 DEF Edge, ID_Edge
<1>7. CASE HandsOn(w)
  BY <1>3, <1>4, <1>5, <1>6, <1>7 DEF HandsOn, Sent
<1>8. CASE SendsNop
  <2>1. ~HandsOn(w)  BY <1>8, <1>3 DEF HandsOn
  <2> QED  BY <1>6, <1>8, <2>1 DEF ID_Data
<1>9. CASE SendsInstr /\ WANT_FREEZE(w) /\ ~w.dStall
  <2>1. ~HandsOn(w)  BY <1>9 DEF HandsOn
  <2>2. ~SendsNop /\ Sent(w) = Bubble  BY <1>9, <1>3 DEF Sent
  <2> QED  BY <1>6, <1>9, <2>1, <2>2 DEF ID_Data
<1>10. CASE SendsInstr /\ w.dStall
  <2>1. ~HandsOn(w)  BY <1>10, <1>5 DEF HandsOn
  <2>2. ~SendsNop /\ Sent(w) = idexe  BY <1>10, <1>3, <1>5 DEF Sent
  <2> QED  BY <1>4, <1>6, <1>10, <2>1, <2>2 DEF ID_Data
<1> QED  BY <1>3, <1>5, <1>7, <1>8, <1>9, <1>10 DEF HandsOn

----------------------------------------------------------------------------
(* What the stages compute, from the invariant.                            *)

LEMMA ExecuteCurrent == DataInv => OperandsDue
<1> SUFFICES ASSUME DataInv PROVE OperandsDue  OBVIOUS
<1>1. OperandsFollow /\ Computed  BY DEF DataInv
<1>2. due.a \in {A1, Open}
  BY <1>1 DEF OperandsFollow, Computed, Follows, Writes, A1, RegValue2, RegValue1, FromEXEMEM,
     FromMEMWB, Bypass, Computes
<1>3. due.b \in {B1, Open}
  BY <1>1 DEF OperandsFollow, Computed, Follows, Writes, B1, RegValue2, RegValue1, FromEXEMEM,
     FromMEMWB, Bypass, Computes
<1> QED  BY <1>2, <1>3 DEF OperandsDue

LEMMA ALUCurrent ==
  DataInv => ALU = IF InMemory(idexe) THEN Address ELSE due.value
BY ExecuteCurrent DEF ALU

LEMMA MEMCurrent ==
  ASSUME DataInv, RegWrite1(exemem)
  PROVE  WriteData1_async = memoryDue.value
<1>1. Computed /\ MemoryReadsCurrent  BY DEF DataInv
<1>2. CASE InMemory(exemem)  BY <1>1, <1>2 DEF Computed, MemoryReadsCurrent, WriteData1_async
<1>3. CASE ~InMemory(exemem)
  <2>1. Computes(exemem)  BY <1>3 DEF Computes
  <2> QED  BY <1>1, <1>3, <2>1 DEF Computed, WriteData1_async
<1> QED  BY <1>2, <1>3

LEMMA DecodeCurrent ==
  ASSUME DataInv, NEW r \in Registers \ lost, r # loaded \/ r = 0
  PROVE  Decoded(r) = Current(r)
<1>1. Newest(r) = Current(r) /\ LoadKnown  BY DEF DataInv, NewestIsCurrent
<1>2. Writes(idexe, r) => Computes(idexe) /\ ALU = due.value
  <2>1. Writes(idexe, r) => ~InMemory(idexe)  BY <1>1 DEF LoadKnown, Writes, RegWrite1
  <2> QED  BY <2>1, ALUCurrent DEF Writes, Computes
<1>3. Computes(idexe) /\ Regs(idexe).w = r => Writes(idexe, r)  BY DEF Computes, Writes
<1>4. Writes(exemem, r) => WriteData1_async = memoryDue.value  BY MEMCurrent DEF Writes
<1> QED
  BY <1>1, <1>2, <1>3, <1>4 DEF Newest, Writes, Decoded, RegValue3, RegValue2, RegValue1, Bypass, FromMEMWB

----------------------------------------------------------------------------
(* Steps.                                                                  *)

DataEdge(w) ==
  /\ Edge(w) /\ ID_Data(w, Given(w)) /\ EXE_MEM_Data(w, Given(w)) /\ RegFile(Given(w))
  /\ lost' = ((lost \cup BubbleOver(w)) \ Given(w)) \cup AnswerUnder(w) \cup SkippedBy(w)

\* Where the edge moves what is due and what was computed.
LEMMA Moves ==
  ASSUME Shape, NEW w \in Inputs, DataEdge(w)
  PROVE  LET g == Given(w) IN
         /\ aluResult' = Aged(ALU, g)
         /\ DOMAIN memoryDue' = Fields \cup {"value"}
         /\ ~w.dStall =>
              /\ exemem' = idexe /\ memwb' = exemem
              /\ memoryDue'.value = Aged(due.value, g) /\ memoryDue'.data = Aged(due.data, g)
              /\ ALU_result1' = Aged(ALU, g) /\ MemWriteData1' = Aged(StoreData, g)
              /\ WriteData1' = Aged(WriteData1_async, g)
         /\ w.dStall =>
              /\ InMemory(exemem) /\ exemem' = exemem /\ memwb' = memwb
              /\ memoryDue'.value = Aged(memoryDue.value, g)
              /\ memoryDue'.data = Aged(memoryDue.data, g)
              /\ ALU_result1' = Aged(ALU_result1, g) /\ MemWriteData1' = Aged(MemWriteData1, g)
              /\ WriteData1' = Aged(WriteData1, g)
<1> DEFINE g == Given(w)
<1>1. w.dStall \in BOOLEAN /\ (w.dStall => InMemory(exemem))  BY DEF Inputs, InMemory
<1>2. memoryDue' = AllAged(IF w.dStall THEN memoryDue ELSE due, g)
  BY DEF DataEdge, EXE_MEM_Data
<1>3. DOMAIN memoryDue' = Fields \cup {"value"}
  BY <1>1, <1>2 DEF AllAged, Shape
<1>4. /\ memoryDue'.value = Aged(IF w.dStall THEN memoryDue.value ELSE due.value, g)
      /\ memoryDue'.data = Aged(IF w.dStall THEN memoryDue.data ELSE due.data, g)
  BY <1>1, <1>2 DEF AllAged, Shape, Fields
<1> QED  BY <1>1, <1>3, <1>4 DEF DataEdge, Edge, EXE_MEM_Edge, EXE_MEM_Data

\* What ID hands on, before and after the edge ages it.
LEMMA HandedOn ==
  ASSUME Shape, NEW w, DataEdge(w), HandsOn(w)
  PROVE  LET g == Given(w)  r == Regs(Instr_PC_OUT) IN
         /\ DOMAIN operands' = Fields /\ DOMAIN due' = Fields \cup {"value"}
         /\ operands'.a = Aged(Decoded(r.a), g) /\ due'.a = Aged(Promised(r.a), g)
         /\ operands'.b = Aged(Decoded(r.b), g) /\ due'.b = Aged(Promised(r.b), g)
         /\ operands'.data = Aged(Decoded(r.w), g) /\ due'.data = Aged(PromisedData(r.w), g)
         /\ due'.value = Result(Instr_PC_OUT)
         /\ loaded' = IF InMemory(Instr_PC_OUT) /\ Gives(Instr_PC_OUT) THEN r.w ELSE 0
<1> DEFINE g == Given(w)
           r == Regs(Instr_PC_OUT)
           promised == [Nothing EXCEPT !.a = Promised(r.a), !.b = Promised(r.b),
                                       !.data = PromisedData(r.w)]
<1>1. /\ operands' = AllAged([a |-> Decoded(r.a), b |-> Decoded(r.b), data |-> Decoded(r.w)], g)
      /\ due' = [AllAged(promised, g) EXCEPT !.value = Result(Instr_PC_OUT)]
      /\ loaded' = IF InMemory(Instr_PC_OUT) /\ Gives(Instr_PC_OUT) THEN r.w ELSE 0
  <2>1. ~SendsNop /\ ~(SendsInstr /\ WANT_FREEZE(w) /\ ~w.dStall)
    <3>1. syscal1 \in BOOLEAN  BY DEF syscal1
    <3> QED  BY <3>1 DEF HandsOn, SendsInstr, SendsNop
  <2> QED  BY <2>1 DEF DataEdge, ID_Data
<1>2. /\ DOMAIN promised = Fields \cup {"value"}
      /\ promised.a = Promised(r.a) /\ promised.b = Promised(r.b)
      /\ promised.data = PromisedData(r.w)
  BY DEF Nothing, Fields
<1>3. /\ DOMAIN due' = Fields \cup {"value"} /\ due'.value = Result(Instr_PC_OUT)
      /\ due'.a = Aged(promised.a, g) /\ due'.b = Aged(promised.b, g)
      /\ due'.data = Aged(promised.data, g)
  <2> HIDE DEF promised
  <2> QED  BY <1>1, <1>2 DEF AllAged, Fields
<1>4. /\ DOMAIN operands' = Fields /\ operands'.a = Aged(Decoded(r.a), g)
      /\ operands'.b = Aged(Decoded(r.b), g) /\ operands'.data = Aged(Decoded(r.w), g)
  BY <1>1 DEF AllAged, Fields
<1> QED  BY <1>1, <1>2, <1>3, <1>4

\* What EXE keeps ages.
LEMMA Kept ==
  ASSUME Shape, NEW g, operands' = AllAged(operands, g), due' = AllAged(due, g)
  PROVE  /\ DOMAIN operands' = Fields /\ DOMAIN due' = Fields \cup {"value"}
         /\ operands'.a = Aged(operands.a, g) /\ due'.a = Aged(due.a, g)
         /\ operands'.b = Aged(operands.b, g) /\ due'.b = Aged(due.b, g)
         /\ operands'.data = Aged(operands.data, g) /\ due'.data = Aged(due.data, g)
         /\ due'.value = Aged(due.value, g)
BY DEF AllAged, Shape, Fields

LEMMA ShapeStep ==
  ASSUME Shape, TypeOK, Countdown, NEW w \in Inputs, DataEdge(w)
  PROVE  Shape'
<1>1. DOMAIN Reg' = Registers  BY DEF DataEdge, RegFile
<1>2. DOMAIN memoryDue' = Fields \cup {"value"}  BY Moves
<1>3. DOMAIN operands' = Fields /\ DOMAIN due' = Fields \cup {"value"}
  <2>1. Edge(w) /\ ID_Data(w, Given(w))  BY DEF DataEdge
  <2>2. CASE HandsOn(w)  BY <2>2, HandedOn
  <2>3. CASE operands' = NoOperands /\ due' = Nothing
    BY <2>3 DEF NoOperands, Nothing, Fields
  <2>4. CASE operands' = AllAged(operands, Given(w)) /\ due' = AllAged(due, Given(w))
    BY <2>4, Kept
  <2> QED  BY <2>1, <2>2, <2>3, <2>4, HandsOnOrNot
<1> QED  BY <1>1, <1>2, <1>3 DEF Shape

LEMMA LostStep ==
  ASSUME TypeOK, LostRegisters, NEW w \in Inputs, DataEdge(w)
  PROVE  LostRegisters'
<1>1. {idexe, exemem, memwb} \subseteq Addresses \cup {Bubble}  BY DEF TypeOK
<1>2. BubbleOver(w) \subseteq Registers \ {0}
  BY <1>1, RegsFacts DEF BubbleOver, Results
<1>3. AnswerUnder(w) \subseteq Registers \ {0}
  BY DataAssumption DEF AnswerUnder
<1>4. SkippedBy(w) \subseteq Registers \ {0}
  <2>1. Instr_PC_OUT \in Addresses  BY DEF TypeOK
  <2> QED  BY <2>1, RegsFacts DEF SkippedBy, Results
<1> QED  BY <1>2, <1>3, <1>4 DEF LostRegisters, DataEdge

LEMMA LoadKnownStep ==
  ASSUME DataInv, TypeOK, Countdown, NEW w \in Inputs, DataEdge(w)
  PROVE  LoadKnown'
<1>1. Edge(w) /\ ID_Data(w, Given(w)) /\ Shape /\ LoadKnown  BY DEF DataEdge, DataInv
<1>2. CASE HandsOn(w) /\ idexe' = Instr_PC_OUT
  BY <1>1, <1>2, HandedOn DEF LoadKnown, Gives, RegWrite1
<1>3. CASE idexe' = Bubble  BY <1>3, RegsFacts DEF LoadKnown
<1>4. CASE idexe' = idexe /\ loaded' = loaded  BY <1>1, <1>4 DEF LoadKnown
<1> QED  BY <1>1, <1>2, <1>3, <1>4, HandsOnOrNot

LEMMA ComputedStep ==
  ASSUME DataInv, TypeOK, NEW w \in Inputs, DataEdge(w)
  PROVE  Computed'
<1> DEFINE g == Given(w)
<1>1. Shape /\ Computed /\ w.dStall \in BOOLEAN  BY DEF DataInv, Inputs
<1>2. Aged(Address, g) = Address  BY AgedFacts, GivenFacts
<1>3. CASE w.dStall
  BY <1>1, <1>2, <1>3, Moves DEF Computed, Computes
<1>4. CASE ~w.dStall
  BY <1>1, <1>2, <1>4, Moves, ALUCurrent DEF Computed, Computes
<1> QED  BY <1>1, <1>3, <1>4

LEMMA MemoryStep ==
  ASSUME DataInv, TypeOK, NEW w \in Inputs, DataEdge(w)
  PROVE  MemoryReadsCurrent'
<1> DEFINE g == Given(w)
           r == Regs(idexe).w
<1>1. Shape /\ MemoryReadsCurrent /\ OperandsFollow /\ w.dStall \in BOOLEAN
  BY DEF DataInv, Inputs
<1>2. Aged(Open, g) = Open  BY AgedFacts, GivenFacts
<1>3. CASE w.dStall
  BY <1>1, <1>2, <1>3, Moves DEF MemoryReadsCurrent, MemoryData1, RegValue1, FromMEMWB, Bypass
<1>4. CASE ~w.dStall
  <2> SUFFICES ASSUME due.data # Open
               PROVE  memoryDue'.data = MemoryData1'
    BY <1>1, <1>2, <1>4, Moves DEF MemoryReadsCurrent
  <2>1. due.data = IF Writes(exemem, r) THEN memoryDue.value
                   ELSE IF Writes(memwb, r) THEN WriteData1 ELSE operands.data
    BY <1>1 DEF OperandsFollow, Follows
  <2>2. MemoryData1' = IF Writes(exemem, r) THEN Aged(WriteData1_async, g) ELSE Aged(StoreData, g)
    BY <1>1, <1>4, Moves DEF MemoryData1, RegValue1, FromMEMWB, Bypass, Writes
  <2>3. Writes(exemem, r) => WriteData1_async = memoryDue.value  BY MEMCurrent DEF Writes
  <2>4. ~Writes(exemem, r) =>
          StoreData = IF Writes(memwb, r) THEN WriteData1 ELSE operands.data
    BY DEF StoreData, RegValue2, RegValue1, FromEXEMEM, FromMEMWB, Bypass, Computes, Writes
  <2> QED  BY <1>1, <1>4, <2>1, <2>2, <2>3, <2>4, Moves
<1> QED  BY <1>1, <1>3, <1>4

\* What is due after an edge that moves the instructions, from what was newest
\* before it.
LEMMA NewestMoves ==
  ASSUME DataInv, TypeOK, NEW w \in Inputs, DataEdge(w), ~w.dStall, NEW r \in Registers \ lost
  PROVE  Aged(Current(r), Given(w)) =
           IF Writes(idexe, r) THEN memoryDue'.value
           ELSE IF Writes(exemem, r) THEN WriteData1'
           ELSE IF Writes(memwb, r) THEN Aged(WriteData1, Given(w)) ELSE Aged(Reg[r], Given(w))
<1>1. Shape /\ Newest(r) = Current(r)  BY DEF DataInv, NewestIsCurrent
<1>2. Writes(exemem, r) => WriteData1_async = memoryDue.value  BY MEMCurrent DEF Writes
<1> QED  BY <1>1, <1>2, Moves DEF Newest

\* An operand that ID hands on follows the program.
LEMMA HandedOnFollows ==
  ASSUME DataInv, TypeOK, NEW w \in Inputs, DataEdge(w), ~w.dStall, NEW r \in Registers, r \notin lost
  PROVE  Aged(Current(r), Given(w)) =
           IF Writes(idexe, r) THEN memoryDue'.value
           ELSE IF Writes(exemem, r) THEN WriteData1' ELSE Aged(Decoded(r), Given(w))
<1>1. ~Writes(idexe, r) /\ ~Writes(exemem, r) =>
        Decoded(r) = IF Writes(memwb, r) THEN WriteData1 ELSE Reg[r]
  BY DEF Decoded, RegValue3, RegValue2, RegValue1, Bypass, FromMEMWB, Computes, Writes
<1> QED  BY <1>1, NewestMoves

LEMMA OperandsStep ==
  ASSUME DataInv, TypeOK, Countdown, NEW w \in Inputs, DataEdge(w)
  PROVE  OperandsFollow'
<1> DEFINE g == Given(w)
           After(d, operand, r) ==
             \/ d = Open
             \/ d = IF Writes(exemem', r) THEN memoryDue'.value
                    ELSE IF Writes(memwb', r) THEN WriteData1' ELSE operand
<1> SUFFICES /\ After(due'.a, operands'.a, Regs(idexe').a)
             /\ After(due'.b, operands'.b, Regs(idexe').b)
             /\ After(due'.data, operands'.data, Regs(idexe').w)
             /\ InMemory(exemem') =>
                  /\ Writes(exemem', Regs(idexe').a) => due'.a = Open
                  /\ Writes(exemem', Regs(idexe').b) => due'.b = Open
  BY DEF OperandsFollow, Follows, Writes
<1>1. Edge(w) /\ ID_Data(w, g) /\ Shape /\ OperandsFollow /\ LoadKnown  BY DEF DataEdge, DataInv
<1>2. Aged(Open, g) = Open /\ Aged(Current(0), g) = Current(0)  BY AgedFacts, GivenFacts
<1>3. {idexe, exemem, memwb, Instr_PC_OUT} \subseteq Addresses \cup {Bubble}  BY DEF TypeOK
<1>4. CASE HandsOn(w) /\ ~w.dStall /\ idexe' = Instr_PC_OUT
  <2> DEFINE r == Regs(Instr_PC_OUT)
  <2>1. exemem' = idexe /\ memwb' = exemem  BY <1>1, <1>4, Moves
  <2>2. r.a \in Registers /\ r.b \in Registers /\ r.w \in Registers  BY <1>3, RegsFacts
  <2>3. ASSUME NEW x \in Registers, x \notin lost
        PROVE  After(Aged(Current(x), g), Aged(Decoded(x), g), x)
    BY <1>4, <2>1, <2>3, HandedOnFollows
  <2>4. ASSUME NEW x \in Registers
        PROVE  /\ After(Aged(Promised(x), g), Aged(Decoded(x), g), x)
               /\ After(Aged(PromisedData(x), g), Aged(Decoded(x), g), x)
    BY <1>2, <2>3 DEF Promised, PromisedData
  <2>5. ASSUME NEW x, InMemory(idexe), Writes(idexe, x)
        PROVE  Aged(Promised(x), g) = Open
    <3>1. loaded = x /\ x # 0  BY <1>1, <2>5 DEF LoadKnown, Writes, RegWrite1
    <3> QED  BY <1>2, <3>1 DEF Promised
  <2> HIDE DEF After
  <2>6. /\ operands'.a = Aged(Decoded(r.a), g) /\ due'.a = Aged(Promised(r.a), g)
        /\ operands'.b = Aged(Decoded(r.b), g) /\ due'.b = Aged(Promised(r.b), g)
        /\ operands'.data = Aged(Decoded(r.w), g) /\ due'.data = Aged(PromisedData(r.w), g)
    BY <1>1, <1>4, HandedOn
  <2> QED  BY <1>4, <2>1, <2>2, <2>4, <2>5, <2>6
<1>5. CASE idexe' = Bubble /\ operands' = NoOperands /\ due' = Nothing
  <2>1. exemem' \in Addresses \cup {Bubble} /\ memwb' \in Addresses \cup {Bubble}
    BY <1>1, <1>3 DEF Edge, EXE_MEM_Edge
  <2>2. ~Writes(exemem', 0) /\ ~Writes(memwb', 0)  BY <2>1, RegsFacts DEF Writes
  <2> QED  BY <1>5, <2>2, RegsFacts DEF NoOperands, Nothing
<1>6. CASE w.dStall /\ idexe' = idexe /\ operands' = AllAged(operands, g) /\ due' = AllAged(due, g)
  <2>1. /\ operands'.a = Aged(operands.a, g) /\ due'.a = Aged(due.a, g)
        /\ operands'.b = Aged(operands.b, g) /\ due'.b = Aged(due.b, g)
        /\ operands'.data = Aged(operands.data, g) /\ due'.data = Aged(due.data, g)
    BY <1>1, <1>6, Kept
  <2>2. /\ exemem' = exemem /\ memwb' = memwb
        /\ memoryDue'.value = Aged(memoryDue.value, g) /\ WriteData1' = Aged(WriteData1, g)
    BY <1>1, <1>6, Moves
  <2>3. ASSUME NEW d, NEW operand, NEW x, Follows(d, operand, x)
        PROVE  After(Aged(d, g), Aged(operand, g), x)
    BY <1>2, <2>2, <2>3 DEF Follows
  <2> HIDE DEF After
  <2> QED  BY <1>1, <1>2, <1>6, <2>1, <2>2, <2>3 DEF OperandsFollow
<1> QED  BY <1>1, <1>4, <1>5, <1>6, HandsOnOrNot

\* The registers that are given no value keep their newest one, wherever it
\* is by then.
LEMMA NewestStep ==
  ASSUME DataInv, TypeOK, Countdown, NEW w \in Inputs, DataEdge(w)
  PROVE  NewestIsCurrent'
<1> DEFINE g == Given(w)
           After(r) ==
             IF Writes(idexe', r) THEN due'.value
             ELSE IF Writes(exemem', r) THEN memoryDue'.value
             ELSE IF Writes(memwb', r) THEN WriteData1' ELSE Reg'[r]
<1> SUFFICES ASSUME NEW r \in Registers, r \notin lost' PROVE After(r) = Current(r)
  BY DEF NewestIsCurrent, Newest, Writes, Current
<1>1. Edge(w) /\ ID_Data(w, g) /\ Shape /\ RegFile(g)  BY DEF DataEdge, DataInv
<1>2. w.dStall \in BOOLEAN /\ SYS \in BOOLEAN /\ g \subseteq Registers
  BY GivenFacts DEF Inputs, TypeOK
<1>3. {idexe, exemem, memwb, Instr_PC_OUT} \subseteq Addresses \cup {Bubble}  BY DEF TypeOK
<1>4. /\ r \notin AnswerUnder(w) /\ r \notin SkippedBy(w)
      /\ r \in g \/ r \notin lost \cup BubbleOver(w)
  BY DEF DataEdge
<1>5. Reg'[r] = IF Writes(memwb, r) THEN Aged(WriteData1, g)
                ELSE IF SYS /\ r = ANSWER THEN Current(r) ELSE Aged(Reg[r], g)
  BY <1>1 DEF RegFile, Writes
<1>6. CASE r \notin g
  <2>1. r \notin lost /\ Aged(Current(r), g) = Current(r) /\ ~(SYS /\ r = ANSWER)
    BY <1>4, <1>6, AgedFacts, GivenFacts DEF Given
  <2>2. Newest(r) = Current(r)  BY <2>1 DEF DataInv, NewestIsCurrent
  <2>3. ~Writes(idexe', r) \/ (w.dStall /\ idexe' = idexe /\ due'.value = Aged(due.value, g))
    <3>1. CASE HandsOn(w) /\ idexe' = Instr_PC_OUT
      BY <1>6, <3>1 DEF Given, Gives, Writes, RegWrite1
    <3>2. CASE idexe' = Bubble  BY <3>2, RegsFacts DEF Writes
    <3>3. CASE w.dStall /\ idexe' = idexe /\ operands' = AllAged(operands, g) /\ due' = AllAged(due, g)
      BY <1>1, <3>3, Kept
    <3> QED  BY <1>1, <3>1, <3>2, <3>3, HandsOnOrNot
  <2>4. CASE ~w.dStall
    <3>1. exemem' = idexe /\ memwb' = exemem  BY <1>1, <2>4, Moves
    <3> QED  BY <1>5, <2>1, <2>3, <2>4, <3>1, NewestMoves
  <2>5. CASE w.dStall
    <3>1. /\ exemem' = exemem /\ memwb' = memwb
          /\ memoryDue'.value = Aged(memoryDue.value, g) /\ WriteData1' = Aged(WriteData1, g)
      BY <1>1, <2>5, Moves
    <3>2. Writes(idexe, r) => Writes(idexe', r)
      <4>1. SendsNop => ~Writes(idexe, r)
        BY <1>4, <1>6, <2>5 DEF BubbleOver, Results, Writes
      <4> QED  BY <1>1, <2>5, <4>1, HandsOnOrNot
    <3> QED  BY <1>5, <2>1, <2>2, <2>3, <3>1, <3>2 DEF Newest
  <2> QED  BY <1>2, <2>4, <2>5
<1>7. CASE r \in g /\ SYS
  <2>1. idexe' = Bubble /\ ~HandsOn(w)  BY <1>1, <1>7, HandsOnOrNot
  <2>2. r = ANSWER
    <3>1. Skips(w) /\ Gives(Instr_PC_OUT) => r # Regs(Instr_PC_OUT).w
      BY <1>4 DEF SkippedBy, Results, Gives, RegWrite1
    <3> QED  BY <1>7, <2>1, <3>1 DEF Given
  <2>3. /\ ~Writes(memwb, r) /\ ~Writes(exemem, r) /\ (~w.dStall => ~Writes(idexe, r))
    BY <1>4, <1>7, <2>2 DEF AnswerUnder, Results, Writes
  <2>4. ~Writes(idexe', r)  BY <2>1, RegsFacts DEF Writes
  <2>5. ~Writes(exemem', r) /\ ~Writes(memwb', r)
    BY <1>1, <2>3 DEF Edge, EXE_MEM_Edge
  <2> QED  BY <1>5, <1>7, <2>2, <2>3, <2>4, <2>5
<1>8. CASE r \in g /\ ~SYS
  <2>1. HandsOn(w) /\ Gives(Instr_PC_OUT) /\ r = Regs(Instr_PC_OUT).w
    <3>1. /\ HandsOn(w) \/ Skips(w)
          /\ Gives(Instr_PC_OUT) /\ r = Regs(Instr_PC_OUT).w
      BY <1>8 DEF Given
    <3>2. ~Skips(w)
      BY <1>4, <3>1 DEF SkippedBy, Results, Gives, RegWrite1
    <3> QED  BY <3>1, <3>2
  <2>2. idexe' = Instr_PC_OUT  BY <1>1, <2>1, HandsOnOrNot
  <2>3. due'.value = Current(r)  BY <1>1, <2>1, HandedOn DEF Result
  <2> QED  BY <2>1, <2>2, <2>3 DEF Writes, Gives, RegWrite1
<1> QED  BY <1>2, <1>6, <1>7, <1>8

LEMMA DataStep ==
  ASSUME DataInv, TypeOK, Countdown, NEW w \in Inputs, DataEdge(w)
  PROVE  DataInv'
<1>1. Shape /\ LostRegisters  BY DEF DataInv
<1> QED
  BY <1>1, ShapeStep, LostStep, LoadKnownStep, OperandsStep, ComputedStep, MemoryStep, NewestStep
  DEF DataInv

LEMMA DataStarts == DataInit => DataInv
<1> SUFFICES ASSUME DataInit PROVE DataInv  OBVIOUS
<1>1. idexe = Bubble /\ exemem = Bubble /\ memwb = Bubble  BY DEF DataInit, Init
<1>2. Shape /\ LostRegisters
  BY DEF DataInit, Shape, LostRegisters, NoOperands, Nothing, Fields
<1>3. LoadKnown /\ MemoryReadsCurrent /\ Computed
  BY <1>1, RegsFacts DEF LoadKnown, MemoryReadsCurrent, Computed, Computes
<1>4. \A r : ~Writes(Bubble, r)  BY RegsFacts DEF Writes
<1>5. OperandsFollow
  BY <1>1, <1>4, RegsFacts DEF OperandsFollow, Follows, DataInit, NoOperands, Nothing
<1>6. NewestIsCurrent
  BY <1>1, <1>4 DEF NewestIsCurrent, Newest, DataInit
<1> QED  BY <1>2, <1>3, <1>5, <1>6 DEF DataInv

LEMMA DataInvHolds == DataSpec => []DataInv
<1>1. DataInv /\ TypeOK /\ Countdown /\ [DataNext]_<<vars, dataVars>> => DataInv'
  <2> SUFFICES ASSUME DataInv, TypeOK, Countdown, [DataNext]_<<vars, dataVars>>
               PROVE  DataInv'
    OBVIOUS
  <2>1. CASE DataNext
    <3>1. PICK w \in Inputs : DataEdge(w)  BY <2>1 DEF DataNext, DataEdge
    <3> QED  BY <3>1, DataStep
  <2>2. CASE UNCHANGED <<vars, dataVars>>
    <3>1. UNCHANGED <<idexe, exemem, memwb, dataVars>>  BY <2>2 DEF vars, decodeVars
    <3>2. MemoryReadsCurrent'  
      BY <3>1 DEF DataInv, dataVars, MemoryReadsCurrent, MemoryData1, RegValue1, FromMEMWB, Bypass
    <3> QED
      BY <3>1, <3>2 DEF DataInv, dataVars, Shape, LostRegisters, LoadKnown, OperandsFollow, Follows,
         Computed, NewestIsCurrent, Newest
  <2> QED  BY <2>1, <2>2
<1> QED  BY <1>1, DataStarts, DataSpecIsSpec, TypeCorrect, CountdownHolds, PTL DEF DataSpec

----------------------------------------------------------------------------
(* The properties.                                                         *)

\* What ID reads is what the program last gave, but for a load just before.
THEOREM DecodeReadsCurrentHolds == DataSpec => []DecodeReadsCurrent
<1>1. DataInv /\ TypeOK => DecodeReadsCurrent
  <2> SUFFICES ASSUME DataInv, TypeOK,
                      NEW r \in {Regs(Instr_PC_OUT).a, Regs(Instr_PC_OUT).b}, Promised(r) # Open
               PROVE  Decoded(r) = Promised(r)
    BY DEF DecodeReadsCurrent
  <2>1. r \in Registers  BY RegsFacts DEF TypeOK
  <2>2. r \notin lost /\ (r # loaded \/ r = 0) /\ Promised(r) = Current(r)  BY DEF Promised
  <2> QED  BY <2>1, <2>2, DecodeCurrent
<1> QED  BY <1>1, DataInvHolds, DataSpecIsSpec, TypeCorrect, PTL

\* The ALU works with current operands, in a stall as well.
THEOREM ExecuteReadsCurrentHolds == DataSpec => []ExecuteReadsCurrent
<1>1. DataInv => ExecuteReadsCurrent  BY ExecuteCurrent DEF ExecuteReadsCurrent
<1> QED  BY <1>1, DataInvHolds, PTL

\* What MEM stores and what lwl and lwr keep is current.
THEOREM MemoryReadsCurrentHolds == DataSpec => []MemoryReadsCurrent
<1>1. DataInv => MemoryReadsCurrent  BY DEF DataInv
<1> QED  BY <1>1, DataInvHolds, PTL

\* An empty pipeline leaves the program's values in the register file.
THEOREM RegistersFollowProgramHolds == DataSpec => []RegistersFollowProgram
<1>1. DataInv => RegistersFollowProgram
  <2> SUFFICES ASSUME DataInv, InFlight = <<>>, NEW r \in Registers \ lost
               PROVE  Reg[r] = Current(r)
    BY DEF RegistersFollowProgram
  <2>1. idexe = Bubble /\ exemem = Bubble /\ memwb = Bubble
    BY DEF InFlight, HoldsOne
  <2> QED  BY <2>1, RegsFacts DEF DataInv, NewestIsCurrent, Newest, Writes
<1> QED  BY <1>1, DataInvHolds, PTL

=============================================================================
