-------------------------- MODULE SimulationProofs --------------------------
(***************************************************************************)
(* Theorems about Simulation for every processor, program, terminal and    *)
(* command line: the table of descriptors, and when a run stops and goes   *)
(* on.                                                                     *)
(***************************************************************************)
EXTENDS Simulation, TLAPS, SequenceTheorems, WellFoundedInduction

Physical == UNION {Range(r) : r \in Renamings}

\* The program's registers are at different places of the register file.
Renamed ==
  /\ RRAT \in Renamings /\ DOMAIN PReg = Physical
  /\ \A r \in Architectural : RRAT[r] \in Physical
  /\ \A i, j \in Architectural : RRAT[i] = RRAT[j] => i = j

\* Every name of the table has its state, and its index.
Table ==
  /\ (\E S : FDT_filename \in Seq(S)) /\ FDT_state \in Seq({0, 1})
  /\ FileDescriptorIndex = Len(FDT_filename) /\ Len(FDT_state) = Len(FDT_filename)

Counted == CLOCK_COUNTER \in 0 .. MAXCLOCK /\ duration \in Int

Stops ==
  \/ BREAKPOINT = nextInstructionAddr
  \/ nextInstructionAddr < TEXT_START /\ CLOCK_COUNTER > 1
  \/ nextInstructionAddr \notin BootPage /\ read_register(28) = 0

\* From the count of a cycle to its end the stops of that cycle are kept.
StopsKept == stage \in {"syscall", "prompt"} /\ Stops => CLOCK_COUNTER >= duration

SimInv == TypeOK /\ Renamed /\ Table /\ Counted /\ StopsKept

----------------------------------------------------------------------------
(* The registers.                                                          *)

LEMMA RenamingFacts ==
  ASSUME NEW map \in Renamings
  PROVE  /\ map \in [Architectural -> Nat]
         /\ \A r \in Architectural : map[r] \in Physical
         /\ \A i, j \in Architectural : map[i] = map[j] => i = j
<1>1. map \in [Architectural -> Nat] /\ \A i, j \in Architectural : map[i] = map[j] => i = j
  BY RenamingsAreInjective
<1>2. ASSUME NEW r \in Architectural PROVE map[r] \in Physical
  BY <1>1 DEF Physical, Range
<1> QED  BY <1>1, <1>2

\* Register 28 is not where an answer is written.
LEMMA WriteKeeps ==
  ASSUME Renamed, NEW value, PReg' = write_register(2, value) \/ PReg' = Shifted(value)
  PROVE  DOMAIN PReg' = Physical /\ PReg'[RRAT[28]] = PReg[RRAT[28]]
<1>1. RRAT[28] \in Physical /\ RRAT[28] \notin {RRAT[2], RRAT[4], RRAT[5]}
  BY DEF Renamed, Architectural
<1> QED  BY <1>1 DEF Renamed, write_register, Shifted, register_arch_to_phys

\* What a system call may do to the loop around it.
LEMMA CallStep ==
  ASSUME Renamed, SystemCall
  PROVE  /\ stage = "syscall" /\ stage' \in {"prompt"} \cup Ends
         /\ CLOCK_COUNTER' = CLOCK_COUNTER /\ duration' \in {duration, CLOCK_COUNTER}
         /\ BREAKPOINT' = BREAKPOINT /\ nextInstructionAddr' = nextInstructionAddr
         /\ RRAT' = RRAT
         /\ DOMAIN PReg' = Physical /\ PReg'[RRAT[28]] = PReg[RRAT[28]]
<1>1. CASE Exit \/ Close \/ Uname \/ Read \/ Write \/ Open
  <2>1. PReg' = PReg \/ \E value : PReg' = write_register(2, value)
    BY <1>1 DEF Exit, Close, Uname, Read, Write, Open
  <2>2. DOMAIN PReg' = Physical /\ PReg'[RRAT[28]] = PReg[RRAT[28]]
    BY <2>1, WriteKeeps DEF Renamed
  <2>3. CASE Exit  BY <2>2, <2>3 DEF Exit, Call, processor, settings, Ends
  <2>4. CASE Close  BY <2>2, <2>4 DEF Close, Call, processor, settings, Ends
  <2>5. CASE Uname  BY <2>2, <2>5 DEF Uname, Call, processor, settings, Ends
  <2>6. CASE Read
    <3>1. stage = "syscall" /\ UNCHANGED <<CLOCK_COUNTER, duration, settings, processor>>
      BY <2>6 DEF Read, Call
    <3>2. stage' = "hung" \/ stage' = "prompt"  BY <2>6 DEF Read
    <3> QED  BY <2>2, <3>1, <3>2 DEF processor, settings, Ends
  <2>7. CASE Write
    <3>1. stage = "syscall" /\ stage' = "prompt" /\ UNCHANGED <<CLOCK_COUNTER, duration, settings, processor>>
      BY <2>7 DEF Write, Call
    <3> QED  BY <2>2, <3>1 DEF processor, settings
  <2>8. CASE Open  BY <2>2, <2>8 DEF Open, Call, processor, settings, Ends
  <2> QED  BY <1>1, <2>3, <2>4, <2>5, <2>6, <2>7, <2>8
<1>2. CASE Stat \/ Forwarded \/ Unimplemented
  <2>1. \/ PReg' = PReg
        \/ \E value : PReg' = write_register(2, value) \/ PReg' = Shifted(value)
    BY <1>2 DEF Stat, Forwarded, Unimplemented
  <2>2. DOMAIN PReg' = Physical /\ PReg'[RRAT[28]] = PReg[RRAT[28]]
    BY <2>1, WriteKeeps DEF Renamed
  <2>3. CASE Stat
    <3>1. stage = "syscall" /\ UNCHANGED <<CLOCK_COUNTER, duration, settings, processor>>
      BY <2>3 DEF Stat, Call
    <3>2. stage' = "crashed" \/ stage' = "prompt"  BY <2>3 DEF Stat
    <3> QED  BY <2>2, <3>1, <3>2 DEF processor, settings, Ends
  <2>4. CASE Forwarded
    <3>1. stage = "syscall" /\ UNCHANGED <<CLOCK_COUNTER, duration, settings, processor>>
      BY <2>4 DEF Forwarded, Call
    <3>2. stage' = "killed" \/ stage' = "prompt"  BY <2>4 DEF Forwarded
    <3> QED  BY <2>2, <3>1, <3>2 DEF processor, settings, Ends
  <2>5. CASE Unimplemented  BY <2>2, <2>5 DEF Unimplemented, processor, settings, Ends
  <2> QED  BY <1>2, <2>3, <2>4, <2>5
<1> QED  BY <1>1, <1>2 DEF SystemCall

LEMMA RenamedStep ==
  ASSUME Renamed, Next
  PROVE  Renamed'
<1>1. CASE Rise
  <2>1. CASE UNCHANGED <<processor, PReg>>  BY <2>1 DEF Renamed, processor
  <2>2. CASE ~UNCHANGED <<processor, PReg>>
    <3>1. RRAT' \in Renamings /\ DOMAIN PReg' = DOMAIN PReg
      BY <1>1, <2>2, CyclesAreRenamed DEF Rise
    <3> QED  BY <3>1, RenamingFacts DEF Renamed
  <2> QED  BY <2>1, <2>2
<1>2. CASE Fall \/ NoCall \/ Prompt
  BY <1>2 DEF Fall, NoCall, Prompt, Renamed, processor
<1>3. CASE SystemCall  BY <1>3, CallStep DEF Renamed
<1> QED  BY <1>1, <1>2, <1>3 DEF Next

----------------------------------------------------------------------------
(* The table and the files.                                                *)

LEMMA TableStep ==
  ASSUME Table, Next
  PROVE  Table'
<1>1. CASE Open
  <2> DEFINE name == StringAt(a0)
  <2>1. /\ FDT_filename' = Append(FDT_filename, name) /\ FDT_state' = Append(FDT_state, 1)
        /\ FileDescriptorIndex' = FileDescriptorIndex + 1
    BY <1>1 DEF Open
  <2>2. PICK S : FDT_filename \in Seq(S)  BY DEF Table
  <2>3. FDT_filename \in Seq(S \cup {name})  BY <2>2, SeqMonotonic
  <2>4. FDT_filename' \in Seq(S \cup {name}) /\ Len(FDT_filename') = Len(FDT_filename) + 1
    BY <2>1, <2>3, AppendProperties
  <2>5. FDT_state' \in Seq({0, 1}) /\ Len(FDT_state') = Len(FDT_state) + 1
    BY <2>1, AppendProperties DEF Table
  <2> QED  BY <2>1, <2>4, <2>5 DEF Table
<1>2. CASE Read \/ Close
  <2>1. FDT_filename' = FDT_filename /\ FileDescriptorIndex' = FileDescriptorIndex
    BY <1>2 DEF Read, Close
  <2>2. FDT_state' = FDT_state \/ \E i : FDT_state' = [FDT_state EXCEPT ![i] = 0]
    BY <1>2 DEF Read, Close
  <2>3. ASSUME NEW i, FDT_state' = [FDT_state EXCEPT ![i] = 0]
        PROVE  FDT_state' \in Seq({0, 1}) /\ Len(FDT_state') = Len(FDT_state)
    <3>1. FDT_state \in Seq({0, 1})  BY DEF Table
    <3>2. CASE i \in 1 .. Len(FDT_state)  BY <2>3, <3>1, <3>2, ExceptSeq
    <3>3. CASE i \notin 1 .. Len(FDT_state)
      <4>1. DOMAIN FDT_state = 1 .. Len(FDT_state)  BY <3>1, LenProperties
      <4>2. FDT_state' = FDT_state  BY <2>3, <3>1, <3>3, <4>1
      <4> QED  BY <3>1, <4>2
    <3> QED  BY <3>2, <3>3
  <2> QED  BY <2>1, <2>2, <2>3 DEF Table
<1>3. CASE Next /\ ~Open /\ ~Read /\ ~Close
  <2>1. UNCHANGED table
    BY <1>3 DEF Next, SystemCall, Rise, Fall, NoCall, Prompt, Exit, Write, Stat, Uname, Forwarded,
       Unimplemented, table
  <2> QED  BY <2>1 DEF table, Table
<1> QED  BY <1>1, <1>2, <1>3

\* Only files that the host can create come into being.
LEMMA FilesStep ==
  ASSUME \A name \in DOMAIN files : Creatable(name), Next
  PROVE  \A name \in DOMAIN files' : Creatable(name)
<1>1. ASSUME NEW name, NEW had, NEW text, files' = Appending(name, had, text)
      PROVE  \A n \in DOMAIN files' : Creatable(n)
  BY <1>1 DEF Appending, WithFile
<1>2. CASE Open  BY <1>1, <1>2 DEF Open
<1>3. CASE Write
  <2>1. files' = files \/ \E name, had, text : files' = Appending(name, had, text)
    BY <1>3 DEF Write
  <2> QED  BY <1>1, <2>1
<1>4. CASE Next /\ ~Open /\ ~Write
  <2>1. files' = files
    BY <1>4 DEF Next, SystemCall, Rise, Fall, NoCall, Prompt, Exit, Read, Close, Stat, Uname,
       Forwarded, Unimplemented, outputs
  <2> QED  BY <2>1
<1> QED  BY <1>2, <1>3, <1>4

----------------------------------------------------------------------------
(* Stopping.                                                               *)

LEMMA CountedStep ==
  ASSUME Counted, Renamed, Next
  PROVE  Counted'
<1>1. CASE Fall  BY <1>1, CyclesAreCounted DEF Fall, Counted
<1>2. CASE Prompt  BY <1>2, CyclesAreCounted DEF Prompt, Counted
<1>3. CASE Rise \/ NoCall  BY <1>3 DEF Rise, NoCall, Counted
<1>4. CASE SystemCall  BY <1>4, CallStep, CyclesAreCounted DEF Counted
<1> QED  BY <1>1, <1>2, <1>3, <1>4 DEF Next

LEMMA StopsStep ==
  ASSUME SimInv, Next
  PROVE  StopsKept'
<1>1. Counted /\ Renamed /\ Counted'  BY CountedStep DEF SimInv
<1>2. CASE Fall
  <2>1. CASE stage' = "illegal"  BY <2>1 DEF StopsKept
  <2>2. CASE stage' # "illegal"
    <3>1. /\ CLOCK_COUNTER' = CLOCK_COUNTER + 1
          /\ duration' = IF StopsAt(CLOCK_COUNTER + 1) THEN CLOCK_COUNTER + 1 ELSE duration
          /\ UNCHANGED <<BREAKPOINT, nextInstructionAddr, RRAT, PReg>>
      BY <1>2, <2>2 DEF Fall, settings, processor
    <3>2. Stops' = StopsAt(CLOCK_COUNTER + 1)
      BY <3>1 DEF Stops, StopsAt, read_register, register_arch_to_phys
    <3> QED  BY <1>1, <3>1, <3>2, CyclesAreCounted DEF StopsKept, Counted
  <2> QED  BY <2>1, <2>2
<1>3. CASE Rise \/ Prompt  BY <1>3 DEF Rise, Prompt, StopsKept
<1>4. CASE NoCall
  <2>1. UNCHANGED <<CLOCK_COUNTER, duration, BREAKPOINT, nextInstructionAddr, RRAT, PReg>> /\ stage = "syscall"
    BY <1>4 DEF NoCall, settings, processor
  <2>2. Stops' = Stops  BY <2>1 DEF Stops, read_register, register_arch_to_phys
  <2> QED  BY <2>1, <2>2 DEF StopsKept, SimInv
<1>5. CASE SystemCall
  <2>1. /\ stage = "syscall" /\ CLOCK_COUNTER' = CLOCK_COUNTER
        /\ duration' \in {duration, CLOCK_COUNTER}
        /\ BREAKPOINT' = BREAKPOINT /\ nextInstructionAddr' = nextInstructionAddr
        /\ RRAT' = RRAT /\ PReg'[RRAT[28]] = PReg[RRAT[28]]
    BY <1>1, <1>5, CallStep
  <2>2. Stops' = Stops  BY <2>1 DEF Stops, read_register, register_arch_to_phys
  <2> QED  BY <1>1, <2>1, <2>2, CyclesAreCounted DEF StopsKept, SimInv, Counted
<1> QED  BY <1>2, <1>3, <1>4, <1>5 DEF Next

LEMMA SimStep ==
  ASSUME SimInv, Next
  PROVE  SimInv'
<1>1. Renamed' /\ Table' /\ Counted'  BY RenamedStep, TableStep, CountedStep DEF SimInv
<1>2. \A name \in DOMAIN files' : Creatable(name)  BY FilesStep DEF SimInv, TypeOK
<1>3. stage' \in {"rise", "fall", "syscall", "prompt"} \cup Ends
  <2>1. CASE SystemCall  BY <2>1, CallStep DEF SimInv
  <2>2. CASE Rise \/ Fall \/ NoCall \/ Prompt  BY <2>2 DEF Rise, Fall, NoCall, Prompt, Ends
  <2> QED  BY <2>1, <2>2 DEF Next
<1>4. TypeOK'  BY <1>1, <1>2, <1>3 DEF TypeOK, Renamed, Table, Counted
<1> QED  BY <1>1, <1>4, StopsStep DEF SimInv

LEMMA SimStarts == Init => SimInv
<1> SUFFICES ASSUME Init PROVE SimInv  OBVIOUS
<1>1. PICK argv \in CommandLines :
        /\ stage = IF readcommandline(argv).exits THEN "usage"
                   ELSE IF readcommandline(argv).FILE_ARG \in Loadable THEN "rise" ELSE "not loaded"
        /\ CLOCK_COUNTER = 0 /\ duration = readcommandline(argv).duration
        /\ RRAT = [r \in Architectural |-> r] /\ PReg = [p \in Physical |-> 0]
        /\ FDT_filename = Reserved /\ FDT_state = <<0, 0, 0>> /\ FileDescriptorIndex = 3
        /\ files = <<>>
  BY DEF Init, Physical
<1>2. Counted
  <2>1. readcommandline(argv).duration \in Int  BY DurationsAreNumbers
  <2>2. 0 \in 0 .. MAXCLOCK  BY CyclesAreCounted
  <2> QED  BY <1>1, <2>1, <2>2 DEF Counted
<1>3. Renamed  BY <1>1, RenamingsAreInjective, RenamingFacts DEF Renamed
<1>4. Table
  <2>1. FDT_filename \in Seq({<<-1>>, <<-2>>, <<-3>>}) /\ Len(FDT_filename) = 3
    <3>1. ASSUME NEW x, NEW y, NEW z
          PROVE  <<x, y, z>> \in Seq({x, y, z}) /\ Len(<<x, y, z>>) = 3
      OBVIOUS
    <3> QED  BY <1>1, <3>1 DEF Reserved
  <2>2. <<0, 0, 0>> \in Seq({0, 1}) /\ Len(<<0, 0, 0>>) = 3  OBVIOUS
  <2> QED  BY <1>1, <2>1, <2>2 DEF Table
<1>5. stage \notin {"syscall", "prompt"} /\ stage \in {"rise"} \cup Ends  BY <1>1 DEF Ends
<1>6. TypeOK
  <2>1. <<>> \in Seq({1}) /\ Len(<<>>) = 0  OBVIOUS
  <2>2. DOMAIN <<>> = 1 .. 0  BY <2>1, LenProperties
  <2>3. DOMAIN files = {}
    <3>1. DOMAIN files = DOMAIN <<>>  BY <1>1, Zenon
    <3>2. 1 .. 0 = {}  OBVIOUS
    <3> QED  BY <2>2, <3>1, <3>2, Zenon
  <2>4. stage \in {"rise", "fall", "syscall", "prompt"} \cup Ends  BY <1>5
  <2> QED  BY <1>2, <1>3, <1>4, <2>3, <2>4 DEF TypeOK, Counted, Renamed, Table
<1> QED  BY <1>2, <1>3, <1>4, <1>5, <1>6 DEF SimInv, StopsKept

LEMMA SimInvHolds == Spec => []SimInv
<1>1. SimInv /\ [Next]_vars => SimInv'
  <2> SUFFICES ASSUME SimInv, [Next]_vars PROVE SimInv'  OBVIOUS
  <2>1. CASE Next  BY <2>1, SimStep
  <2>2. CASE UNCHANGED vars
    <3>1. UNCHANGED <<stage, CLOCK_COUNTER, duration, BREAKPOINT, nextInstructionAddr, PReg, RRAT,
                      FDT_filename, FDT_state, FileDescriptorIndex, files>>
      BY <2>2 DEF vars, settings, processor, table, outputs
    <3>2. Stops' = Stops  BY <3>1 DEF Stops, read_register, register_arch_to_phys
    <3> QED  BY <3>1, <3>2 DEF SimInv, TypeOK, Renamed, Table, Counted, StopsKept
  <2> QED  BY <2>1, <2>2
<1> QED  BY <1>1, SimStarts, PTL DEF Spec

----------------------------------------------------------------------------
(* The properties.                                                         *)

\* The renaming stays injective, descriptors have names and states, and only
\* names the host can create a file of have files, whatever the program calls.
THEOREM TypeCorrect == Spec => []TypeOK
<1>1. SimInv => TypeOK  BY DEF SimInv
<1> QED  BY <1>1, SimInvHolds, PTL

\* No call, opening a file or an answer included, lets the program run past
\* its breakpoint, near address 0 or without a global pointer.
THEOREM NoStopMissedHolds == Spec => []NoStopMissed
<1>1. SimInv => NoStopMissed  BY DEF SimInv, StopsKept, Stops, NoStopMissed
<1> QED  BY <1>1, SimInvHolds, PTL

\* A run that stopped goes on only when a line that is not empty was typed.
THEOREM OnlyLinesResumeHolds == Spec => OnlyLinesResume
<1> DEFINE Resumes == CLOCK_COUNTER >= duration /\ CLOCK_COUNTER' < duration'
                        => stage = "prompt" /\ cin # <<>> /\ Head(cin) # <<>>
<1>1. SimInv /\ [Next]_vars => [Resumes]_vars
  <2> SUFFICES ASSUME SimInv, Next, CLOCK_COUNTER >= duration, CLOCK_COUNTER' < duration'
               PROVE  stage = "prompt" /\ cin # <<>> /\ Head(cin) # <<>>
    OBVIOUS
  <2>1. Counted /\ Renamed  BY DEF SimInv
  <2>2. CASE SystemCall  BY <2>1, <2>2, CallStep, CyclesAreCounted DEF Counted
  <2>3. CASE Fall  BY <2>1, <2>3, CyclesAreCounted DEF Fall, Counted
  <2>4. CASE Rise \/ NoCall  BY <2>1, <2>4, CyclesAreCounted DEF Rise, NoCall, Counted
  <2>5. CASE Prompt  BY <2>1, <2>5, CyclesAreCounted DEF Prompt, Continues, Counted
  <2> QED  BY <2>2, <2>3, <2>4, <2>5 DEF Next
<1> QED  BY <1>1, SimInvHolds, PTL DEF Spec, OnlyLinesResume

----------------------------------------------------------------------------
(* Text without line ends.                                                 *)

\* An induction up to a bound, by the least number without the property.
LEMMA UpTo ==
  ASSUME NEW n \in Nat, NEW S, 0 \in S, \A i \in 0 .. n - 1 : i \in S => i + 1 \in S
  PROVE  0 .. n \subseteq S
<1> DEFINE Bad == (0 .. n) \ S
<1> SUFFICES ASSUME Bad # {} PROVE FALSE  OBVIOUS
<1>1. Bad \subseteq Nat  OBVIOUS
<1> HIDE DEF Bad
<1>2. PICK m \in Bad : \A k \in Bad : m <= k
  <2>1. PICK m \in Bad : \A k \in Bad : ~(<<k, m>> \in OpToRel(<, Nat))
    BY <1>1, WFMin, NatLessThanWellFounded
  <2>2. ASSUME NEW k \in Bad PROVE m <= k
    <3>1. ~(k < m)  BY <1>1, <2>1 DEF OpToRel
    <3> QED  BY <1>1, <3>1
  <2> QED  BY <2>2
<1> USE DEF Bad
<1>3. m \in 0 .. n /\ m \notin S /\ m # 0  BY <1>2
<1>4. m - 1 \in 0 .. n - 1 /\ m - 1 \in S
  <2>1. m - 1 \in 0 .. n - 1  BY <1>3
  <2>2. m - 1 \notin Bad  BY <1>2, <1>3
  <2> QED  BY <2>1, <2>2
<1> QED  BY <1>3, <1>4

\* A step of the loop over a text that leaves its line ends out.
Keep(kept, text, i) ==
  IF i = 0 THEN <<>>
  ELSE IF text[i] = NEWLINE THEN kept[i - 1] ELSE Append(kept[i - 1], text[i])

IsKept(kept, text, n) == kept = [i \in 0 .. n |-> Keep(kept, text, i)]

Kept(text) == (CHOOSE kept : IsKept(kept, text, Len(text)))[Len(text)]

LEMMA LoopIsDefined ==
  ASSUME NEW text, NEW n \in Nat
  PROVE  \E kept : IsKept(kept, text, n)
<1> DEFINE Defined == {m \in 0 .. n : \E k : IsKept(k, text, m)}
<1>1. 0 \in Defined
  <2> DEFINE k == [i \in 0 .. 0 |-> <<>>]
  <2>1. IsKept(k, text, 0)  BY DEF IsKept, Keep
  <2> QED  BY <2>1
<1>2. ASSUME NEW m \in 0 .. n - 1, m \in Defined
      PROVE  m + 1 \in Defined
  <2>1. PICK k : IsKept(k, text, m)  BY <1>2
  <2> DEFINE longer == [i \in 0 .. m + 1 |-> IF i = m + 1 THEN Keep(k, text, m + 1) ELSE k[i]]
  <2>2. ASSUME NEW i \in 0 .. m + 1 PROVE longer[i] = Keep(longer, text, i)
    <3>1. i # 0 => longer[i - 1] = k[i - 1]  OBVIOUS
    <3>2. Keep(longer, text, i) = Keep(k, text, i)
      <4> HIDE DEF longer
      <4> QED  BY <3>1 DEF Keep
    <3>3. i # m + 1 => k[i] = Keep(k, text, i)
      <4>1. i # m + 1 => i \in 0 .. m  OBVIOUS
      <4> QED  BY <2>1, <4>1, Zenon DEF IsKept
    <3>4. longer[i] = IF i = m + 1 THEN Keep(k, text, m + 1) ELSE k[i]  OBVIOUS
    <3> HIDE DEF longer
    <3> QED  BY <3>2, <3>3, <3>4
  <2>3. longer = [i \in 0 .. m + 1 |-> longer[i]]  OBVIOUS
  <2> HIDE DEF longer
  <2>4. IsKept(longer, text, m + 1)  BY <2>2, <2>3, Zenon DEF IsKept
  <2>5. m + 1 \in 0 .. n  OBVIOUS
  <2> QED  BY <2>4, <2>5
<1>3. 0 .. n \subseteq Defined
  <2> HIDE DEF Defined
  <2> QED  BY <1>1, <1>2, UpTo
<1> QED  BY <1>3

\* Both descriptions run this loop.
LEMMA BothKeep ==
  /\ \A name : FileInput(name) = Kept(files[name])
  /\ \A text : Promise!NoNewlines(text) = Kept(text)
<1>1. ASSUME NEW name PROVE FileInput(name) = Kept(files[name])
  BY Zenon DEF FileInput, Kept, IsKept, Keep
<1>2. ASSUME NEW text PROVE Promise!NoNewlines(text) = Kept(text)
  <2>1. \A kept, i :
          (IF text[i] # NEWLINE THEN Append(kept[i - 1], text[i]) ELSE kept[i - 1])
            = (IF text[i] = NEWLINE THEN kept[i - 1] ELSE Append(kept[i - 1], text[i]))
    BY Zenon
  <2> QED  BY <2>1, Zenon DEF Promise!NoNewlines, Kept, IsKept, Keep
<1> QED  BY <1>1, <1>2

LEMMA KeptRuns ==
  ASSUME NEW text, Len(text) \in Nat
  PROVE  \E kept : /\ Kept(text) = kept[Len(text)]
                  /\ \A i \in 0 .. Len(text) : kept[i] = Keep(kept, text, i)
<1> DEFINE kept == CHOOSE k : IsKept(k, text, Len(text))
<1>1. IsKept(kept, text, Len(text))  BY LoopIsDefined
<1>2. Kept(text) = kept[Len(text)]  BY DEF Kept
<1> HIDE DEF kept
<1> QED  BY <1>1, <1>2, Zenon DEF IsKept

\* What is kept is text without line ends.
LEMMA KeptIsText ==
  ASSUME NEW S, NEW text \in Seq(S)
  PROVE  Kept(text) \in Seq(S \ {NEWLINE})
<1>1. Len(text) \in Nat /\ \A i \in 1 .. Len(text) : text[i] \in S  OBVIOUS
<1> DEFINE n == Len(text)
           T == S \ {NEWLINE}
<1>2. PICK kept : /\ Kept(text) = kept[n]
                  /\ \A i \in 0 .. n : kept[i] = Keep(kept, text, i)
  BY <1>1, KeptRuns
<1> DEFINE Clean == {m \in 0 .. n : kept[m] \in Seq(T)}
<1>3. n \in Nat /\ \A i \in 1 .. n : text[i] # NEWLINE => text[i] \in T  BY <1>1
<1> HIDE DEF n, T
<1>4. 0 \in Clean
  <2>1. 0 \in 0 .. n /\ kept[0] = <<>>  BY <1>2, <1>3 DEF Keep
  <2> QED  BY <2>1, EmptySeq
<1>5. ASSUME NEW m \in 0 .. n - 1, m \in Clean
      PROVE  m + 1 \in Clean
  <2>1. m + 1 \in 0 .. n /\ m + 1 \in 1 .. n /\ m + 1 # 0 /\ (m + 1) - 1 = m  BY <1>3
  <2>2. kept[m + 1] = Keep(kept, text, m + 1)  BY <1>2, <2>1
  <2>3. kept[m + 1] = IF text[m + 1] = NEWLINE THEN kept[m] ELSE Append(kept[m], text[m + 1])
    BY <2>1, <2>2 DEF Keep
  <2>4. kept[m] \in Seq(T)  BY <1>5
  <2>5. text[m + 1] # NEWLINE => Append(kept[m], text[m + 1]) \in Seq(T)
    BY <1>3, <2>1, <2>4, AppendProperties
  <2>6. kept[m + 1] \in Seq(T)  BY <2>3, <2>4, <2>5
  <2> QED  BY <2>1, <2>6
<1>6. 0 .. n \subseteq Clean
  <2> HIDE DEF Clean
  <2> QED  BY <1>3, <1>4, <1>5, UpTo
<1>7. n \in Clean  BY <1>3, <1>6
<1> QED  BY <1>2, <1>7 DEF T

\* Text without line ends is what is kept of it with line ends put in, at(i)
\* characters of it being among the first i.
LEMMA LineEndsAreLeftOut ==
  ASSUME NEW S, NEW clean \in Seq(S \ {NEWLINE}), NEW text, Len(text) \in Nat,
         NEW at \in [0 .. Len(text) -> 0 .. Len(clean)], at[0] = 0, at[Len(text)] = Len(clean),
         \A i \in 1 .. Len(text) :
           \/ text[i] = NEWLINE /\ at[i] = at[i - 1]
           \/ at[i] = at[i - 1] + 1 /\ text[i] = clean[at[i]]
  PROVE  Kept(text) = clean
<1> DEFINE n == Len(text)
           T == S \ {NEWLINE}
<1>1. PICK kept : /\ Kept(text) = kept[n]
                  /\ \A i \in 0 .. n : kept[i] = Keep(kept, text, i)
  BY KeptRuns
<1>2. clean \in Seq(T) /\ Len(clean) \in Nat /\ NEWLINE \notin T  OBVIOUS
<1> DEFINE Same == {m \in 0 .. n : /\ kept[m] \in Seq(T) /\ Len(kept[m]) = at[m]
                                   /\ \A j \in 1 .. at[m] : kept[m][j] = clean[j]}
<1>3. /\ n \in Nat /\ at \in [0 .. n -> 0 .. Len(clean)] /\ at[0] = 0 /\ at[n] = Len(clean)
      /\ \A i \in 1 .. n : \/ text[i] = NEWLINE /\ at[i] = at[i - 1]
                           \/ at[i] = at[i - 1] + 1 /\ text[i] = clean[at[i]]
  OBVIOUS
<1> HIDE DEF n, T
<1>4. 0 \in Same
  <2>1. 0 \in 0 .. n /\ kept[0] = <<>>  BY <1>1, <1>3 DEF Keep
  <2>2. kept[0] \in Seq(T) /\ Len(kept[0]) = 0  BY <2>1, EmptySeq
  <2>3. 1 .. at[0] = {}  BY <1>3
  <2> QED  BY <1>3, <2>1, <2>2, <2>3
<1>5. ASSUME NEW m \in 0 .. n - 1, m \in Same
      PROVE  m + 1 \in Same
  <2>1. m + 1 \in 0 .. n /\ m + 1 \in 1 .. n /\ m + 1 # 0 /\ (m + 1) - 1 = m /\ m \in 0 .. n  BY <1>3
  <2>2. kept[m + 1] = Keep(kept, text, m + 1)  BY <1>1, <2>1
  <2>3. kept[m + 1] = IF text[m + 1] = NEWLINE THEN kept[m] ELSE Append(kept[m], text[m + 1])
    BY <2>1, <2>2 DEF Keep
  <2>4. /\ kept[m] \in Seq(T) /\ Len(kept[m]) = at[m]
        /\ \A j \in 1 .. at[m] : kept[m][j] = clean[j]
    BY <1>5
  <2>5. at[m] \in 0 .. Len(clean) /\ at[m + 1] \in 0 .. Len(clean)  BY <1>3, <2>1
  <2>6. \/ text[m + 1] = NEWLINE /\ at[m + 1] = at[m]
        \/ at[m + 1] = at[m] + 1 /\ text[m + 1] = clean[at[m + 1]]
    BY <1>3, <2>1
  <2>7. CASE text[m + 1] = NEWLINE /\ at[m + 1] = at[m]  BY <2>1, <2>3, <2>4, <2>7
  <2>8. CASE at[m + 1] = at[m] + 1 /\ text[m + 1] = clean[at[m + 1]]
    <3>1. at[m + 1] \in 1 .. Len(clean)  BY <1>2, <2>5, <2>8
    <3>2. text[m + 1] \in T  BY <1>2, <2>8, <3>1, ElementOfSeq
    <3>3. kept[m + 1] = Append(kept[m], text[m + 1])  BY <1>2, <2>3, <3>2
    <3>4. /\ Append(kept[m], text[m + 1]) \in Seq(T)
          /\ Len(Append(kept[m], text[m + 1])) = Len(kept[m]) + 1
          /\ \A i \in 1 .. Len(kept[m]) : Append(kept[m], text[m + 1])[i] = kept[m][i]
          /\ Append(kept[m], text[m + 1])[Len(kept[m]) + 1] = text[m + 1]
      BY <2>4, <3>2, AppendProperties
    <3>5. /\ kept[m + 1] \in Seq(T) /\ Len(kept[m + 1]) = at[m + 1]
          /\ \A i \in 1 .. at[m] : kept[m + 1][i] = clean[i]
          /\ kept[m + 1][at[m + 1]] = clean[at[m + 1]]
      BY <2>4, <2>8, <3>3, <3>4
    <3>6. \A i \in 1 .. at[m + 1] : kept[m + 1][i] = clean[i]
      <4> SUFFICES ASSUME NEW i \in 1 .. at[m + 1] PROVE kept[m + 1][i] = clean[i]  OBVIOUS
      <4>1. i \in 1 .. at[m] \/ i = at[m + 1]  BY <2>5, <2>8
      <4> QED  BY <3>5, <4>1
    <3> QED  BY <2>1, <3>5, <3>6
  <2> QED  BY <2>6, <2>7, <2>8
<1>6. 0 .. n \subseteq Same
  <2> HIDE DEF Same
  <2> QED  BY <1>3, <1>4, <1>5, UpTo
<1>7. n \in Same  BY <1>3, <1>6
<1>8. kept[n] \in Seq(T) /\ Len(kept[n]) = Len(clean) /\ \A j \in 1 .. Len(clean) : kept[n][j] = clean[j]
  BY <1>3, <1>7
<1>9. kept[n] = clean  BY <1>2, <1>8, SeqEqual
<1> QED  BY <1>1, <1>9

\* A line end put into a text.
LEMMA WithNewlineFacts ==
  ASSUME NEW S, NEW input \in Seq(S)
  PROVE  /\ WithNewline(input) \in Seq(S \cup {NEWLINE})
         /\ \/ WithNewline(input) = input
            \/ \E k \in 1 .. Len(input) :
                 /\ Len(WithNewline(input)) = Len(input) + 1
                 /\ \A i \in 1 .. Len(input) + 1 :
                      WithNewline(input)[i] =
                        IF i < k THEN input[i] ELSE IF i = k THEN NEWLINE ELSE input[i - 1]
<1> DEFINE T == S \cup {NEWLINE}
           k == READLIMIT + 1
<1>1. input \in Seq(T) /\ Len(input) \in Nat /\ NEWLINE \in T  BY SeqMonotonic
<1>2. \A i \in 1 .. Len(input) : input[i] \in T  BY <1>1, ElementOfSeq
<1> HIDE DEF T
<1>3. CASE ~(Len(input) > READLIMIT)  BY <1>1, <1>3 DEF WithNewline, T
<1>4. CASE Len(input) > READLIMIT
  <2>1. k \in 1 .. Len(input)  BY <1>1, <1>4, WordsAreNumbers
  <2> HIDE DEF k
  <2> DEFINE left == SubSeq(input, 1, k - 1)
             right == SubSeq(input, k, Len(input))
  <2>2. WithNewline(input) = left \o <<NEWLINE>> \o right
    BY <1>4 DEF WithNewline, InsertAt, k
  <2>3. k \in Int /\ Len(input) \in Int /\ 1 \in Int /\ k - 1 \in Int  BY <1>1, <2>1
  <2>4. /\ left \in Seq(T) /\ Len(left) = k - 1 /\ \A i \in 1 .. k - 1 : left[i] = input[i]
    <3>1. \A i \in 1 .. k - 1 : input[i] \in T  BY <1>1, <1>2, <2>1
    <3>2. /\ SubSeq(input, 1, k - 1) \in Seq(T)
          /\ Len(SubSeq(input, 1, k - 1)) = IF 1 <= k - 1 THEN (k - 1) - 1 + 1 ELSE 0
          /\ \A i \in 1 .. (k - 1) - 1 + 1 : SubSeq(input, 1, k - 1)[i] = input[1 + i - 1]
      BY <2>3, <3>1, SubSeqProperties
    <3> QED  BY <2>1, <3>2
  <2>5. /\ right \in Seq(T) /\ Len(right) = Len(input) - k + 1
        /\ \A i \in 1 .. Len(input) - k + 1 : right[i] = input[k + i - 1]
    <3>1. \A i \in k .. Len(input) : input[i] \in T  BY <1>1, <1>2, <2>1
    <3>2. /\ SubSeq(input, k, Len(input)) \in Seq(T)
          /\ Len(SubSeq(input, k, Len(input))) = IF k <= Len(input) THEN Len(input) - k + 1 ELSE 0
          /\ \A i \in 1 .. Len(input) - k + 1 : SubSeq(input, k, Len(input))[i] = input[k + i - 1]
      BY <2>3, <3>1, SubSeqProperties
    <3> QED  BY <1>1, <2>1, <3>2
  <2> HIDE DEF left, right
  <2>6. <<NEWLINE>> \in Seq(T) /\ Len(<<NEWLINE>>) = 1 /\ <<NEWLINE>>[1] = NEWLINE  BY <1>1
  <2> DEFINE front == left \o <<NEWLINE>>
  <2>7. /\ front \in Seq(T) /\ Len(front) = k
        /\ \A i \in 1 .. k : front[i] = IF i < k THEN input[i] ELSE NEWLINE
    <3>1. /\ left \o <<NEWLINE>> \in Seq(T)
          /\ Len(left \o <<NEWLINE>>) = Len(left) + Len(<<NEWLINE>>)
          /\ \A i \in 1 .. Len(left) + Len(<<NEWLINE>>) :
               (left \o <<NEWLINE>>)[i] = IF i <= Len(left) THEN left[i] ELSE <<NEWLINE>>[i - Len(left)]
      BY <2>4, <2>6, ConcatProperties
    <3>2. Len(left) + Len(<<NEWLINE>>) = k  BY <2>1, <2>4, <2>6
    <3> QED  BY <2>1, <2>4, <2>6, <3>1, <3>2
  <2> HIDE DEF front
  <2>8. /\ front \o right \in Seq(T) /\ Len(front \o right) = Len(front) + Len(right)
        /\ \A i \in 1 .. Len(front) + Len(right) :
             (front \o right)[i] = IF i <= Len(front) THEN front[i] ELSE right[i - Len(front)]
    BY <2>5, <2>7, ConcatProperties
  <2>9. WithNewline(input) = front \o right  BY <2>2 DEF front
  <2>10. Len(front) + Len(right) = Len(input) + 1  BY <1>1, <2>1, <2>5, <2>7
  <2>11. ASSUME NEW i \in 1 .. Len(input) + 1
         PROVE  (front \o right)[i] = IF i < k THEN input[i] ELSE IF i = k THEN NEWLINE ELSE input[i - 1]
    <3>1. (front \o right)[i] = IF i <= k THEN front[i] ELSE right[i - k]  BY <2>7, <2>8, <2>10
    <3>2. i > k => i - k \in 1 .. Len(input) - k + 1 /\ k + (i - k) - 1 = i - 1  BY <1>1, <2>1
    <3>3. i > k => right[i - k] = input[i - 1]  BY <2>5, <3>2
    <3> QED  BY <1>1, <2>1, <2>7, <3>1, <3>3
  <2> QED  BY <2>1, <2>8, <2>9, <2>10, <2>11 DEF T
<1> QED  BY <1>3, <1>4

----------------------------------------------------------------------------
(* What the files, the terminal and the registers hold.                    *)

IsText(s) == \E S : s \in Seq(S)

Words == PReg \in [Physical -> Nat]

Texts == cin \in Seq(Seq(Seq(Int))) /\ \A name \in DOMAIN files : IsText(files[name])

\* A call that was raised is not changed until it is answered.
Asked == stage \in {"fall", "syscall"} /\ SYS = 1 => IsCall(read_register(2), a0, a1)

\* The terminal is not a file that was opened.
Terminal == Len(FDT_state) >= 3 /\ FDT_state[1] = 0

FileInv == SimInv /\ Words /\ Texts /\ Asked /\ Terminal

LEMMA Least ==
  ASSUME NEW S, S \subseteq Nat, S # {}
  PROVE  Min(S) \in S /\ \A i \in S : Min(S) <= i
<1>1. PICK m \in S : \A k \in S : ~(<<k, m>> \in OpToRel(<, Nat))
  BY WFMin, NatLessThanWellFounded
<1>2. ASSUME NEW k \in S PROVE m <= k
  <2>1. ~(k < m)  BY <1>1 DEF OpToRel
  <2> QED  BY <2>1
<1> QED  BY <1>2, Zenon DEF Min

\* What is taken from the terminal is a word, and lines are left.
LEMMA TypedFacts ==
  ASSUME cin \in Seq(Seq(Seq(Int)))
  PROVE  TypedWord \in Seq(Int) /\ TypedRest \in Seq(Seq(Seq(Int)))
<1> DEFINE Line == Seq(Seq(Int))
           I == {i \in 1 .. Len(cin) : cin[i] # <<>>}
<1>1. Typed = IF I # {} THEN Min(I) ELSE 0  BY DEF Typed, SelectInSeq
<1>2. Len(cin) \in Nat /\ \A i \in 1 .. Len(cin) : cin[i] \in Line  OBVIOUS
<1>3. CASE I = {}
  <2>1. Typed = 0  BY <1>1, <1>3
  <2>2. <<>> \in Seq(Int) /\ <<>> \in Seq(Line)  BY EmptySeq
  <2> QED  BY <2>1, <2>2 DEF TypedWord, TypedRest
<1>4. CASE I # {}
  <2>1. I \subseteq Nat  BY <1>2
  <2>2. Min(I) \in I
    <3> HIDE DEF I
    <3> QED  BY <1>4, <2>1, Least
  <2>3. Typed \in 1 .. Len(cin) /\ cin[Typed] # <<>>  BY <1>1, <1>4, <2>2
  <2>4. cin[Typed] \in Seq(Seq(Int)) /\ Typed # 0  BY <1>2, <2>3
  <2>5. Head(cin[Typed]) \in Seq(Int) /\ Tail(cin[Typed]) \in Seq(Seq(Int))
    BY <2>3, <2>4, HeadTailProperties
  <2>6. <<Tail(cin[Typed])>> \in Seq(Line)  BY <2>5
  <2>7. SubSeq(cin, Typed + 1, Len(cin)) \in Seq(Line)
    <3>1. Typed + 1 \in Int /\ Len(cin) \in Int  BY <1>2, <2>3
    <3>2. \A i \in Typed + 1 .. Len(cin) : cin[i] \in Line  BY <1>2, <2>3
    <3> HIDE DEF Line
    <3> QED  BY <3>1, <3>2, SubSeqProperties
  <2>8. <<Tail(cin[Typed])>> \o SubSeq(cin, Typed + 1, Len(cin)) \in Seq(Line)
    <3> HIDE DEF Line
    <3> QED  BY <2>6, <2>7, ConcatProperties
  <2> QED  BY <2>4, <2>5, <2>8 DEF TypedWord, TypedRest
<1> QED  BY <1>3, <1>4

LEMMA InputIsText ==
  ASSUME Texts, NEW d, ~IsMissing(d)
  PROVE  IsText(Input(d)) /\ Len(Input(d)) \in Nat
<1> SUFFICES IsText(Input(d))  BY DEF IsText
<1> DEFINE input == IF d = 0 THEN TypedWord ELSE FileInput(FDT_filename[d + 1])
<1>1. \E S : input \in Seq(S)
  <2>1. CASE d = 0  BY <2>1, TypedFacts DEF Texts
  <2>2. CASE d # 0
    <3>1. IsText(files[FDT_filename[d + 1]])  BY <2>2 DEF Texts, IsMissing
    <3>2. PICK S : files[FDT_filename[d + 1]] \in Seq(S)  BY <3>1 DEF IsText
    <3>3. Kept(files[FDT_filename[d + 1]]) \in Seq(S \ {NEWLINE})  BY <3>2, KeptIsText
    <3>4. input = Kept(files[FDT_filename[d + 1]])  BY <2>2, BothKeep
    <3> QED  BY <3>3, <3>4
  <2> QED  BY <2>1, <2>2
<1>2. Input(d) = WithNewline(input)  BY DEF Input
<1> HIDE DEF input
<1>3. PICK S : input \in Seq(S)  BY <1>1
<1>4. WithNewline(input) \in Seq(S \cup {NEWLINE})  BY <1>3, WithNewlineFacts
<1> QED  BY <1>2, <1>4 DEF IsText

\* A string that ends is text.
LEMMA StringIsText ==
  ASSUME NEW k \in Int, \E i \in Addresses : i >= k /\ MAIN_MEMORY[i] = NUL
  PROVE  IsText(StringAt(k)) /\ Len(StringAt(k)) \in Nat
<1> DEFINE E == {i \in Addresses : i >= k /\ MAIN_MEMORY[i] = NUL}
           end == Min(E)
<1>1. E \subseteq Nat /\ E # {}  BY WordsAreNumbers
<1>2. end \in E
  <2> HIDE DEF E
  <2> QED  BY <1>1, Least
<1>3. end - k \in Nat  BY <1>1, <1>2
<1>4. StringAt(k) = [i \in 1 .. end - k |-> MAIN_MEMORY[k + i - 1]]  BY DEF StringAt
<1> DEFINE S == {MAIN_MEMORY[k + i - 1] : i \in 1 .. end - k}
           n == end - k
<1>5. \A i \in 1 .. n : MAIN_MEMORY[k + i - 1] \in S  OBVIOUS
<1> HIDE DEF S
<1>6. [i \in 1 .. n |-> MAIN_MEMORY[k + i - 1]] \in Seq(S)
  <2> HIDE DEF n
  <2> QED  BY <1>3, <1>5 DEF n
<1>7. StringAt(k) \in Seq(S)  BY <1>4, <1>6
<1> QED  BY <1>7 DEF IsText

LEMMA Arguments ==
  ASSUME Words, Renamed
  PROVE  /\ a0 \in Nat /\ a1 \in Nat /\ a2 \in Nat /\ read_register(2) \in Nat
         /\ a0 = PReg[RRAT[4]] /\ a1 = PReg[RRAT[5]] /\ a2 = PReg[RRAT[6]]
         /\ read_register(2) = PReg[RRAT[2]]
<1>1. RRAT[2] \in Physical /\ RRAT[4] \in Physical /\ RRAT[5] \in Physical /\ RRAT[6] \in Physical
  BY DEF Renamed, Architectural
<1> QED  BY <1>1 DEF Words, a0, a1, a2, read_register, register_arch_to_phys

\* What is printed is a string, or its beginning when there is a length.
LEMMA PrintedFacts ==
  ASSUME Words, Renamed, \E i \in Addresses : i >= a1 /\ MAIN_MEMORY[i] = NUL
  PROVE  /\ IsText(Printed)
         /\ Len(Printed) = IF a2 \in 1 .. Len(StringAt(a1)) THEN a2 ELSE Len(StringAt(a1))
         /\ Len(Printed) \in 0 .. Len(StringAt(a1))
         /\ \A i \in 1 .. Len(Printed) : Printed[i] = StringAt(a1)[i]
<1>1. a1 \in Nat /\ a2 \in Nat  BY Arguments
<1>2. IsText(StringAt(a1)) /\ Len(StringAt(a1)) \in Nat  BY <1>1, StringIsText
<1>3. PICK S : StringAt(a1) \in Seq(S)  BY <1>2 DEF IsText
<1>4. CASE a2 = 0
  <2>1. Printed = StringAt(a1)  BY <1>4 DEF Printed
  <2> QED  BY <1>2, <1>4, <2>1
<1>5. CASE a2 # 0
  <2> DEFINE string == StringAt(a1)
             n == Min({a2, Len(string)})
  <2> HIDE DEF string
  <2>1. n = IF a2 <= Len(string) THEN a2 ELSE Len(string)
    <3>1. n \in {a2, Len(string)} /\ n <= a2 /\ n <= Len(string)
      <4>1. {a2, Len(string)} \subseteq Nat /\ {a2, Len(string)} # {}  BY <1>1, <1>2 DEF string
      <4> QED  BY <4>1, Least
    <3> QED  BY <1>1, <1>2, <3>1 DEF string
  <2>2. n \in 0 .. Len(string) /\ Len(string) \in Nat  BY <1>1, <1>2, <2>1 DEF string
  <2>3. Printed = SubSeq(string, 1, n)  BY <1>5 DEF Printed, string
  <2> HIDE DEF n
  <2>4. \A i \in 1 .. n : string[i] \in S  BY <1>3, <2>2, ElementOfSeq DEF string
  <2>5. 1 \in Int /\ n \in Int  BY <2>2
  <2>6. /\ SubSeq(string, 1, n) \in Seq(S)
        /\ Len(SubSeq(string, 1, n)) = IF 1 <= n THEN n - 1 + 1 ELSE 0
        /\ \A i \in 1 .. n - 1 + 1 : SubSeq(string, 1, n)[i] = string[1 + i - 1]
    BY <2>4, <2>5, SubSeqProperties
  <2>7. Printed \in Seq(S) /\ Len(Printed) = n /\ \A i \in 1 .. n : Printed[i] = string[i]
    BY <2>2, <2>3, <2>6
  <2> QED  BY <1>1, <1>5, <2>1, <2>2, <2>7 DEF IsText, string
<1> QED  BY <1>4, <1>5

----------------------------------------------------------------------------
(* The invariant.                                                          *)

\* What there is to read, from the state alone.
InputOf(d, lines, directory, names) ==
  LET I == {i \in 1 .. Len(lines) : lines[i] # <<>>}
      typed == IF I = {} THEN <<>> ELSE Head(lines[Min(I)])
  IN  WithNewline(IF d = 0 THEN typed ELSE Kept(directory[names[d + 1]]))

LEMMA InputIsOf ==
  \A d : cin \in Seq(Seq(Seq(Int))) => Input(d) = InputOf(d, cin, files, FDT_filename)
<1> SUFFICES ASSUME NEW d, cin \in Seq(Seq(Seq(Int))) PROVE Input(d) = InputOf(d, cin, files, FDT_filename)
  OBVIOUS
<1> DEFINE I == {i \in 1 .. Len(cin) : cin[i] # <<>>}
           word == IF I = {} THEN <<>> ELSE Head(cin[Min(I)])
<1>1. Typed = IF I # {} THEN Min(I) ELSE 0  BY DEF Typed, SelectInSeq
<1>2. I # {} => Min(I) # 0
  <2>1. I \subseteq Nat /\ 0 \notin I  OBVIOUS
  <2> HIDE DEF I
  <2> QED  BY <2>1, Least
<1>3. TypedWord = word  BY <1>1, <1>2 DEF TypedWord
<1>4. InputOf(d, cin, files, FDT_filename)
        = WithNewline(IF d = 0 THEN word ELSE Kept(files[FDT_filename[d + 1]]))
  BY DEF InputOf
<1> HIDE DEF word
<1>5. FileInput(FDT_filename[d + 1]) = Kept(files[FDT_filename[d + 1]])  BY BothKeep
<1> QED  BY <1>3, <1>4, <1>5, Zenon DEF Input

LEMMA InputIsOfNext ==
  (\A d : cin \in Seq(Seq(Seq(Int))) => Input(d) = InputOf(d, cin, files, FDT_filename))'
BY InputIsOf, PTL

LEMMA InputUnchanged ==
  ASSUME cin \in Seq(Seq(Seq(Int))), UNCHANGED <<cin, files, FDT_filename>>
  PROVE  \A d : Input(d)' = Input(d)
<1>1. ASSUME NEW d PROVE Input(d)' = InputOf(d, cin', files', FDT_filename')
  BY InputIsOfNext
<1> QED  BY <1>1, InputIsOf

\* The registers of a cycle are the program's after it.
LEMMA CycleRegisters ==
  ASSUME Renamed, NEW cycle \in Cycles, RRAT' = cycle.RRAT,
         PReg' = [p \in DOMAIN PReg |->
                    IF \E r \in Architectural : RRAT'[r] = p
                    THEN cycle.Reg[CHOOSE r \in Architectural : RRAT'[r] = p] ELSE PReg[p]]
  PROVE  \A r \in Architectural : PReg'[RRAT'[r]] = cycle.Reg[r]
<1> SUFFICES ASSUME NEW r \in Architectural PROVE PReg'[RRAT'[r]] = cycle.Reg[r]  OBVIOUS
<1>1. RRAT' \in Renamings  BY CyclesAreRenamed
<1>2. RRAT'[r] \in Physical /\ \A i, j \in Architectural : RRAT'[i] = RRAT'[j] => i = j
  BY <1>1, RenamingFacts
<1>3. (CHOOSE s \in Architectural : RRAT'[s] = RRAT'[r]) = r
  <2> DEFINE s == CHOOSE s \in Architectural : RRAT'[s] = RRAT'[r]
  <2>1. s \in Architectural /\ RRAT'[s] = RRAT'[r]  OBVIOUS
  <2> HIDE DEF s
  <2> QED  BY <1>2, <2>1
<1>4. RRAT'[r] \in DOMAIN PReg  BY <1>2 DEF Renamed
<1>5. PReg'[RRAT'[r]] = cycle.Reg[CHOOSE s \in Architectural : RRAT'[s] = RRAT'[r]]
  BY <1>4
<1> QED  BY <1>3, <1>5

\* A word is written to a register.
LEMMA WriteIsWord ==
  ASSUME Words, Renamed, NEW value \in Nat, PReg' = write_register(2, value) \/ PReg' = Shifted(value)
  PROVE  Words' /\ PReg'[RRAT[2]] = value
<1>1. RRAT[2] \in Physical /\ RRAT[4] \in Physical /\ RRAT[5] \in Physical /\ RRAT[6] \in Physical
  BY DEF Renamed, Architectural
<1>2. read_register(5) \in Nat /\ read_register(6) \in Nat
  BY <1>1 DEF Words, read_register, register_arch_to_phys
<1>3. PReg \in [Physical -> Nat]  BY DEF Words
<1>4. CASE PReg' = write_register(2, value)
  BY <1>1, <1>3, <1>4 DEF Words, write_register, register_arch_to_phys
<1>5. CASE PReg' = Shifted(value)
  <2> DEFINE f == [PReg EXCEPT ![RRAT[4]] = read_register(5)]
             g == [f EXCEPT ![RRAT[5]] = read_register(6)]
             h == [g EXCEPT ![RRAT[2]] = value]
  <2>1. f \in [Physical -> Nat]  BY <1>1, <1>2, <1>3
  <2> HIDE DEF f
  <2>2. g \in [Physical -> Nat]  BY <1>1, <1>2, <2>1
  <2> HIDE DEF g
  <2>3. h \in [Physical -> Nat] /\ h[RRAT[2]] = value  BY <1>1, <2>2
  <2>4. PReg' = h  BY <1>5, Zenon DEF Shifted, f, g
  <2> QED  BY <2>3, <2>4 DEF Words
<1> QED  BY <1>4, <1>5

\* The step of a call in general.
LEMMA AnswerStep ==
  ASSUME SimInv, Words, Texts, Asked, Terminal, SystemCall
  PROVE  /\ Words' /\ stage' \notin {"fall", "syscall"}
         /\ UNCHANGED <<SYS, RRAT>>
<1>1. stage = "syscall" /\ Renamed /\ Table  BY CallStep DEF SimInv
<1>2. /\ a0 \in Nat /\ a1 \in Nat /\ a2 \in Nat /\ read_register(2) \in Nat
  BY <1>1, Arguments DEF SimInv
<1>3. stage' \notin {"fall", "syscall"}  BY <1>1, CallStep DEF Ends
<1>4. CASE Exit \/ Unimplemented
  BY <1>3, <1>4 DEF Exit, Unimplemented, processor, Words
<1>5. CASE Read
  <2>1. UNCHANGED <<SYS, RRAT>>  BY <1>5 DEF Read, processor
  <2>2. \/ PReg' = PReg
        \/ ~IsMissing(a0) /\ \E v \in {0, Len(Input(a0)) + 1} : PReg' = write_register(2, v)
    <3>1. IF IsMissing(a0) THEN PReg' = PReg
          ELSE PReg' = write_register(2, IF a0 = 0 \/ FDT_state[a0 + 1] # 0 THEN Len(Input(a0)) + 1 ELSE 0)
      BY <1>5 DEF Read
    <3>2. (IF a0 = 0 \/ FDT_state[a0 + 1] # 0 THEN Len(Input(a0)) + 1 ELSE 0) \in {0, Len(Input(a0)) + 1}
      OBVIOUS
    <3> QED  BY <3>1, <3>2
  <2>3. Words'
    <3>1. CASE PReg' = PReg  BY <3>1 DEF Words
    <3>2. CASE ~IsMissing(a0) /\ \E v \in {0, Len(Input(a0)) + 1} : PReg' = write_register(2, v)
      <4>1. Len(Input(a0)) \in Nat  BY <3>2, InputIsText
      <4>2. PICK v \in {0, Len(Input(a0)) + 1} : PReg' = write_register(2, v)  BY <3>2
      <4>3. v \in Nat  BY <4>1, <4>2
      <4> QED  BY <1>1, <4>2, <4>3, WriteIsWord
    <3> QED  BY <2>2, <3>1, <3>2
  <2> QED  BY <1>3, <2>1, <2>3
<1>6. CASE Write
  <2>1. UNCHANGED <<SYS, RRAT>>  BY <1>6 DEF Write, processor
  <2>2. \/ a0 \in {1, 2} /\ PReg' = write_register(2, Len(Printed))
        \/ PReg' = write_register(2, a2)
    BY <1>6 DEF Write
  <2>3. IsCall(read_register(2), a0, a1) /\ read_register(2) = 4004
    BY <1>6 DEF Write, Call, Asked
  <2>4. a0 \in {1, 2} => Len(Printed) \in Nat
    <3> SUFFICES ASSUME a0 \in {1, 2} PROVE Len(Printed) \in Nat  OBVIOUS
    <3>1. \E i \in Addresses : i >= a1 /\ MAIN_MEMORY[i] = NUL  BY <2>3 DEF IsCall
    <3>2. Len(StringAt(a1)) \in Nat  BY <1>2, <3>1, StringIsText
    <3> QED  BY <1>1, <3>1, <3>2, PrintedFacts
  <2>5. Words'  BY <1>1, <1>2, <2>2, <2>4, WriteIsWord
  <2> QED  BY <1>3, <2>1, <2>5
<1>7. CASE Open
  <2>1. UNCHANGED <<SYS, RRAT>> /\ PReg' = write_register(2, FileDescriptorIndex)
    BY <1>7 DEF Open, processor
  <2>2. FileDescriptorIndex \in Nat  BY <1>1 DEF Table
  <2> QED  BY <1>1, <1>3, <2>1, <2>2, WriteIsWord
<1>8. CASE Close \/ Uname
  <2>1. UNCHANGED <<SYS, RRAT>> /\ PReg' = write_register(2, 0)
    BY <1>8 DEF Close, Uname, processor
  <2> QED  BY <1>1, <1>3, <2>1, WriteIsWord
<1>9. CASE Stat \/ Forwarded
  <2>1. UNCHANGED <<SYS, RRAT>>  BY <1>9 DEF Stat, Forwarded, processor
  <2>2. \/ PReg' = PReg
        \/ \E answer \in HostAnswers : PReg' = write_register(2, answer) \/ PReg' = Shifted(answer)
    BY <1>9 DEF Stat, Forwarded
  <2>3. Words'
    <3>1. CASE PReg' = PReg  BY <3>1 DEF Words
    <3>2. ASSUME NEW answer \in HostAnswers,
                 PReg' = write_register(2, answer) \/ PReg' = Shifted(answer)
          PROVE  Words'
      <4>1. answer \in Nat  BY WordsAreNumbers
      <4> QED  BY <1>1, <3>2, <4>1, WriteIsWord
    <3> QED  BY <2>2, <3>1, <3>2
  <2> QED  BY <1>3, <2>1, <2>3
<1> QED  BY <1>4, <1>5, <1>6, <1>7, <1>8, <1>9 DEF SystemCall

LEMMA WordsStep ==
  ASSUME FileInv, Next
  PROVE  Words'
<1>1. CASE Rise
  <2>1. CASE UNCHANGED PReg  BY <2>1 DEF FileInv, Words
  <2>2. CASE ~UNCHANGED PReg
    <3>1. PICK cycle \in Cycles :
            PReg' = [p \in DOMAIN PReg |->
                       IF \E r \in Architectural : RRAT'[r] = p
                       THEN cycle.Reg[CHOOSE r \in Architectural : RRAT'[r] = p] ELSE PReg[p]]
      BY <1>1, <2>2 DEF Rise
    <3>2. \A r \in Architectural : cycle.Reg[r] \in Nat  BY WordsAreNumbers
    <3>3. PReg \in [Physical -> Nat]  BY DEF FileInv, Words
    <3>4. ASSUME NEW p \in Physical, \E r \in Architectural : RRAT'[r] = p
          PROVE  (CHOOSE r \in Architectural : RRAT'[r] = p) \in Architectural
      BY <3>4
    <3> QED  BY <3>1, <3>2, <3>3, <3>4 DEF Words
  <2> QED  BY <2>1, <2>2
<1>2. CASE Fall \/ NoCall \/ Prompt  BY <1>2 DEF Fall, NoCall, Prompt, FileInv, Words
<1>3. CASE SystemCall  BY <1>3, AnswerStep DEF FileInv
<1> QED  BY <1>1, <1>2, <1>3 DEF Next

\* The files stay text, whatever is put in them, and the terminal lines.
LEMMA TextsStep ==
  ASSUME FileInv, Next
  PROVE  Texts'
<1>1. cin \in Seq(Seq(Seq(Int))) /\ \A name \in DOMAIN files : IsText(files[name])
  BY DEF FileInv, Texts
<1>2. ASSUME NEW name, NEW had, NEW text, IsText(had), IsText(text), files' = Appending(name, had, text)
      PROVE  \A n \in DOMAIN files' : IsText(files'[n])
  <2>1. IsText(had \o text)
    <3>1. PICK S : had \in Seq(S)  BY <1>2 DEF IsText
    <3>2. PICK T : text \in Seq(T)  BY <1>2 DEF IsText
    <3>3. had \in Seq(S \cup T) /\ text \in Seq(S \cup T)  BY <3>1, <3>2, SeqMonotonic
    <3>4. had \o text \in Seq(S \cup T)  BY <3>3, ConcatProperties
    <3> QED  BY <3>4 DEF IsText
  <2>2. CASE Creatable(name)
    <3>1. files' = [n \in DOMAIN files \cup {name} |-> IF n = name THEN had \o text ELSE files[n]]
      BY <1>2, <2>2 DEF Appending, WithFile
    <3> QED  BY <1>1, <2>1, <3>1
  <2>3. CASE ~Creatable(name)  BY <1>1, <1>2, <2>3 DEF Appending
  <2> QED  BY <2>2, <2>3
<1>3. IsText(<<>>)
  <2>1. <<>> \in Seq(Int)  BY EmptySeq
  <2> QED  BY <2>1 DEF IsText
<1>4. CASE Open
  <2>1. cin' = cin /\ files' = Appending(StringAt(a0), <<>>, <<>>)  BY <1>4 DEF Open
  <2>2. \A n \in DOMAIN files' : IsText(files'[n])  BY <1>2, <1>3, <2>1
  <2> QED  BY <1>1, <2>1, <2>2 DEF Texts
<1>5. CASE Write
  <2>1. cin' = cin  BY <1>5 DEF Write
  <2>2. \/ files' = files
        \/ LET name == FDT_filename[a0 + 1] IN
           files' = Appending(name, IF name \in DOMAIN files THEN files[name] ELSE <<>>, Appended)
    BY <1>5 DEF Write
  <2>3. CASE files' = files  BY <1>1, <2>1, <2>3 DEF Texts
  <2>4. CASE files' # files
    <3> DEFINE name == FDT_filename[a0 + 1]
               had == IF name \in DOMAIN files THEN files[name] ELSE <<>>
    <3>1. files' = Appending(name, had, Appended)  BY <2>2, <2>4
    <3>2. IsText(had)  BY <1>1, <1>3
    <3>3. IsText(Appended)
      <4> DEFINE S == {MAIN_MEMORY[a1 + i - 1] : i \in 1 .. a2}
      <4>1. a2 \in Nat  BY Arguments DEF FileInv, SimInv
      <4>2. \A i \in 1 .. a2 : MAIN_MEMORY[a1 + i - 1] \in S  OBVIOUS
      <4> HIDE DEF S
      <4>3. [i \in 1 .. a2 |-> MAIN_MEMORY[a1 + i - 1]] \in Seq(S)  BY <4>1, <4>2
      <4> QED  BY <4>3 DEF Appended, IsText
    <3> HIDE DEF name, had
    <3>4. \A n \in DOMAIN files' : IsText(files'[n])  BY <1>2, <3>1, <3>2, <3>3
    <3> QED  BY <1>1, <2>1, <3>4 DEF Texts
  <2> QED  BY <2>3, <2>4
<1>6. CASE Read
  <2>1. files' = files  BY <1>6 DEF Read, outputs
  <2>2. cin' = cin \/ cin' = TypedRest  BY <1>6 DEF Read
  <2>3. cin' \in Seq(Seq(Seq(Int)))  BY <1>1, <2>2, TypedFacts
  <2> QED  BY <1>1, <2>1, <2>3 DEF Texts
<1>7. CASE Prompt
  <2>1. files' = files  BY <1>7 DEF Prompt, outputs
  <2>2. cin' = cin \/ (cin # <<>> /\ cin' = Tail(cin))  BY <1>7 DEF Prompt
  <2>3. cin' \in Seq(Seq(Seq(Int)))
    <3> DEFINE Line == Seq(Seq(Int))
    <3>1. cin \in Seq(Line)  BY <1>1
    <3> HIDE DEF Line
    <3>2. cin' \in Seq(Line)  BY <2>2, <3>1, HeadTailProperties
    <3> QED  BY <3>2 DEF Line
  <2> QED  BY <1>1, <2>1, <2>3 DEF Texts
<1>8. CASE Next /\ ~Open /\ ~Write /\ ~Read /\ ~Prompt
  <2>1. UNCHANGED <<cin, files>>
    BY <1>8 DEF Next, SystemCall, Rise, Fall, NoCall, Exit, Close, Stat, Uname, Forwarded,
       Unimplemented, outputs
  <2> QED  BY <1>1, <2>1 DEF Texts
<1> QED  BY <1>4, <1>5, <1>6, <1>7, <1>8

LEMMA AskedStep ==
  ASSUME FileInv, Next
  PROVE  Asked'
<1>1. Renamed /\ cin \in Seq(Seq(Seq(Int)))  BY DEF FileInv, SimInv, Texts
<1>2. ASSUME UNCHANGED <<cin, files, FDT_filename, MAIN_MEMORY>>
      PROVE  \A number, r4, r5 : IsCall(number, r4, r5)' = IsCall(number, r4, r5)
  <2>1. \A d : Input(d)' = Input(d)  BY <1>1, <1>2, InputUnchanged
  <2>2. \A d : IsMissing(d)' = IsMissing(d)  BY <1>2 DEF IsMissing
  <2> QED  BY <1>2, <2>1, <2>2 DEF IsCall
<1>3. CASE Rise
  <2>1. CASE stage' = "illegal"  BY <2>1 DEF Asked
  <2>2. CASE stage' # "illegal"
    <3>1. PICK cycle \in Cycles :
            /\ cycle.SYS = 1 => IsCall(cycle.Reg[2], cycle.Reg[4], cycle.Reg[5])
            /\ SYS' = cycle.SYS /\ RRAT' = cycle.RRAT
            /\ PReg' = [p \in DOMAIN PReg |->
                          IF \E r \in Architectural : RRAT'[r] = p
                          THEN cycle.Reg[CHOOSE r \in Architectural : RRAT'[r] = p] ELSE PReg[p]]
      BY <1>3, <2>2 DEF Rise
    <3>2. UNCHANGED <<cin, files, FDT_filename, MAIN_MEMORY>>  BY <1>3 DEF Rise, table, outputs
    <3>3. \A r \in Architectural : PReg'[RRAT'[r]] = cycle.Reg[r]
      BY <1>1, <3>1, CycleRegisters
    <3>4. read_register(2)' = cycle.Reg[2] /\ a0' = cycle.Reg[4] /\ a1' = cycle.Reg[5]
      BY <3>3 DEF read_register, register_arch_to_phys, a0, a1, Architectural
    <3>5. SYS' = 1 => IsCall(cycle.Reg[2], cycle.Reg[4], cycle.Reg[5])'
      BY <1>2, <3>1, <3>2
    <3> QED  BY <3>4, <3>5 DEF Asked
  <2> QED  BY <2>1, <2>2
<1>4. CASE Fall
  <2>1. UNCHANGED <<cin, files, FDT_filename, MAIN_MEMORY, SYS, RRAT, PReg>> /\ stage = "fall"
    BY <1>4 DEF Fall, table, outputs, processor
  <2>2. SYS = 1 => IsCall(read_register(2), a0, a1)  BY <2>1 DEF FileInv, Asked
  <2>3. read_register(2)' = read_register(2) /\ a0' = a0 /\ a1' = a1
    BY <2>1 DEF read_register, register_arch_to_phys, a0, a1
  <2> DEFINE number == read_register(2)
             r4 == a0
             r5 == a1
  <2>4. PICK n, d, b : n = number /\ d = r4 /\ b = r5  OBVIOUS
  <2>5. SYS = 1 => IsCall(n, d, b)'  BY <1>2, <2>1, <2>2, <2>4
  <2> QED  BY <2>1, <2>3, <2>4, <2>5 DEF Asked
<1>5. CASE NoCall \/ Prompt  BY <1>5 DEF NoCall, Prompt, Asked
<1>6. CASE SystemCall
  <2>1. stage' \notin {"fall", "syscall"}  BY <1>6, AnswerStep DEF FileInv
  <2> QED  BY <2>1 DEF Asked
<1> QED  BY <1>3, <1>4, <1>5, <1>6 DEF Next

LEMMA TerminalStep ==
  ASSUME FileInv, Next
  PROVE  Terminal'
<1>1. FDT_state \in Seq({0, 1}) /\ Len(FDT_state) >= 3 /\ FDT_state[1] = 0
  BY DEF FileInv, SimInv, Table, Terminal
<1>2. CASE Open
  <2>1. FDT_state' = Append(FDT_state, 1)  BY <1>2 DEF Open
  <2>2. 1 \in 1 .. Len(FDT_state)  BY <1>1
  <2> QED  BY <1>1, <2>1, <2>2, AppendProperties DEF Terminal
<1>3. CASE Read \/ Close
  <2>1. \/ FDT_state' = FDT_state
        \/ \E i \in Nat : FDT_state' = [FDT_state EXCEPT ![i] = 0]
    <3>1. a0 + 1 \in Nat  BY Arguments DEF FileInv, SimInv
    <3> QED  BY <1>3, <3>1 DEF Read, Close
  <2>2. ASSUME NEW i \in Nat, FDT_state' = [FDT_state EXCEPT ![i] = 0] PROVE Terminal'
    <3>1. CASE i \in 1 .. Len(FDT_state)
      <4>1. /\ Len([FDT_state EXCEPT ![i] = 0]) = Len(FDT_state)
            /\ \A j \in 1 .. Len(FDT_state) :
                 [FDT_state EXCEPT ![i] = 0][j] = IF j = i THEN 0 ELSE FDT_state[j]
        <5>1. 0 \in {0, 1}  OBVIOUS
        <5> QED  BY <1>1, <3>1, <5>1, ExceptSeq
      <4>2. 1 \in 1 .. Len(FDT_state)  BY <1>1
      <4> QED  BY <1>1, <2>2, <4>1, <4>2 DEF Terminal
    <3>2. CASE i \notin 1 .. Len(FDT_state)
      <4>1. DOMAIN FDT_state = 1 .. Len(FDT_state)  BY <1>1, LenProperties
      <4>2. FDT_state' = FDT_state  BY <1>1, <2>2, <3>2, <4>1
      <4> QED  BY <1>1, <4>2 DEF Terminal
    <3> QED  BY <3>1, <3>2
  <2> QED  BY <1>1, <2>1, <2>2 DEF Terminal
<1>4. CASE Next /\ ~Open /\ ~Read /\ ~Close
  <2>1. UNCHANGED FDT_state
    BY <1>4 DEF Next, SystemCall, Rise, Fall, NoCall, Prompt, Exit, Write, Stat, Uname, Forwarded,
       Unimplemented, table
  <2> QED  BY <1>1, <2>1 DEF Terminal
<1> QED  BY <1>2, <1>3, <1>4

LEMMA FileInvHolds == Spec => []FileInv
<1>1. Init => FileInv
  <2> SUFFICES ASSUME Init PROVE FileInv  OBVIOUS
  <2>1. PReg = [p \in Physical |-> 0] /\ cin \in Terminals /\ files = <<>>
        /\ FDT_state = <<0, 0, 0>> /\ SYS = 0
    BY DEF Init, Physical
  <2>2. DOMAIN files = {}
    <3>1. DOMAIN files = DOMAIN <<>>  BY <2>1, Zenon
    <3>2. <<>> \in Seq({1}) /\ Len(<<>>) = 0  OBVIOUS
    <3>3. DOMAIN <<>> = 1 .. 0  BY <3>2, LenProperties
    <3>4. 1 .. 0 = {}  OBVIOUS
    <3> QED  BY <3>1, <3>3, <3>4, Zenon
  <2>3. cin \in Seq(Seq(Seq(Int)))  BY <2>1, WordsAreNumbers
  <2>4. Len(<<0, 0, 0>>) = 3 /\ <<0, 0, 0>>[1] = 0  OBVIOUS
  <2> QED  BY <2>1, <2>2, <2>3, <2>4, SimStarts DEF FileInv, Words, Texts, Asked, Terminal
<1>2. FileInv /\ [Next]_vars => FileInv'
  <2> SUFFICES ASSUME FileInv, [Next]_vars PROVE FileInv'  OBVIOUS
  <2>1. CASE Next
    BY <2>1, SimStep, WordsStep, TextsStep, AskedStep, TerminalStep DEF FileInv
  <2>2. CASE UNCHANGED vars
    <3>1. UNCHANGED <<stage, SYS, PReg, RRAT, MAIN_MEMORY, FDT_filename, FDT_state, files, cin>>
      BY <2>2 DEF vars, processor, table, outputs
    <3>2. SimInv'
      <4>1. UNCHANGED <<CLOCK_COUNTER, duration, BREAKPOINT, nextInstructionAddr, FileDescriptorIndex>>
        BY <2>2 DEF vars, settings, processor, table
      <4>2. Stops' = Stops  BY <3>1, <4>1 DEF Stops, read_register, register_arch_to_phys
      <4> QED  BY <3>1, <4>1, <4>2 DEF FileInv, SimInv, TypeOK, Renamed, Table, Counted, StopsKept
    <3>3. Asked'
      <4>1. \A d : Input(d)' = Input(d)  BY <3>1, InputUnchanged DEF FileInv, Texts
      <4>2. \A d : IsMissing(d)' = IsMissing(d)  BY <3>1 DEF IsMissing
      <4>3. \A number, r4, r5 : IsCall(number, r4, r5)' = IsCall(number, r4, r5)
        BY <3>1, <4>1, <4>2 DEF IsCall
      <4>4. read_register(2)' = read_register(2) /\ a0' = a0 /\ a1' = a1
        BY <3>1 DEF read_register, register_arch_to_phys, a0, a1
      <4>5. PICK n, d, b : n = read_register(2) /\ d = a0 /\ b = a1  OBVIOUS
      <4> QED  BY <3>1, <4>3, <4>4, <4>5 DEF FileInv, Asked
    <3> QED  BY <3>1, <3>2, <3>3 DEF FileInv, Words, Texts, Terminal
  <2> QED  BY <2>1, <2>2
<1> QED  BY <1>1, <1>2, PTL DEF Spec

----------------------------------------------------------------------------
(* The promise of HostFiles, kept by every step.                           *)

\* The descriptors that were not read or closed.
Fresh == {d \in 0 .. Len(FDT_filename) - 1 : FDT_state[d + 1] = 1}

PromiseVars == <<Request, FDT_filename, Fresh, files, <<stdoutFile, stderrFile>>, MAIN_MEMORY, PReg[RRAT[2]]>>

LEMMA RequestFacts ==
  ASSUME FileInv, SystemCall
  PROVE  /\ Request = <<read_register(2), a0, a1, a2>> /\ Request # NoRequest
         /\ Promise!a0 = a0 /\ Promise!a1 = a1 /\ Promise!a2 = a2
<1>1. stage = "syscall" /\ Renamed /\ SYS = 1
  BY CallStep DEF FileInv, SimInv, SystemCall, Exit, Read, Write, Open, Close, Stat, Uname, Forwarded,
     Unimplemented, Call
<1>2. Request = <<read_register(2), a0, a1, a2>>
  <2>1. /\ a0 = PReg[RRAT[4]] /\ a1 = PReg[RRAT[5]] /\ a2 = PReg[RRAT[6]]
        /\ read_register(2) = PReg[RRAT[2]]
    BY <1>1, Arguments DEF FileInv
  <2> QED  BY <1>1, <2>1 DEF Request
<1>3. Request # NoRequest  BY <1>2 DEF NoRequest
<1> QED  BY <1>2, <1>3 DEF Promise!a0, Promise!a1, Promise!a2

\* A call is answered when the step ends in the prompt.
LEMMA AnswerFacts ==
  ASSUME FileInv, SystemCall, stage' = "prompt", NEW numbers, read_register(2) \in numbers
  PROVE  Promise!Answer(numbers) /\ Request' = NoRequest
<1>1. Request = <<read_register(2), a0, a1, a2>> /\ Request # NoRequest  BY RequestFacts
<1>2. Request' = NoRequest  BY DEF Request
<1> QED  BY <1>1, <1>2 DEF Promise!Answer

\* Strings are the same to both.
LEMMA StringIsPromised == \A k : Promise!String(k) = StringAt(k)
BY Zenon DEF Promise!String, Promise!Strings, Promise!Text, Promise!Held, StringAt, Min, NUL

LEMMA OpenRefines ==
  ASSUME FileInv, Open
  PROVE  Promise!Open
<1>1. Renamed /\ Table  BY DEF FileInv, SimInv
<1>2. SystemCall /\ stage' = "prompt" /\ read_register(2) = 4005  BY DEF SystemCall, Open, Call
<1>3. Promise!Answer({4005}) /\ Promise!a0 = a0  BY <1>2, AnswerFacts, RequestFacts
<1>4. FDT_filename' = Append(FDT_filename, Promise!String(Promise!a0))
  BY <1>3, StringIsPromised DEF Open
<1>5. files' = Promise!WithFile(Promise!String(Promise!a0), <<>>)
  <2>1. files' = Appending(StringAt(a0), <<>>, <<>>)  BY DEF Open
  <2>2. <<>> \o <<>> = <<>>
    <3>1. <<>> \in Seq(Int)  BY EmptySeq
    <3> QED  BY <3>1, ConcatEmptySeq
  <2>3. files' = Appending(Promise!String(Promise!a0), <<>>, <<>>)  BY <1>3, <2>1, StringIsPromised
  <2> QED  BY <2>2, <2>3, Zenon DEF Appending, WithFile, Promise!WithFile
<1>6. Fresh' = Fresh \cup {Len(FDT_filename)}
  <2>1. PICK S : FDT_filename \in Seq(S)  BY <1>1 DEF Table
  <2>2. FDT_filename \in Seq(S \cup {StringAt(a0)})  BY <2>1, SeqMonotonic
  <2>3. Len(FDT_filename') = Len(FDT_filename) + 1 /\ Len(FDT_filename) \in Nat
    BY <2>2, AppendProperties DEF Open
  <2>4. /\ \A i \in 1 .. Len(FDT_state) : FDT_state'[i] = FDT_state[i]
        /\ FDT_state'[Len(FDT_state) + 1] = 1
    <3>1. FDT_state \in Seq({0, 1}) /\ 1 \in {0, 1} /\ FDT_state' = Append(FDT_state, 1)
      BY <1>1 DEF Table, Open
    <3> QED  BY <3>1, AppendProperties
  <2>5. Len(FDT_state) = Len(FDT_filename)  BY <1>1 DEF Table
  <2> QED  BY <2>3, <2>4, <2>5 DEF Fresh
<1>7. (PReg[RRAT[2]])' = Len(FDT_filename)
  <2>1. PReg' = write_register(2, FileDescriptorIndex) /\ RRAT' = RRAT
    BY DEF Open, processor
  <2>2. FileDescriptorIndex \in Nat /\ FileDescriptorIndex = Len(FDT_filename)  BY <1>1 DEF Table
  <2> QED  BY <1>1, <2>1, <2>2, WriteIsWord DEF FileInv
<1>8. UNCHANGED <<<<stdoutFile, stderrFile>>, MAIN_MEMORY>>  BY DEF Open
<1> QED  BY <1>3, <1>4, <1>5, <1>6, <1>7, <1>8 DEF Promise!Open, Fresh

\* Descriptors are put out of use one at a time, the terminal's never in use.
LEMMA FreshFacts ==
  ASSUME FileInv, NEW d \in 0 .. Len(FDT_filename) - 1, FDT_state' = [FDT_state EXCEPT ![d + 1] = 0],
         FDT_filename' = FDT_filename
  PROVE  /\ Fresh' = Fresh \ {d}
         /\ d = 0 => Fresh' = Fresh
         /\ FDT_state[d + 1] # 0 <=> d \in Fresh
<1>1. FDT_state \in Seq({0, 1}) /\ Len(FDT_state) = Len(FDT_filename) /\ FDT_state[1] = 0
  BY DEF FileInv, SimInv, Table, Terminal
<1>2. Len(FDT_state) \in Nat /\ \A i \in 1 .. Len(FDT_state) : FDT_state[i] \in {0, 1}  BY <1>1
<1>3. DOMAIN FDT_state = 1 .. Len(FDT_state)  BY <1>1, LenProperties
<1>4. \A i \in 1 .. Len(FDT_state) : FDT_state'[i] = IF i = d + 1 THEN 0 ELSE FDT_state[i]
  BY <1>1, <1>2, <1>3
<1>5. Fresh' = {e \in 0 .. Len(FDT_filename) - 1 : FDT_state'[e + 1] = 1}  BY DEF Fresh
<1> QED  BY <1>1, <1>2, <1>4, <1>5 DEF Fresh

\* Descriptors of calls are in the table.
LEMMA DescriptorIsGiven ==
  ASSUME FileInv, SystemCall, read_register(2) \in {4003, 4004, 4006}
  PROVE  a0 \in 0 .. Len(FDT_filename) - 1
<1>1. stage = "syscall" /\ SYS = 1
  BY CallStep DEF FileInv, SimInv, SystemCall, Exit, Read, Write, Open, Close, Stat, Uname, Forwarded,
     Unimplemented, Call
<1> QED  BY <1>1 DEF FileInv, Asked, IsCall

LEMMA CloseRefines ==
  ASSUME FileInv, Close
  PROVE  Promise!Close
<1>1. SystemCall /\ stage' = "prompt" /\ read_register(2) = 4006  BY DEF SystemCall, Close, Call
<1>2. Promise!Answer({4006}) /\ Promise!a0 = a0  BY <1>1, AnswerFacts, RequestFacts
<1>3. Fresh' = Fresh \ {a0}
  <2>1. a0 \in 0 .. Len(FDT_filename) - 1  BY <1>1, DescriptorIsGiven
  <2>2. FDT_state' = [FDT_state EXCEPT ![a0 + 1] = 0] /\ FDT_filename' = FDT_filename  BY DEF Close
  <2>3. PICK d : d = a0  OBVIOUS
  <2> QED  BY <2>1, <2>2, <2>3, FreshFacts
<1>4. (PReg[RRAT[2]])' = 0
  <2>1. PReg' = write_register(2, 0) /\ RRAT' = RRAT  BY DEF Close, processor
  <2> QED  BY <2>1, WriteIsWord DEF FileInv, SimInv
<1>5. UNCHANGED <<FDT_filename, files, <<stdoutFile, stderrFile>>, MAIN_MEMORY>>
  BY DEF Close, outputs
<1> QED  BY <1>2, <1>3, <1>4, <1>5 DEF Promise!Close, Fresh

LEMMA WriteRefines ==
  ASSUME FileInv, Write, a0 \notin {1, 2}
  PROVE  Promise!Write
<1>1. SystemCall /\ stage' = "prompt" /\ read_register(2) = 4004  BY DEF SystemCall, Write, Call
<1>2. Promise!Answer({4004}) /\ Promise!a0 = a0 /\ Promise!a1 = a1 /\ Promise!a2 = a2
  BY <1>1, AnswerFacts, RequestFacts
<1>3. a0 \in 0 .. Len(FDT_filename) - 1  BY <1>1, DescriptorIsGiven
<1>4. a0 \in Promise!Descriptor \ {1, 2}  BY <1>3 DEF Promise!Descriptor
<1> DEFINE name == FDT_filename[a0 + 1]
           had == IF name \in DOMAIN files THEN files[name] ELSE <<>>
<1>5. /\ files' = Appending(name, had, Appended)
      /\ PReg' = write_register(2, a2)
      /\ UNCHANGED <<stdoutFile, stderrFile, MAIN_MEMORY, RRAT, FDT_filename, FDT_state>>
  BY DEF Write, processor, table
<1>6. Appended = Promise!Text(a1, a2)  BY Zenon DEF Appended, Promise!Text, Promise!Held
<1>7. files' = Promise!WithFile(name, had \o Promise!Text(a1, a2))
  <2> HIDE DEF name, had
  <2> QED  BY <1>5, <1>6, Zenon DEF Appending, WithFile, Promise!WithFile
<1>8. (PReg[RRAT[2]])' = a2
  <2>1. a2 \in Nat /\ Renamed /\ Words  BY Arguments DEF FileInv, SimInv
  <2>2. PICK v \in Nat : v = a2  BY <2>1
  <2>3. PReg' = write_register(2, v)  BY <1>5, <2>2
  <2> QED  BY <1>5, <2>1, <2>2, <2>3, WriteIsWord
<1>9. Fresh' = Fresh  BY <1>5 DEF Fresh
<1> QED  BY <1>2, <1>4, <1>5, <1>7, <1>8, <1>9 DEF Promise!Write, Fresh

LEMMA WriteConsoleRefines ==
  ASSUME FileInv, Write, a0 \in {1, 2}
  PROVE  Promise!WriteConsole
<1>1. SystemCall /\ stage' = "prompt" /\ stage = "syscall" /\ SYS = 1 /\ read_register(2) = 4004
  BY DEF SystemCall, Write, Call
<1>2. Promise!Answer({4004}) /\ Promise!a0 = a0 /\ Promise!a1 = a1 /\ Promise!a2 = a2
  BY <1>1, AnswerFacts, RequestFacts
<1>3. \E i \in Addresses : i >= a1 /\ MAIN_MEMORY[i] = NUL
  BY <1>1 DEF FileInv, Asked, IsCall
<1>4. Words /\ Renamed /\ a1 \in Nat  BY Arguments DEF FileInv, SimInv
<1> DEFINE string == StringAt(a1)
<1>5. /\ IsText(Printed) /\ Len(string) \in Nat
      /\ Len(Printed) = IF a2 \in 1 .. Len(string) THEN a2 ELSE Len(string)
      /\ Len(Printed) \in 0 .. Len(string)
      /\ \A i \in 1 .. Len(Printed) : Printed[i] = string[i]
  BY <1>3, <1>4, PrintedFacts, StringIsText
<1>6. /\ stdoutFile' = IF a0 = 1 THEN stdoutFile \o Printed ELSE stdoutFile
      /\ stderrFile' = IF a0 = 2 THEN stderrFile \o Printed ELSE stderrFile
      /\ PReg' = write_register(2, Len(Printed))
      /\ UNCHANGED <<files, MAIN_MEMORY, RRAT, FDT_filename, FDT_state>>
  BY DEF Write, processor, table
<1>7. (PReg[RRAT[2]])' = Len(Printed)
  <2>1. PICK v \in Nat : v = Len(Printed)  BY <1>5
  <2>2. PReg' = write_register(2, v)  BY <1>6, <2>1
  <2> QED  BY <1>4, <1>6, <2>1, <2>2, WriteIsWord
<1>8. Printed = Promise!Text(a1, (PReg[RRAT[2]])')
  <2> DEFINE n == Len(Printed)
  <2>1. PICK S : Printed \in Seq(S)  BY <1>5 DEF IsText
  <2>2. Printed = [i \in 1 .. n |-> Printed[i]] /\ n \in Nat  BY <2>1
  <2>3. \A i \in 1 .. Len(string) : string[i] = MAIN_MEMORY[a1 + i - 1]
    <3> DEFINE end == Min({i \in Addresses : i >= a1 /\ MAIN_MEMORY[i] = NUL})
    <3>1. string = [i \in 1 .. end - a1 |-> MAIN_MEMORY[a1 + i - 1]]  BY DEF StringAt
    <3> HIDE DEF end
    <3>2. DOMAIN string = 1 .. end - a1  BY <3>1
    <3>3. PICK T : string \in Seq(T)  BY <1>3, <1>4, StringIsText DEF IsText
    <3>4. DOMAIN string = 1 .. Len(string)
      <4> HIDE DEF string
      <4> QED  BY <3>3, LenProperties
    <3> HIDE DEF string
    <3> QED  BY <3>1, <3>2, <3>4
  <2> HIDE DEF string
  <2>4. \A i \in 1 .. n : Printed[i] = MAIN_MEMORY[a1 + i - 1]  BY <1>5, <2>3
  <2>5. Printed = [i \in 1 .. n |-> MAIN_MEMORY[a1 + i - 1]]
    <3> HIDE DEF n
    <3> QED  BY <2>2, <2>4
  <2> QED  BY <1>7, <2>5 DEF Promise!Text, Promise!Held
<1>9. (PReg[RRAT[2]])' = IF Promise!a2 \in 1 .. Len(Promise!String(Promise!a1)) THEN Promise!a2
                         ELSE Len(Promise!String(Promise!a1))
  BY <1>2, <1>5, <1>7, StringIsPromised
<1>10. <<stdoutFile, stderrFile>>' =
         [<<stdoutFile, stderrFile>> EXCEPT ![Promise!a0] = @ \o Promise!Text(Promise!a1, (PReg[RRAT[2]])')]
  <2>1. ASSUME NEW x, NEW y, NEW z
        PROVE  [<<x, y>> EXCEPT ![1] = z] = <<z, y>> /\ [<<x, y>> EXCEPT ![2] = z] = <<x, z>>
    OBVIOUS
  <2>2. <<stdoutFile, stderrFile>>[1] = stdoutFile /\ <<stdoutFile, stderrFile>>[2] = stderrFile
    OBVIOUS
  <2>3. CASE a0 = 1
    <3>1. stdoutFile' = stdoutFile \o Printed /\ stderrFile' = stderrFile  BY <1>6, <2>3
    <3>2. [<<stdoutFile, stderrFile>> EXCEPT ![1] = stdoutFile \o Printed] = <<stdoutFile \o Printed, stderrFile>>
      BY <2>1
    <3>3. [<<stdoutFile, stderrFile>> EXCEPT ![Promise!a0] = @ \o Promise!Text(Promise!a1, (PReg[RRAT[2]])')]
            = [<<stdoutFile, stderrFile>> EXCEPT ![1] = stdoutFile \o Printed]
      BY <1>2, <1>8, <2>2, <2>3
    <3> QED  BY <3>1, <3>2, <3>3
  <2>4. CASE a0 = 2
    <3>1. stdoutFile' = stdoutFile /\ stderrFile' = stderrFile \o Printed  BY <1>6, <2>4
    <3>2. [<<stdoutFile, stderrFile>> EXCEPT ![2] = stderrFile \o Printed] = <<stdoutFile, stderrFile \o Printed>>
      BY <2>1
    <3>3. [<<stdoutFile, stderrFile>> EXCEPT ![Promise!a0] = @ \o Promise!Text(Promise!a1, (PReg[RRAT[2]])')]
            = [<<stdoutFile, stderrFile>> EXCEPT ![2] = stderrFile \o Printed]
      BY <1>2, <1>8, <2>2, <2>4
    <3> QED  BY <3>1, <3>2, <3>3
  <2> QED  BY <2>3, <2>4
<1>11. Fresh' = Fresh  BY <1>6 DEF Fresh
<1> QED  BY <1>2, <1>6, <1>9, <1>10, <1>11 DEF Promise!WriteConsole, Fresh

\* Leaving line ends out of what is stored gives the file without them.
LEMMA StoredIsKept ==
  ASSUME NEW S, NEW text \in Seq(S \ {NEWLINE}), NEW stored,
         Len(stored) = Len(WithNewline(text)) + 1,
         \A i \in 1 .. Len(WithNewline(text)) : stored[i] = WithNewline(text)[i],
         stored[Len(WithNewline(text)) + 1] = NEWLINE
  PROVE  Kept(stored) = text /\ Len(WithNewline(text)) \in Len(text) .. Len(text) + 1
<1> DEFINE input == WithNewline(text)
           T == S \ {NEWLINE}
           n == Len(text)
<1>1. n \in Nat  OBVIOUS
<1>2. \/ input = text
      \/ \E k \in 1 .. n : /\ Len(input) = n + 1
                           /\ \A i \in 1 .. n + 1 :
                                input[i] = IF i < k THEN text[i] ELSE IF i = k THEN NEWLINE ELSE text[i - 1]
  <2>1. text \in Seq(T)  OBVIOUS
  <2> HIDE DEF T
  <2> QED  BY <2>1, WithNewlineFacts
<1>3. /\ Len(stored) = Len(input) + 1 /\ stored[Len(input) + 1] = NEWLINE
      /\ \A i \in 1 .. Len(input) : stored[i] = input[i]
  OBVIOUS
<1> HIDE DEF input
<1>4. CASE input = text
  <2> DEFINE at == [i \in 0 .. Len(stored) |-> IF i <= n THEN i ELSE n]
  <2>1. Len(stored) = n + 1  BY <1>3, <1>4
  <2>2. at \in [0 .. Len(stored) -> 0 .. n] /\ at[0] = 0 /\ at[Len(stored)] = n
    BY <1>1, <2>1
  <2>3. ASSUME NEW i \in 1 .. Len(stored)
        PROVE  \/ stored[i] = NEWLINE /\ at[i] = at[i - 1]
               \/ at[i] = at[i - 1] + 1 /\ stored[i] = text[at[i]]
    <3>1. CASE i = n + 1  BY <1>1, <1>3, <1>4, <2>1, <3>1
    <3>2. CASE i \in 1 .. n  BY <1>1, <1>3, <1>4, <2>1, <3>2
    <3> QED  BY <1>1, <2>1, <3>1, <3>2
  <2> HIDE DEF at
  <2>4. Len(stored) \in Nat /\ Len(text) = n  BY <1>1, <2>1
  <2>5. Kept(stored) = text
    <3> HIDE DEF n
    <3> QED  BY <2>2, <2>3, <2>4, LineEndsAreLeftOut
  <2> QED  BY <1>1, <1>4, <2>5 DEF input
<1>5. CASE \E k \in 1 .. n : /\ Len(input) = n + 1
                             /\ \A i \in 1 .. n + 1 :
                                  input[i] = IF i < k THEN text[i] ELSE IF i = k THEN NEWLINE ELSE text[i - 1]
  <2>1. PICK k \in 1 .. n : /\ Len(input) = n + 1
                            /\ \A i \in 1 .. n + 1 :
                                 input[i] = IF i < k THEN text[i] ELSE IF i = k THEN NEWLINE ELSE text[i - 1]
    BY <1>5
  <2> DEFINE at == [i \in 0 .. Len(stored) |-> IF i < k THEN i ELSE IF i <= n + 1 THEN i - 1 ELSE n]
  <2>2. Len(stored) = n + 2
    <3>1. Len(stored) = Len(input) + 1 /\ Len(input) = n + 1  BY <1>3, <2>1
    <3> HIDE DEF n
    <3> QED  BY <1>1, <3>1
  <2>3. at \in [0 .. Len(stored) -> 0 .. n] /\ at[0] = 0 /\ at[Len(stored)] = n
    BY <1>1, <2>1, <2>2
  <2>4. ASSUME NEW i \in 1 .. Len(stored)
        PROVE  \/ stored[i] = NEWLINE /\ at[i] = at[i - 1]
               \/ at[i] = at[i - 1] + 1 /\ stored[i] = text[at[i]]
    <3>1. CASE i = n + 2  BY <1>1, <1>3, <2>1, <2>2, <3>1
    <3>2. CASE i \in 1 .. n + 1
      <4>1. stored[i] = IF i < k THEN text[i] ELSE IF i = k THEN NEWLINE ELSE text[i - 1]
        BY <1>1, <1>3, <2>1, <3>2
      <4> QED  BY <1>1, <2>1, <2>2, <3>2, <4>1
    <3> QED  BY <1>1, <2>2, <3>1, <3>2
  <2> HIDE DEF at
  <2>5. Len(stored) \in Nat /\ Len(text) = n  BY <1>1, <2>2
  <2>6. Kept(stored) = text
    <3> HIDE DEF n
    <3> QED  BY <2>3, <2>4, <2>5, LineEndsAreLeftOut
  <2> QED  BY <1>1, <2>1, <2>6 DEF input
<1> QED  BY <1>2, <1>4, <1>5

\* What every reading does.
LEMMA ReadFacts ==
  ASSUME FileInv, Read, ~IsMissing(a0)
  PROVE  /\ Len(Input(a0)) \in Nat /\ a1 \in Nat
         /\ a1 .. a1 + Len(Input(a0)) \subseteq Addresses
         /\ \A i \in 1 .. Len(Input(a0)) : MAIN_MEMORY'[a1 + i - 1] = Input(a0)[i]
         /\ MAIN_MEMORY'[a1 + Len(Input(a0))] = NEWLINE
         /\ \A a \in Addresses \ (a1 .. a1 + Len(Input(a0))) : MAIN_MEMORY'[a] = MAIN_MEMORY[a]
         /\ (PReg[RRAT[2]])' = IF a0 = 0 \/ FDT_state[a0 + 1] # 0 THEN Len(Input(a0)) + 1 ELSE 0
<1>1. stage = "syscall" /\ SYS = 1 /\ read_register(2) = 4003  BY DEF Read, Call
<1>2. a1 .. a1 + Len(Input(a0)) \subseteq Addresses  BY <1>1 DEF FileInv, Asked, IsCall
<1>3. Len(Input(a0)) \in Nat  BY InputIsText DEF FileInv
<1>4. Words /\ Renamed /\ a1 \in Nat  BY Arguments DEF FileInv, SimInv
<1>5. /\ MAIN_MEMORY' = Stored(MAIN_MEMORY, a1, Input(a0))
      /\ PReg' = write_register(2, IF a0 = 0 \/ FDT_state[a0 + 1] # 0 THEN Len(Input(a0)) + 1 ELSE 0)
      /\ RRAT' = RRAT
  BY DEF Read, processor
<1>6. (PReg[RRAT[2]])' = IF a0 = 0 \/ FDT_state[a0 + 1] # 0 THEN Len(Input(a0)) + 1 ELSE 0
  <2>1. PICK v \in Nat : v = IF a0 = 0 \/ FDT_state[a0 + 1] # 0 THEN Len(Input(a0)) + 1 ELSE 0
    BY <1>3
  <2>2. PReg' = write_register(2, v)  BY <1>5, <2>1
  <2> QED  BY <1>4, <1>5, <2>1, <2>2, WriteIsWord
<1> DEFINE input == Input(a0)
           n == Len(input)
<1>7. MAIN_MEMORY' = [i \in Addresses |-> IF i \in a1 .. a1 + n - 1 THEN input[i - a1 + 1]
                                          ELSE IF i = a1 + n THEN NEWLINE ELSE MAIN_MEMORY[i]]
  BY <1>5 DEF Stored
<1>8. n \in Nat /\ a1 .. a1 + n \subseteq Addresses  BY <1>2, <1>3
<1> HIDE DEF input, n
<1>9. \A i \in 1 .. n : MAIN_MEMORY'[a1 + i - 1] = input[i]
  <2> SUFFICES ASSUME NEW i \in 1 .. n PROVE MAIN_MEMORY'[a1 + i - 1] = input[i]  OBVIOUS
  <2>1. a1 + i - 1 \in a1 .. a1 + n - 1 /\ a1 + i - 1 \in Addresses /\ (a1 + i - 1) - a1 + 1 = i
    BY <1>4, <1>8
  <2> QED  BY <1>7, <2>1
<1>10. MAIN_MEMORY'[a1 + n] = NEWLINE
  <2>1. a1 + n \in Addresses /\ a1 + n \notin a1 .. a1 + n - 1  BY <1>4, <1>8
  <2> QED  BY <1>7, <2>1
<1>11. \A a \in Addresses \ (a1 .. a1 + n) : MAIN_MEMORY'[a] = MAIN_MEMORY[a]
  <2> SUFFICES ASSUME NEW a \in Addresses, a \notin a1 .. a1 + n PROVE MAIN_MEMORY'[a] = MAIN_MEMORY[a]
    OBVIOUS
  <2>1. a \notin a1 .. a1 + n - 1 /\ a # a1 + n  BY <1>4, <1>8
  <2> QED  BY <1>7, <2>1
<1> QED  BY <1>4, <1>6, <1>8, <1>9, <1>10, <1>11 DEF input, n

LEMMA ReadTerminalRefines ==
  ASSUME FileInv, Read, a0 = 0
  PROVE  Promise!ReadTerminal
<1>1. ~IsMissing(a0)  BY DEF IsMissing
<1>2. SystemCall /\ stage' = "prompt" /\ read_register(2) = 4003
  BY <1>1 DEF SystemCall, Read, Call
<1>3. Promise!Answer({4003}) /\ Promise!a0 = a0 /\ Promise!a1 = a1
  BY <1>2, AnswerFacts, RequestFacts
<1> DEFINE n == Len(Input(a0))
<1>4. /\ n \in Nat /\ a1 \in Nat /\ a1 .. a1 + n \subseteq Addresses
      /\ MAIN_MEMORY'[a1 + n] = NEWLINE
      /\ \A a \in Addresses \ (a1 .. a1 + n) : MAIN_MEMORY'[a] = MAIN_MEMORY[a]
      /\ (PReg[RRAT[2]])' = n + 1
  BY <1>1, ReadFacts
<1> HIDE DEF n
<1>5. a1 + (n + 1) - 1 = a1 + n /\ a1 + n \in Addresses /\ n + 1 \in Nat \ {0}  BY <1>4
<1>6. UNCHANGED <<FDT_filename, files, <<stdoutFile, stderrFile>>>>  BY DEF Read, outputs
<1>7. Fresh' = Fresh
  <2>1. 0 \in 0 .. Len(FDT_filename) - 1  BY <1>2, DescriptorIsGiven
  <2>2. FDT_state' = [FDT_state EXCEPT ![0 + 1] = 0]  BY <1>1 DEF Read
  <2> QED  BY <1>6, <2>1, <2>2, FreshFacts
<1> QED  BY <1>3, <1>4, <1>5, <1>6, <1>7 DEF Promise!ReadTerminal, Fresh

LEMMA ReadRefines ==
  ASSUME FileInv, Read, a0 # 0, ~IsMissing(a0)
  PROVE  Promise!Read
<1>1. SystemCall /\ stage' = "prompt" /\ read_register(2) = 4003  BY DEF SystemCall, Read, Call
<1>2. Promise!Answer({4003}) /\ Promise!a0 = a0 /\ Promise!a1 = a1
  BY <1>1, AnswerFacts, RequestFacts
<1>3. a0 \in 0 .. Len(FDT_filename) - 1  BY <1>1, DescriptorIsGiven
<1>4. a0 \in Promise!Descriptor \ {0}  BY <1>3 DEF Promise!Descriptor
<1> DEFINE name == FDT_filename[a0 + 1]
           text == Promise!NoNewlines(files[name])
           n == Len(Input(a0))
           stored == [i \in 1 .. n + 1 |-> MAIN_MEMORY'[a1 + i - 1]]
<1>5. name \in DOMAIN files  BY DEF IsMissing
<1>6. /\ n \in Nat /\ a1 \in Nat /\ a1 .. a1 + n \subseteq Addresses
      /\ \A i \in 1 .. n : MAIN_MEMORY'[a1 + i - 1] = Input(a0)[i]
      /\ MAIN_MEMORY'[a1 + n] = NEWLINE
      /\ \A a \in Addresses \ (a1 .. a1 + n) : MAIN_MEMORY'[a] = MAIN_MEMORY[a]
      /\ (PReg[RRAT[2]])' = IF FDT_state[a0 + 1] # 0 THEN n + 1 ELSE 0
  BY ReadFacts
<1>7. text = Kept(files[name]) /\ FileInput(name) = Kept(files[name])  BY BothKeep
<1>8. Input(a0) = WithNewline(text)  BY <1>7 DEF Input
<1>9. PICK S : text \in Seq(S \ {NEWLINE})
  <2>1. IsText(files[name])  BY <1>5 DEF FileInv, Texts
  <2>2. PICK T : files[name] \in Seq(T)  BY <2>1 DEF IsText
  <2> HIDE DEF name
  <2> QED  BY <1>7, <2>2, KeptIsText
<1>10. Kept(stored) = text /\ n \in Len(text) .. Len(text) + 1
  <2>1. stored = [i \in 1 .. n + 1 |-> MAIN_MEMORY'[a1 + i - 1]]  OBVIOUS
  <2>2. n = Len(WithNewline(text))  BY <1>8
  <2>3. \A i \in 1 .. n : MAIN_MEMORY'[a1 + i - 1] = WithNewline(text)[i]  BY <1>6, <1>8
  <2> HIDE DEF stored, n, text
  <2>4. n + 1 \in Nat /\ n + 1 \in 1 .. n + 1 /\ a1 + (n + 1) - 1 = a1 + n  BY <1>6
  <2>5. Len(stored) = n + 1
    <3> DEFINE R == {MAIN_MEMORY'[a1 + i - 1] : i \in 1 .. n + 1}
               m == n + 1
    <3>1. \A i \in 1 .. m : MAIN_MEMORY'[a1 + i - 1] \in R  OBVIOUS
    <3>2. m \in Nat  BY <2>4
    <3>3. stored = [i \in 1 .. m |-> MAIN_MEMORY'[a1 + i - 1]]  BY <2>1
    <3> HIDE DEF R, m
    <3>4. stored \in Seq(R) /\ DOMAIN stored = 1 .. m  BY <3>1, <3>2, <3>3
    <3>5. Len(stored) = m  BY <3>2, <3>4
    <3> QED  BY <3>5 DEF m
  <2>6. \A i \in 1 .. n : stored[i] = WithNewline(text)[i]  BY <1>6, <2>1, <2>3
  <2>7. stored[n + 1] = NEWLINE  BY <1>6, <2>1, <2>4
  <2> QED  BY <1>9, <2>2, <2>5, <2>6, <2>7, StoredIsKept
<1>11. Promise!NoNewlines(stored) = text
  <2> HIDE DEF stored, text
  <2> QED  BY <1>10, BothKeep
<1>12. UNCHANGED <<FDT_filename, files, <<stdoutFile, stderrFile>>>>  BY DEF Read, outputs
<1>13. Fresh' = Fresh \ {a0} /\ (FDT_state[a0 + 1] # 0 <=> a0 \in Fresh)
  <2>1. FDT_state' = [FDT_state EXCEPT ![a0 + 1] = 0]  BY DEF Read
  <2>2. PICK d : d = a0  OBVIOUS
  <2> QED  BY <1>3, <1>12, <2>1, <2>2, FreshFacts
<1>14. \E count \in Len(text) + 1 .. Len(text) + 2 :
         /\ a1 + count - 1 \in Addresses
         /\ Promise!NoNewlines(Promise!Held(MAIN_MEMORY', a1, count)) = text
         /\ \A a \in Addresses \ (a1 .. a1 + count - 1) : MAIN_MEMORY'[a] = MAIN_MEMORY[a]
         /\ (PReg[RRAT[2]])' = IF a0 \in Fresh THEN count ELSE 0
  <2> DEFINE count == n + 1
  <2>1. count \in Len(text) + 1 .. Len(text) + 2
    <3>1. Len(text) \in Nat  BY <1>9
    <3> HIDE DEF n, text
    <3> QED  BY <1>6, <1>10, <3>1
  <2>2. a1 + count - 1 = a1 + n /\ a1 + n \in Addresses
    <3> HIDE DEF n
    <3> QED  BY <1>6
  <2>3. Promise!NoNewlines(Promise!Held(MAIN_MEMORY', a1, count)) = text
    <3>1. Promise!Held(MAIN_MEMORY', a1, n + 1) = stored  BY Zenon DEF Promise!Held
    <3> QED  BY <1>11, <3>1
  <2>4. \A a \in Addresses \ (a1 .. a1 + count - 1) : MAIN_MEMORY'[a] = MAIN_MEMORY[a]
    <3> HIDE DEF n
    <3> QED  BY <1>6, <2>2
  <2>5. (PReg[RRAT[2]])' = IF a0 \in Fresh THEN count ELSE 0  BY <1>6, <1>13
  <2> HIDE DEF count, n, text
  <2> QED  BY <2>1, <2>2, <2>3, <2>4, <2>5
<1>15. PICK count \in Len(text) + 1 .. Len(text) + 2 :
         /\ a1 + count - 1 \in Addresses
         /\ Promise!NoNewlines(Promise!Held(MAIN_MEMORY', a1, count)) = text
         /\ \A a \in Addresses \ (a1 .. a1 + count - 1) : MAIN_MEMORY'[a] = MAIN_MEMORY[a]
         /\ (PReg[RRAT[2]])' = IF a0 \in Fresh THEN count ELSE 0
  BY <1>14
<1> HIDE DEF name, text, n, stored
<1> DEFINE promised == Promise!NoNewlines(files[FDT_filename[Promise!a0 + 1]])
<1>16. promised = text  BY <1>2 DEF text, name
<1>17. FDT_filename[Promise!a0 + 1] \in DOMAIN files  BY <1>2, <1>5 DEF name
<1>18. \E c \in Len(promised) + 1 .. Len(promised) + 2 :
         /\ Promise!a1 + c - 1 \in Addresses
         /\ Promise!NoNewlines(Promise!Held(MAIN_MEMORY', Promise!a1, c)) = promised
         /\ \A a \in Addresses \ (Promise!a1 .. Promise!a1 + c - 1) : MAIN_MEMORY'[a] = MAIN_MEMORY[a]
         /\ (PReg[RRAT[2]])' = IF Promise!a0 \in Fresh THEN c ELSE 0
  <2> HIDE DEF promised
  <2> QED  BY <1>2, <1>15, <1>16
<1>19. Fresh' = Fresh \ {Promise!a0} /\ Promise!a0 \in Promise!Descriptor \ {0}
  BY <1>2, <1>4, <1>13
<1> QED  BY <1>2, <1>12, <1>17, <1>18, <1>19 DEF Promise!Read, Fresh

\* A call that is not about files, answered.
LEMMA OtherRefines ==
  ASSUME FileInv, (Stat \/ Uname \/ Forwarded) /\ stage' = "prompt"
  PROVE  Promise!OtherCall
<1>1. SystemCall /\ Renamed  BY DEF SystemCall, FileInv, SimInv
<1>2. Request = <<read_register(2), a0, a1, a2>> /\ Request # NoRequest  BY <1>1, RequestFacts
<1>3. Request' = NoRequest  BY DEF Request
<1>4. Request[1] \notin 4003 .. 4006
  <2>1. read_register(2) \in {4018, 4028, 4122} \cup HostCalls \cup HeapCalls
    BY DEF Stat, Uname, Forwarded, Call
  <2> QED  BY <1>2, <2>1 DEF HostCalls, HeapCalls
<1>5. (PReg[RRAT[2]])' \in Int
  <2>1. Words' /\ RRAT' = RRAT  BY <1>1, AnswerStep DEF FileInv
  <2>2. RRAT[2] \in Physical  BY <1>1 DEF Renamed, Architectural
  <2> QED  BY <2>1, <2>2 DEF Words
<1>6. UNCHANGED <<FDT_filename, Fresh, files, <<stdoutFile, stderrFile>>, MAIN_MEMORY>>
  BY DEF Stat, Uname, Forwarded, table, outputs, Fresh
<1> QED  BY <1>2, <1>3, <1>4, <1>5, <1>6 DEF Promise!OtherCall, Fresh

\* A call that ends the program is never answered.
LEMMA EndStutters ==
  ASSUME FileInv, SystemCall, stage' # "prompt"
  PROVE  UNCHANGED PromiseVars
<1>1. Exit \/ Unimplemented \/ (Read /\ IsMissing(a0)) \/ Stat \/ Forwarded
  BY DEF SystemCall, Read, Write, Open, Close, Uname
<1>2. /\ stage = "syscall" /\ SYS = 1
      /\ stage' \in {"exit", "killed", "crashed", "hung", "unimplemented"}
  BY <1>1 DEF Exit, Unimplemented, Read, Stat, Forwarded, Call
<1>3. /\ UNCHANGED <<SYS, PReg, RRAT, MAIN_MEMORY, files, stdoutFile, stderrFile>>
      /\ UNCHANGED <<FDT_filename, FDT_state>>
  BY <1>1 DEF Exit, Unimplemented, Read, Stat, Forwarded, processor, outputs, table
<1>4. Request' = Request /\ Fresh' = Fresh  BY <1>2, <1>3 DEF Request, Fresh
<1> QED  BY <1>3, <1>4 DEF PromiseVars

\* Up to a call a program does what it likes to its registers.
LEMMA RiseRefines ==
  ASSUME FileInv, Rise
  PROVE  Promise!Compute
<1>1. Request = NoRequest /\ Request' = NoRequest  BY DEF Rise, Request
<1>2. (PReg[RRAT[2]])' \in Int
  <2>1. Words' /\ Renamed'  BY SimStep, WordsStep DEF FileInv, SimInv, Next
  <2>2. RRAT'[2] \in Physical  BY <2>1 DEF Renamed, Architectural
  <2> QED  BY <2>1, <2>2 DEF Words
<1>3. UNCHANGED <<FDT_filename, Fresh, files, <<stdoutFile, stderrFile>>, MAIN_MEMORY>>
  BY DEF Rise, table, outputs, Fresh
<1> QED  BY <1>1, <1>2, <1>3 DEF Promise!Compute, Fresh

\* The call is made of the registers after the rising edge.
LEMMA FallRefines ==
  ASSUME FileInv, Fall
  PROVE  Promise!Compute
<1>1. Request = NoRequest  BY DEF Fall, Request
<1>2. UNCHANGED <<PReg, RRAT, SYS>>  BY DEF Fall, processor
<1>3. Request' = NoRequest \/ Request'[1] = (PReg[RRAT[2]])'
  BY DEF Request
<1>4. (PReg[RRAT[2]])' \in Int
  <2>1. Words /\ Renamed  BY DEF FileInv, SimInv
  <2>2. RRAT[2] \in Physical  BY <2>1 DEF Renamed, Architectural
  <2> QED  BY <1>2, <2>1, <2>2 DEF Words
<1>5. UNCHANGED <<FDT_filename, Fresh, files, <<stdoutFile, stderrFile>>, MAIN_MEMORY>>
  BY DEF Fall, table, outputs, Fresh
<1> QED  BY <1>1, <1>3, <1>4, <1>5 DEF Promise!Compute, Fresh

\* The prompt is no business of the files.
LEMMA LoopStutters ==
  ASSUME NoCall \/ Prompt \/ UNCHANGED vars
  PROVE  UNCHANGED PromiseVars
<1>1. UNCHANGED <<SYS, PReg, RRAT, MAIN_MEMORY, FDT_filename, FDT_state, files, stdoutFile, stderrFile>>
  BY DEF NoCall, Prompt, vars, processor, table, outputs
<1>2. Request' = Request  BY <1>1 DEF NoCall, Prompt, vars, Request
<1>3. Fresh' = Fresh  BY <1>1 DEF Fresh
<1> QED  BY <1>1, <1>2, <1>3 DEF PromiseVars

\* The table starts with the three names, and nothing was opened.
LEMMA PromiseStarts == Init => Promise!Init
<1> SUFFICES ASSUME Init PROVE Promise!Init  OBVIOUS
<1>1. /\ stage \in {"usage", "rise", "not loaded"} /\ FDT_filename = Reserved
      /\ FDT_state = <<0, 0, 0>> /\ files = <<>> /\ stdoutFile = <<>> /\ stderrFile = <<>>
  BY DEF Init
<1>2. Request = NoRequest  BY <1>1 DEF Request
<1>3. Len(FDT_filename) = 3  BY <1>1 DEF Reserved
<1>4. Fresh = {}
  <2>1. \A d \in 0 .. 2 : <<0, 0, 0>>[d + 1] = 0
    <3>1. <<0, 0, 0>>[1] = 0 /\ <<0, 0, 0>>[2] = 0 /\ <<0, 0, 0>>[3] = 0  OBVIOUS
    <3>2. \A d \in 0 .. 2 : d + 1 \in {1, 2, 3}  OBVIOUS
    <3> QED  BY <3>1, <3>2
  <2>2. \A d \in 0 .. 2 : FDT_state[d + 1] = 0  BY <1>1, <2>1, Zenon
  <2>3. 0 .. Len(FDT_filename) - 1 = 0 .. 2  BY <1>3
  <2> QED  BY <2>2, <2>3 DEF Fresh
<1>5. <<stdoutFile, stderrFile>> = [d \in {1, 2} |-> <<>>]
  <2>1. <<stdoutFile, stderrFile>> = << <<>>, <<>> >>  BY <1>1
  <2>2. << <<>>, <<>> >> = [d \in {1, 2} |-> <<>>]  OBVIOUS
  <2> QED  BY <2>1, <2>2
<1> QED  BY <1>1, <1>2, <1>3, <1>4, <1>5 DEF Promise!Init, NoRequest, Fresh

\* Every system call keeps the promise: what is opened is a new descriptor of
\* an empty file, what is written comes after what the file or console had,
\* what is read is the file without its line ends or a word of the terminal,
\* and no other call, instruction or prompt touches files, consoles or memory.
THEOREM FilesImplemented == Spec => ImplementsHostFiles
<1>1. Init => Promise!Init  BY PromiseStarts
<1>2. FileInv /\ [Next]_vars => [Promise!Next]_(Promise!vars)
  <2> SUFFICES ASSUME FileInv, [Next]_vars PROVE [Promise!Next]_(Promise!vars)  OBVIOUS
  <2>1. UNCHANGED PromiseVars => UNCHANGED Promise!vars  BY DEF PromiseVars, Promise!vars, Fresh
  <2>2. CASE NoCall \/ Prompt \/ UNCHANGED vars  BY <2>1, <2>2, LoopStutters
  <2>3. CASE Rise  BY <2>3, RiseRefines DEF Promise!Next
  <2>4. CASE Fall  BY <2>4, FallRefines DEF Promise!Next
  <2>5. CASE SystemCall /\ stage' # "prompt"  BY <2>1, <2>5, EndStutters
  <2>6. CASE SystemCall /\ stage' = "prompt"
    <3>1. ~Exit /\ ~Unimplemented /\ ~(Read /\ IsMissing(a0))
      BY <2>6 DEF Exit, Unimplemented, Read
    <3>2. CASE Open  BY <3>2, OpenRefines DEF Promise!Next
    <3>3. CASE Close  BY <3>3, CloseRefines DEF Promise!Next
    <3>4. CASE Write  BY <3>4, WriteRefines, WriteConsoleRefines DEF Promise!Next
    <3>5. CASE Read  BY <3>1, <3>5, ReadRefines, ReadTerminalRefines DEF Promise!Next
    <3>6. CASE Stat \/ Uname \/ Forwarded  BY <2>6, <3>6, OtherRefines DEF Promise!Next
    <3> QED  BY <2>6, <3>1, <3>2, <3>3, <3>4, <3>5, <3>6 DEF SystemCall
  <2> QED  BY <2>2, <2>3, <2>4, <2>5, <2>6 DEF Next
<1> QED  BY <1>1, <1>2, FileInvHolds, PTL DEF Spec, ImplementsHostFiles, Promise!Spec

=============================================================================
