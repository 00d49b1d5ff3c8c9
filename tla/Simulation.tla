----------------------------- MODULE Simulation -----------------------------
(***************************************************************************)
(* The main loop of sim_main.cpp around a processor: options, breakpoints  *)
(* and single steps, and the system calls it answers by reading and        *)
(* writing the processor's registers, the memory and the host's files.     *)
(* The processor is whatever raises SYS; the memory ports and the block    *)
(* requests of the same loop are in MemoryPort and CacheSystem.            *)
(***************************************************************************)
EXTENDS Integers, SequencesExt, FiniteSetsExt

CONSTANTS
  CommandLines,    \* [options, operands], options being <<letter, value>>s
  Loadable,        \* the files LoadOSMemoryELF accepts
  Word,            \* [instruction address -> "legal", "mfcz" or "lwcz"]
  TEXT_START,      \* 0x400000
  BootPage,        \* the instruction addresses from 0xBFC00000 on
  START,           \* the address of the first instruction fetched
  Cycles,          \* what the processor does in a cycle: [address, SYS, Reg, RRAT]
  Renamings,       \* what RRAT may be; the in-order processors have identity
  Addresses,       \* of MAIN_MEMORY that has the program's strings and buffers
  Images,          \* what they hold at first: bytes
  Terminals,       \* what is typed: lines, which are sequences of words
  Number(_),       \* what strtol makes of a line
  Quits,           \* the lines "exit" and "q"
  Creatable(_),    \* the names the host can create a file of
  HostAnswers,     \* what the host's own system calls and the heap return
  READLIMIT,       \* 70
  CONTINUED,       \* 1000000, the cycle up to which a session is continued
  MAXCLOCK         \* bound: cycles of a session

VARIABLES
  stage,           \* how far an iteration is, or why the program has ended
  CLOCK_COUNTER, duration, BREAKPOINT, SINGLE_STEP_QUIT,
  nextInstructionAddr, SYS, PReg, RRAT,
  MAIN_MEMORY,
  stack,           \* the words that were stored above the stack pointer
  FDT_filename, FDT_state, FileDescriptorIndex,
  files,           \* [name -> contents], what the host's directory holds
  stdoutFile, stderrFile,
  cin              \* what is left of the lines typed

settings  == <<BREAKPOINT, SINGLE_STEP_QUIT>>
processor == <<nextInstructionAddr, SYS, RRAT>>
table     == <<FDT_filename, FDT_state, FileDescriptorIndex>>
outputs   == <<files, stdoutFile, stderrFile>>

vars == <<stage, CLOCK_COUNTER, duration, settings, processor, PReg, MAIN_MEMORY, stack,
          table, outputs, cin>>

NUL == 0
NEWLINE == 10
Architectural == {2, 4, 5, 6, 28}

\* No physical register holds two of the program's registers.
ASSUME RenamingsAreInjective ==
  /\ [r \in Architectural |-> r] \in Renamings
  /\ \A map \in Renamings :
       map \in [Architectural -> Nat] /\ \A i, j \in Architectural : map[i] = map[j] => i = j

ASSUME CyclesAreRenamed == \A cycle \in Cycles : cycle.RRAT \in Renamings

\* Registers, addresses and answers are words; text is typed.
ASSUME WordsAreNumbers ==
  /\ \A cycle \in Cycles : cycle.Reg \in [Architectural -> Nat]
  /\ Addresses \subseteq Nat /\ HostAnswers \subseteq Nat /\ READLIMIT \in Nat
  /\ Terminals \subseteq Seq(Seq(Seq(Int)))

ASSUME CyclesAreCounted == MAXCLOCK \in Nat /\ CONTINUED \in Int
Ends == {"usage", "not loaded", "illegal", "exit", "killed", "crashed", "hung",
         "unimplemented", "quit"}

\* The names "stdin", "stdout" and "stderr".
Reserved == << <<-1>>, <<-2>>, <<-3>> >>

----------------------------------------------------------------------------
(* Options, the last of a kind counting.                                   *)

Defaults ==
  [FILE_ARG |-> "", duration |-> 1, BREAKPOINT |-> -1, SINGLE_STEP_QUIT |-> 0, exits |-> FALSE]

WithOption(s, option) ==
  CASE s.exits -> s
    [] option[1] = "h" -> [s EXCEPT !.exits = TRUE]
    [] option[1] = "f" -> [s EXCEPT !.FILE_ARG = option[2]]
    [] option[1] = "d" -> [s EXCEPT !.duration = option[2]]
    [] option[1] = "b" -> [s EXCEPT !.BREAKPOINT = option[2]]
    [] option[1] = "q" -> [s EXCEPT !.SINGLE_STEP_QUIT = option[2]]
    [] OTHER -> s

readcommandline(argv) ==
  LET s == FoldLeft(WithOption, Defaults, argv.options)
      n == Len(argv.operands) IN
  IF argv.options = <<>> /\ n \in {1, 2}
  THEN [s EXCEPT !.FILE_ARG = argv.operands[1],
                 !.duration = IF n = 2 THEN argv.operands[2] ELSE @]
  ELSE [s EXCEPT !.exits = @ \/ s.FILE_ARG = ""]

\* What atoi makes of the text of an option is a number.
ASSUME DurationsAreNumbers ==
  \A argv \in CommandLines : readcommandline(argv).duration \in Int

----------------------------------------------------------------------------
(* Registers.                                                              *)

register_arch_to_phys(regno) == RRAT[regno]

read_register(regno) == IF regno = 0 THEN 0 ELSE PReg[register_arch_to_phys(regno)]

\* (A physical register taken for the architectural one.)
WriteUnrenamed(regno, value) == [PReg EXCEPT ![regno] = value]

\* The registers after write_register(regno, value).
write_register(regno, value) == [PReg EXCEPT ![register_arch_to_phys(regno)] = value]

\* Registers 4 and 5 take their successors' values (stat, fstat).
Shifted(answer) ==
  [PReg EXCEPT ![RRAT[4]] = read_register(5), ![RRAT[5]] = read_register(6), ![RRAT[2]] = answer]

----------------------------------------------------------------------------
(* The words that fxstat64 and sm_uname store, by their distance from sp.  *)

fxstat64 ==
  32 :> 9 @@ 48 :> 0 @@ 52 :> 2 @@ 56 :> 8592 @@ 60 :> 1 @@ 64 :> 8115 @@ 68 :> 5 @@
  72 :> 34816 @@ 88 :> 0 @@ 92 :> 0 @@ 120 :> 1024 @@ 128 :> 0 @@ 132 :> 0

\* (The first character least significant.)
TextReversed(a, b, c, d) == <<d, c, b, a>>

\* Four characters of a word.
Text(a, b, c, d) == <<a, b, c, d>>

sm_uname ==
   88 :> Text("S", "e", "s", "c") @@  92 :> Text("L", "i", "n", "u") @@
   96 :> Text("x", "", "", "")    @@ 152 :> Text("", "s", "e", "s") @@
  156 :> Text("c", "", "", "")    @@ 216 :> Text("", "", "2", ".") @@
  220 :> Text("4", ".", "1", "8") @@ 280 :> Text("", "", "", "#") @@
  284 :> Text("1", " ", "S", "M") @@ 288 :> Text("P", " ", "T", "u") @@
  292 :> Text("e", " ", "J", "u") @@ 296 :> Text("n", " ", "4", " ") @@
  300 :> Text("1", "6", ":", "0") @@ 304 :> Text("5", ":", "2", "9") @@
  308 :> Text(" ", "C", "D", "T") @@ 312 :> Text(" ", "2", "0", "0") @@
  316 :> Text("2", "", "", "")    @@ 348 :> Text("m", "i", "p", "s")

----------------------------------------------------------------------------
(* What a program reads and prints.                                        *)

\* A word of the terminal is taken from its first line that has one, what is
\* left of that line staying.
Typed == SelectInSeq(cin, LAMBDA line : line # <<>>)
TypedWord == IF Typed = 0 THEN <<>> ELSE Head(cin[Typed])
TypedRest == IF Typed = 0 THEN <<>>
             ELSE <<Tail(cin[Typed])>> \o SubSeq(cin, Typed + 1, Len(cin))

\* A file's lines are put together without their ends.
FileInput(name) ==
  LET text == files[name]
      read[i \in 0 .. Len(text)] ==
        IF i = 0 THEN <<>>
        ELSE IF text[i] = NEWLINE THEN read[i - 1] ELSE Append(read[i - 1], text[i])
  IN  read[Len(text)]

WithNewline(input) ==
  IF Len(input) > READLIMIT THEN InsertAt(input, READLIMIT + 1, NEWLINE) ELSE input

IsMissing(d) == d # 0 /\ FDT_filename[d + 1] \notin DOMAIN files

Input(d) == WithNewline(IF d = 0 THEN TypedWord ELSE FileInput(FDT_filename[d + 1]))

\* What programs ask for: descriptors that they were given, buffers that have
\* room for what is read, and strings that end.
IsCall(number, r4, r5) ==
  /\ number \in {4003, 4004, 4006} => r4 \in 0 .. Len(FDT_filename) - 1
  /\ number = 4003 /\ ~IsMissing(r4) => r5 .. r5 + Len(Input(r4)) \subseteq Addresses
  /\ number = 4004 /\ r4 \in {1, 2} => \E i \in Addresses : i >= r5 /\ MAIN_MEMORY[i] = NUL

----------------------------------------------------------------------------
(* The loop.  An odd iteration ends with the rising edge of the clock.     *)

\* The two words at the address fetched are checked in every iteration.
Illegal ==
  \E a \in {nextInstructionAddr, nextInstructionAddr + 1} : Word[a] \in {"mfcz", "lwcz"}

\* The processor runs up to the next rising edge.
Rise ==
  /\ stage = "rise"
  /\ IF Illegal
     THEN stage' = "illegal" /\ UNCHANGED <<processor, PReg>>
     ELSE \E cycle \in Cycles :
            /\ stage' = "fall"
            /\ cycle.SYS = 1 => IsCall(cycle.Reg[2], cycle.Reg[4], cycle.Reg[5])
            /\ nextInstructionAddr' = cycle.address /\ SYS' = cycle.SYS
            /\ RRAT' = cycle.RRAT
            /\ PReg' = [p \in DOMAIN PReg |->
                          IF \E r \in Architectural : RRAT'[r] = p
                          THEN cycle.Reg[CHOOSE r \in Architectural : RRAT'[r] = p]
                          ELSE PReg[p]]
  /\ UNCHANGED <<CLOCK_COUNTER, duration, settings, MAIN_MEMORY, stack, table, outputs, cin>>

\* (The global pointer compared before there is one.)
StopsInBoot(clock) ==
  \/ BREAKPOINT = nextInstructionAddr
  \/ nextInstructionAddr < TEXT_START /\ clock > 1
  \/ nextInstructionAddr \in BootPage /\ read_register(28) = 0

StopsAt(clock) ==
  \/ BREAKPOINT = nextInstructionAddr
  \/ nextInstructionAddr < TEXT_START /\ clock > 1
  \/ nextInstructionAddr \notin BootPage /\ read_register(28) = 0

\* The cycle is counted, and stops the run at the breakpoint, near address 0
\* or when the global pointer is 0 outside the boot page.
Fall ==
  /\ stage = "fall" /\ CLOCK_COUNTER < MAXCLOCK
  /\ IF Illegal
     THEN stage' = "illegal" /\ UNCHANGED <<CLOCK_COUNTER, duration>>
     ELSE /\ stage' = "syscall"
          /\ CLOCK_COUNTER' = CLOCK_COUNTER + 1
          /\ duration' = IF StopsAt(CLOCK_COUNTER + 1) THEN CLOCK_COUNTER + 1 ELSE duration
  /\ UNCHANGED <<settings, processor, PReg, MAIN_MEMORY, stack, table, outputs, cin>>

NoCall ==
  /\ stage = "syscall" /\ SYS = 0 /\ stage' = "prompt"
  /\ UNCHANGED <<CLOCK_COUNTER, duration, settings, processor, PReg, MAIN_MEMORY, stack, table,
                 outputs, cin>>

\* (Any line continues.)
ContinuesAlways(input) == TRUE

Continues(input) == input # <<>>

\* At the end of a cycle in single steps the next line of the terminal is
\* read: it ends the program, is an address to continue to, or is empty.
Prompt ==
  /\ stage = "prompt"
  /\ IF CLOCK_COUNTER < duration
     THEN stage' = "rise" /\ UNCHANGED <<duration, BREAKPOINT, cin>>
     ELSE LET input == IF cin = <<>> THEN <<>> ELSE Head(cin) IN
          /\ cin' = IF cin = <<>> THEN cin ELSE Tail(cin)
          /\ IF SINGLE_STEP_QUIT # 0 \/ input \in Quits
             THEN stage' = "quit" /\ UNCHANGED <<duration, BREAKPOINT>>
             ELSE /\ stage' = "rise"
                  /\ IF Continues(input)
                     THEN BREAKPOINT' = Number(input) /\ duration' = CONTINUED
                     ELSE UNCHANGED <<duration, BREAKPOINT>>
  /\ UNCHANGED <<CLOCK_COUNTER, SINGLE_STEP_QUIT, processor, PReg, MAIN_MEMORY, stack, table,
                 outputs>>

----------------------------------------------------------------------------
(* The system calls, by the number in register 2.                          *)

Call(numbers) == stage = "syscall" /\ SYS = 1 /\ read_register(2) \in numbers

a0 == read_register(4)
a1 == read_register(5)
a2 == read_register(6)

Exit ==
  /\ Call({4001, 4246}) /\ stage' = "exit"
  /\ UNCHANGED <<CLOCK_COUNTER, duration, settings, processor, PReg, MAIN_MEMORY, stack, table,
                 outputs, cin>>

\* The characters are stored, and a line end after them.
Stored(memory, addr, input) ==
  [i \in Addresses |-> IF i \in addr .. addr + Len(input) - 1 THEN input[i - addr + 1]
                           ELSE IF i = addr + Len(input) THEN NEWLINE ELSE memory[i]]

\* A file that is not there is read forever.
Read ==
  /\ Call({4003})
  /\ IF IsMissing(a0)
     THEN stage' = "hung" /\ UNCHANGED <<MAIN_MEMORY, PReg, FDT_state, cin>>
     ELSE /\ stage' = "prompt"
          /\ MAIN_MEMORY' = Stored(MAIN_MEMORY, a1, Input(a0))
          /\ PReg' = write_register(2, IF a0 = 0 \/ FDT_state[a0 + 1] # 0 THEN Len(Input(a0)) + 1
                                       ELSE 0)
          /\ FDT_state' = [FDT_state EXCEPT ![a0 + 1] = 0]
          /\ cin' = IF a0 = 0 THEN TypedRest ELSE cin
  /\ UNCHANGED <<CLOCK_COUNTER, duration, settings, processor, stack, FDT_filename,
                 FileDescriptorIndex, outputs>>

\* The characters from k on that come before a NUL.
StringAt(k) ==
  LET end == Min({i \in Addresses : i >= k /\ MAIN_MEMORY[i] = NUL}) IN
  [i \in 1 .. end - k |-> MAIN_MEMORY[k + i - 1]]

\* Descriptors 1 and 2 get a string, cut at the length unless that is 0.
Printed == IF a2 = 0 THEN StringAt(a1) ELSE SubSeq(StringAt(a1), 1, Min({a2, Len(StringAt(a1))}))

Appended == [i \in 1 .. a2 |-> MAIN_MEMORY[a1 + i - 1]]

\* The directory when a file was given what it had and the text.
WithFile(name, had, text) ==
  [n \in DOMAIN files \cup {name} |-> IF n = name THEN had \o text ELSE files[n]]

\* (Every name taken for a file's.)
AppendingAnywhere(name, had, text) == WithFile(name, had, text)

\* The directory after a file was opened, which creates it if the name can be
\* a file's, and written.
Appending(name, had, text) == IF Creatable(name) THEN WithFile(name, had, text) ELSE files

Write ==
  /\ Call({4004}) /\ stage' = "prompt"
  /\ IF a0 \in {1, 2}
     THEN /\ stdoutFile' = IF a0 = 1 THEN stdoutFile \o Printed ELSE stdoutFile
          /\ stderrFile' = IF a0 = 2 THEN stderrFile \o Printed ELSE stderrFile
          /\ PReg' = write_register(2, Len(Printed))
          /\ UNCHANGED files
     ELSE LET name == FDT_filename[a0 + 1] IN
          /\ files' = Appending(name, IF name \in DOMAIN files THEN files[name] ELSE <<>>, Appended)
          /\ PReg' = write_register(2, a2)
          /\ UNCHANGED <<stdoutFile, stderrFile>>
  /\ UNCHANGED <<CLOCK_COUNTER, duration, settings, processor, MAIN_MEMORY, stack, table, cin>>

\* Opening a file empties it, and stops the run.
Open ==
  /\ Call({4005}) /\ stage' = "prompt"
  /\ FDT_filename' = Append(FDT_filename, StringAt(a0))
  /\ FDT_state' = Append(FDT_state, 1)
  /\ PReg' = write_register(2, FileDescriptorIndex)
  /\ FileDescriptorIndex' = FileDescriptorIndex + 1
  /\ files' = Appending(StringAt(a0), <<>>, <<>>)
  /\ duration' = CLOCK_COUNTER
  /\ UNCHANGED <<CLOCK_COUNTER, settings, processor, MAIN_MEMORY, stack, stdoutFile, stderrFile, cin>>

Close ==
  /\ Call({4006}) /\ stage' = "prompt"
  /\ FDT_state' = [FDT_state EXCEPT ![a0 + 1] = 0]
  /\ PReg' = write_register(2, 0)
  /\ UNCHANGED <<CLOCK_COUNTER, duration, settings, processor, MAIN_MEMORY, stack, FDT_filename,
                 FileDescriptorIndex, outputs, cin>>

\* The pointer that was moved to register 4 is the index of stat's name: the
\* build may read anything past the end of the table.
Stat ==
  /\ Call({4018, 4028})
  /\ \/ /\ stage' = "prompt"
        /\ \E answer \in HostAnswers : PReg' = Shifted(answer)
        /\ stack' = fxstat64 @@ stack
     \/ /\ read_register(2) = 4018 /\ a1 >= Len(FDT_filename)
        /\ stage' = "crashed" /\ UNCHANGED <<PReg, stack>>
  /\ UNCHANGED <<CLOCK_COUNTER, duration, settings, processor, MAIN_MEMORY, table, outputs, cin>>

Uname ==
  /\ Call({4122}) /\ stage' = "prompt"
  /\ stack' = sm_uname @@ stack
  /\ PReg' = write_register(2, 0)
  /\ UNCHANGED <<CLOCK_COUNTER, duration, settings, processor, MAIN_MEMORY, table, outputs, cin>>

\* Calls answered by the host, which may be asked to end the simulator, and
\* by the heap, which ends it when its memory is used up and when memory is
\* freed that is not allocated, but for address 0.
HostCalls == {4020, 4024, 4037, 4047, 4049, 4050, 4064, 4065, 4076, 4077, 4078, 4132}
HeapCalls == {4045, 4090, 4091, 4555}

Forwarded ==
  /\ Call(HostCalls \cup HeapCalls)
  /\ \/ /\ stage' = "prompt"
        /\ IF read_register(2) = 4091 THEN UNCHANGED PReg
           ELSE \E answer \in HostAnswers : PReg' = write_register(2, answer)
     \/ /\ \/ read_register(2) \in {4037, 4045, 4090, 4555}
           \/ read_register(2) = 4091 /\ a0 # 0
        /\ stage' = "killed" /\ UNCHANGED PReg
  /\ UNCHANGED <<CLOCK_COUNTER, duration, settings, processor, MAIN_MEMORY, stack, table, outputs,
                 cin>>

Implemented == {4001, 4246, 4003, 4004, 4005, 4006, 4018, 4028, 4122} \cup HostCalls \cup HeapCalls

Unimplemented ==
  /\ stage = "syscall" /\ SYS = 1 /\ read_register(2) \notin Implemented
  /\ stage' = "unimplemented"
  /\ UNCHANGED <<CLOCK_COUNTER, duration, settings, processor, PReg, MAIN_MEMORY, stack, table,
                 outputs, cin>>

----------------------------------------------------------------------------

Init ==
  \E argv \in CommandLines :
    LET s == readcommandline(argv) IN
    /\ stage = IF s.exits THEN "usage" ELSE IF s.FILE_ARG \in Loadable THEN "rise" ELSE "not loaded"
    /\ CLOCK_COUNTER = 0 /\ duration = s.duration
    /\ BREAKPOINT = s.BREAKPOINT /\ SINGLE_STEP_QUIT = s.SINGLE_STEP_QUIT
    /\ nextInstructionAddr = START /\ SYS = 0
    /\ RRAT = [r \in Architectural |-> r] /\ PReg = [p \in UNION {Range(r) : r \in Renamings} |-> 0]
    /\ MAIN_MEMORY \in Images /\ stack = <<>>
    /\ FDT_filename = Reserved /\ FDT_state = <<0, 0, 0>> /\ FileDescriptorIndex = 3
    /\ files = <<>> /\ stdoutFile = <<>> /\ stderrFile = <<>>
    /\ cin \in Terminals

SystemCall ==
  \/ Exit \/ Read \/ Write \/ Open \/ Close \/ Stat \/ Uname \/ Forwarded \/ Unimplemented

Next == Rise \/ Fall \/ NoCall \/ SystemCall \/ Prompt

Spec == Init /\ [][Next]_vars

----------------------------------------------------------------------------
(* Properties.                                                             *)

TypeOK ==
  /\ stage \in {"rise", "fall", "syscall", "prompt"} \cup Ends
  /\ CLOCK_COUNTER \in 0 .. MAXCLOCK
  /\ RRAT \in Renamings /\ \A i, j \in Architectural : RRAT[i] = RRAT[j] => i = j
  /\ FileDescriptorIndex = Len(FDT_filename) /\ Len(FDT_state) = Len(FDT_filename)
  /\ FDT_state \in Seq({0, 1})
  /\ \A name \in DOMAIN files : Creatable(name)

\* Whatever happened in the cycle, the program does not run on past the
\* breakpoint, near address 0, or without a global pointer.
NoStopMissed ==
  /\ stage = "prompt"
  /\ \/ nextInstructionAddr = BREAKPOINT
     \/ nextInstructionAddr < TEXT_START /\ CLOCK_COUNTER > 1
     \/ nextInstructionAddr \notin BootPage /\ read_register(28) = 0
  => CLOCK_COUNTER >= duration

\* Once in single steps, the program runs on only when a line that is not
\* empty has been typed at the prompt: no system call resumes it.
OnlyLinesResume ==
  [][CLOCK_COUNTER >= duration /\ CLOCK_COUNTER' < duration'
       => stage = "prompt" /\ cin # <<>> /\ Head(cin) # <<>>]_vars

\* The bytes of the stack from a distance on, a NUL being "", and "left" a
\* byte that stays as the program left it.
Field(at, length) ==
  [i \in 1 .. length |->
     LET b == at + i - 1
     IN  IF b - (b % 4) \in DOMAIN stack THEN stack[b - (b % 4)][(b % 4) + 1] ELSE "left"]

\* The fields of a utsname, 65 bytes each from 88 on, hold the strings that
\* the comment in sm_uname lists, whatever stat or fstat stored before.  The
\* NULs behind "2.4.18", at 224, and "mips", at 352, are not stored.
UnameFields ==
  [][Uname =>
       /\ Field(88, 10)' = <<"S", "e", "s", "c", "L", "i", "n", "u", "x", "">>
       /\ Field(153, 5)' = <<"s", "e", "s", "c", "">>
       /\ Field(218, 6)' = <<"2", ".", "4", ".", "1", "8">>
       /\ Field(283, 35)' =
            <<"#", "1", " ", "S", "M", "P", " ", "T", "u", "e", " ", "J", "u", "n", " ", "4", " ",
              "1", "6", ":", "0", "5", ":", "2", "9", " ", "C", "D", "T", " ", "2", "0", "0", "2", "">>
       /\ Field(348, 4)' = <<"m", "i", "p", "s">>]_vars

\* The call, from the physical registers that the program's map names.
NoRequest == <<>>
Request ==
  IF SYS = 1 /\ stage \in {"syscall", "exit", "killed", "crashed", "hung", "unimplemented"}
  THEN <<PReg[RRAT[2]], PReg[RRAT[4]], PReg[RRAT[5]], PReg[RRAT[6]]>> ELSE NoRequest

Promise ==
  INSTANCE HostFiles WITH
    Answers <- Int, request <- Request,
    names <- FDT_filename, fresh <- {d \in 0 .. Len(FDT_filename) - 1 : FDT_state[d + 1] = 1},
    console <- <<stdoutFile, stderrFile>>, memory <- MAIN_MEMORY,
    result <- PReg[RRAT[2]]

\* Every step of the program and every call, whichever registers the renaming
\* has in use, does one of the things that are promised of the files.
ImplementsHostFiles == Promise!Spec

=============================================================================
