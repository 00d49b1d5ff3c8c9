------------------------------- MODULE Loader -------------------------------
(***************************************************************************)
(* LoadOSMemoryELF of sm_elfload.cpp, the boot code main writes after it,  *)
(* and a processor that runs that code, whose instructions have to wait a  *)
(* number of instructions for a result.                                    *)
(***************************************************************************)
EXTENDS ElfReader, TextLoader

CONSTANTS
  Files,      \* what FILE_ARG may name: an executable, and what the host says
  Garbage,    \* what a variable that nothing has set may hold
  GSP,        \* 0xf7021fc0
  RESET,      \* 0xBFC00000
  BootPage,   \* the 0x100 bytes from there on
  Addresses,  \* of MAIN_MEMORY
  Delays      \* after how many instructions a processor's result can be used

ASSUME FilesAreWellFormed == \A f \in Files : WellFormed(f)

ASSUME DelaysAreCovered == Delays \subseteq 1 .. NOOP_LOOP + 1

\* The values of 32 bits, or a model of them.
Word == 0 .. HALFWORD * HALFWORD - 1

ASSUME FieldsAreWords ==
  /\ HALFWORD \in Nat \ {0} /\ GSP \in Word
  /\ \A f \in Files : /\ f.e_entry \in Word
                      /\ \A garbage \in Garbage : GlobalPointer(f, garbage) \in Word

\* Memory has every address that a file can name, and no program is linked
\* where main puts the boot code.
ASSUME ProgramsHavePlaces ==
  /\ {DEFAULT, DEFAULT_CXX} \subseteq Addresses
  /\ \A f \in Files : /\ f.e_entry \in Addresses \ BootPage /\ f.e_entry + 1 \in Addresses
                      /\ \A symbol \in Range(Symbols(f)) : symbol.value \in Addresses

\* The words of a section, of which the last may be a part of a word.
Groups(s) == s.sh_size + (IF s.rest > 0 THEN 1 ELSE 0)

\* What a section has in the file, and where the text loader puts it.
HasData(s) == s.sh_type \notin {"SHT_NULL", "SHT_NOBITS"} /\ Groups(s) > 0

Place(i, s) ==
  LET from == IF IsDebugging(i) THEN s.sh_offset ELSE s.sh_addr IN from .. from + s.sh_size - 1

\* Where a segment puts its words.
Covers(segment, a) == a \in segment.startAddress .. segment.startAddress + segment.lengthInFile - 1

\* Sound programs are linked: a section of the running program is in memory what it
\* is in the file, in a segment that has its words, or has none and is in no
\* segment; no other section that is read, and no argument, is put there.
ASSUME SectionsAreLinked ==
  \A f \in Files : \A i \in DOMAIN f.shdrs : HeaderError(f) = 0 /\ f.shdrs[i].alloc =>
    LET s == f.shdrs[i] IN
    /\ HasData(s) => i \in SectionsRead(FALSE) /\ ~IsDebugging(i)
    /\ \A a \in s.sh_addr .. s.sh_addr + Groups(s) - 1 :
         /\ a \in Addresses \ (GSP .. GSP + 5)
         /\ HasData(s) <=> \E k \in DOMAIN SegmentList(f) : Covers(SegmentList(f)[k], a)
         /\ \A k \in DOMAIN SegmentList(f) :
              Covers(SegmentList(f)[k], a) =>
                SegmentList(f)[k].offsetInFile + a - SegmentList(f)[k].startAddress
                  = s.sh_offset + a - s.sh_addr
         /\ \A j \in DOMAIN f.shdrs \cap SectionsRead(FALSE) :
              j # i /\ HasData(f.shdrs[j]) => a \notin Place(j, f.shdrs[j])

\* The boot code, of at most eight instructions with their nops.
ASSUME BootCodeHasPlace ==
  /\ NOOP_LOOP \in Nat /\ RESET \in Nat
  /\ RESET .. RESET + 8 * (NOOP_LOOP + 1) - 1 \subseteq BootPage /\ BootPage \subseteq Addresses

VARIABLES
  stage, rv,
  file, EMULATE_LLSC,
  exeFormat, syscalls,
  segment, redirect,      \* how many are done
  MAIN_MEMORY,
  delay, pc, npc, Reg,
  results                 \* of the last instructions, not to be used yet

vars == <<stage, rv, file, EMULATE_LLSC, exeFormat, syscalls, segment, redirect, MAIN_MEMORY,
          delay, pc, npc, Reg, results>>
processor == <<delay, pc, npc, Reg, results>>

\* (The address of another function in the line of __libc_open.)
PointersMixed ==
  [__uname |-> "UNAME", __libc_malloc |-> "LIBC_MALLOC", __cfree |-> "CFREE",
   __fxstat64 |-> "FXSTAT64", __mmap |-> "MMAP", __libc_write |-> "LIBC_WRITE",
   __munmap |-> "LIBC_WRITE", __libc_read |-> "LIBC_WRITE", __libc_open |-> "LIBC_WRITE",
   exchange_and_add |-> "CXX_EX_AND_ADD", atomic_add |-> "CXX_ATOMIC_ADD"]

\* Which address a function of the program sets.
function_pointers ==
  [__uname |-> "UNAME", __libc_malloc |-> "LIBC_MALLOC", __cfree |-> "CFREE",
   __fxstat64 |-> "FXSTAT64", __mmap |-> "MMAP", __libc_write |-> "LIBC_WRITE",
   __munmap |-> "LIBC_WRITE", __libc_read |-> "LIBC_WRITE", __libc_open |-> "LIBC_OPEN",
   exchange_and_add |-> "CXX_EX_AND_ADD", atomic_add |-> "CXX_ATOMIC_ADD"]

\* Opening, measuring and mapping the file may fail, and so may parse_elf.
LoadError ==
  CASE ~file.opens -> -1
    [] file.opens /\ ~file.measures -> -2
    [] file.opens /\ file.measures /\ ~file.maps -> -3
    [] OTHER -> HeaderError(file)

ParseFile ==
  /\ stage = "parse"
  /\ rv' = LoadError
  /\ IF LoadError # 0
     THEN stage' = "rejected" /\ UNCHANGED <<exeFormat, syscalls>>
     ELSE /\ stage' = "segments"
          /\ \E garbage \in Garbage : exeFormat' = parse_elf(file, garbage)
          /\ syscalls' = Assigned(init_syscalls, function_pointers, file)
  /\ UNCHANGED <<file, EMULATE_LLSC, segment, redirect, MAIN_MEMORY, processor>>

\* (Copied as far as they go in memory.)
CopiedToMemorySize(s) == [j \in 1 .. s.sizeInMemory |-> file.words[s.offsetInFile + j - 1]]

\* The words of a segment that are in the file.
Copied(s) == [j \in 1 .. s.lengthInFile |-> file.words[s.offsetInFile + j - 1]]

CopySegment ==
  /\ stage = "segments"
  /\ IF segment = Len(exeFormat.segmentList)
     THEN stage' = "redirects" /\ UNCHANGED <<segment, MAIN_MEMORY>>
     ELSE LET s == exeFormat.segmentList[segment + 1] IN
          /\ segment' = segment + 1
          /\ MAIN_MEMORY' = Filled(MAIN_MEMORY, s.startAddress, Copied(s))
          /\ UNCHANGED stage
  /\ UNCHANGED <<rv, file, EMULATE_LLSC, exeFormat, syscalls, redirect, processor>>

FillRedirect ==
  /\ stage = "redirects"
  /\ LET redirects == fill_syscall_redirects(EMULATE_LLSC) IN
     IF redirect = Len(redirects)
     THEN stage' = "vector" /\ UNCHANGED <<redirect, MAIN_MEMORY>>
     ELSE LET stub == redirects[redirect + 1] IN
          /\ redirect' = redirect + 1
          /\ MAIN_MEMORY' = Filled(MAIN_MEMORY, syscalls[stub[1]], stub[2])
          /\ UNCHANGED stage
  /\ UNCHANGED <<rv, file, EMULATE_LLSC, exeFormat, syscalls, segment, processor>>

Vector == write_initialization_vector(GSP, exeFormat.globalPointer, exeFormat.entryAddr)

WriteVector ==
  /\ stage = "vector" /\ stage' = "boot"
  /\ MAIN_MEMORY' = Filled(MAIN_MEMORY, RESET, Vector)
  /\ UNCHANGED <<rv, file, EMULATE_LLSC, exeFormat, syscalls, segment, redirect, processor>>

----------------------------------------------------------------------------
(* The processor.                                                          *)

NoResult == <<0, 0>>

Result(instruction) ==
  CASE instruction[1] = "lui" -> <<instruction[2], instruction[3] * HALFWORD>>
    [] instruction[1] = "ori" -> <<instruction[2], Reg[instruction[2]] + instruction[3]>>
    [] OTHER -> NoResult

\* A jump takes effect after the instruction that follows it.
Step ==
  /\ stage = "boot"
  /\ LET instruction == MAIN_MEMORY[pc]
         flight == Append(results, Result(instruction)) IN
     /\ pc' = npc
     /\ npc' = IF instruction[1] = "jr" THEN Reg[instruction[2]] ELSE npc + 1
     /\ IF Len(flight) < delay THEN results' = flight /\ UNCHANGED Reg
        ELSE /\ results' = Tail(flight)
             /\ Reg' = [r \in DOMAIN Reg |-> IF r = flight[1][1] THEN flight[1][2] ELSE Reg[r]]
  /\ stage' = IF npc \in BootPage THEN "boot" ELSE "running"
  /\ UNCHANGED <<rv, file, EMULATE_LLSC, exeFormat, syscalls, segment, redirect, MAIN_MEMORY, delay>>

Init ==
  /\ stage = "parse" /\ rv = 0
  /\ file \in Files /\ EMULATE_LLSC \in BOOLEAN
  /\ exeFormat = <<>> /\ syscalls = init_syscalls
  /\ segment = 0 /\ redirect = 0
  /\ MAIN_MEMORY = [a \in Addresses |-> NOP]
  /\ delay \in Delays /\ pc = RESET /\ npc = RESET + 1
  /\ Reg = [r \in {28, 29, 31} |-> 0] /\ results = <<>>

Next == ParseFile \/ CopySegment \/ FillRedirect \/ WriteVector \/ Step

\* main loads the file and then clocks the processor for as long as it runs.
Spec == Init /\ [][Next]_vars /\ WF_vars(Next)

----------------------------------------------------------------------------
(* Properties.                                                             *)

TypeOK ==
  /\ stage \in {"parse", "rejected", "segments", "redirects", "vector", "boot", "running"}
  /\ rv \in -10 .. 0 /\ (rv # 0 <=> stage = "rejected")
  /\ syscalls \in [Slots -> Addresses]
  /\ DOMAIN MAIN_MEMORY = Addresses
  /\ pc \in Addresses /\ npc \in Addresses
  /\ \A r \in DOMAIN Reg : Reg[r] \in Word
  /\ Len(results) < delay

\* A word of the program as it was linked: that of the last segment with it.
LinkedWord(a) ==
  LET list == SegmentList(file)
      covering == {i \in DOMAIN list :
                     a \in list[i].startAddress .. list[i].startAddress + list[i].lengthInFile - 1}
      last == list[Max(covering)]
  IN  IF covering = {} THEN NOP ELSE file.words[last.offsetInFile + a - last.startAddress]

\* The stubs that cover an address, with their slots.
StubsAt(a) ==
  {stub \in Range(fill_syscall_redirects(EMULATE_LLSC)) :
     a \in syscalls[stub[1]] .. syscalls[stub[1]] + Len(stub[2]) - 1}

\* When the program boots, memory holds the code at the reset address, the
\* stubs of the functions that were found, and elsewhere the program's
\* segments, clear where there is none; stubs of functions that the program
\* does not have lie at the end of memory, overlapping each other.
MemoryIsImage ==
  stage \in {"boot", "running"} =>
    \A a \in Addresses :
      MAIN_MEMORY[a] \in IF a \in RESET .. RESET + Len(Vector) - 1 THEN {Vector[a - RESET + 1]}
                         ELSE IF StubsAt(a) = {} THEN {LinkedWord(a)}
                         ELSE {stub[2][a - syscalls[stub[1]] + 1] : stub \in StubsAt(a)}

\* At the entry of the program, the stack and global pointers set.
AtEntry ==
  /\ pc = file.e_entry
  /\ Reg[29] = GSP /\ Reg[31] = file.e_entry
  /\ Reg[28] = IF exeFormat.globalPointer = NO_GP THEN 0 ELSE exeFormat.globalPointer

\* Whatever the processor's delay, it leaves the page in which main does not
\* look at the global pointer for nothing but the entry of the program, with
\* the pointers in their registers.
EntersAtEntry == stage = "running" => AtEntry

\* And the boot code ends.
BootReachesEntry == stage = "vector" ~> stage = "running" /\ AtEntry

\* The dump of a section, four words a line after a heading, and of the bytes
\* that are no whole word two digits each.
Heading == [heading |-> TRUE, address |-> [digits |-> 0, value |-> 0], words |-> <<>>, text |-> <<>>]

Line(s, from) ==
  LET count == IF Groups(s) - from < 4 THEN Groups(s) - from ELSE 4
      bytes == IF from + 4 <= s.sh_size THEN 16 ELSE 4 * (s.sh_size - from) + s.rest IN
  [heading |-> FALSE, address |-> [digits |-> 10, value |-> s.sh_addr + from],
   words |-> [w \in 1 .. count |->
                [digits |-> IF from + w <= s.sh_size THEN 8 ELSE 2 * s.rest,
                 value |-> file.words[s.sh_offset + from + w - 1]]],
   text |-> <<[digits |-> bytes, value |-> <<"text">>]>>]

Dump(s) == <<Heading>> \o [l \in 1 .. (Groups(s) + 3) \div 4 |-> Line(s, 4 * (l - 1))]

\* That of a section the program does not have: an address and no words.
NoDump == <<Heading, Line([sh_addr |-> 0, sh_offset |-> 0, sh_size |-> 0, rest |-> 0], 0)>>

Dumps ==
  [i \in 1 .. 32 |->
     IF i \in DOMAIN file.shdrs /\ HasData(file.shdrs[i])
     THEN WithSegmentOffset(i, file.shdrs[i].sh_offset, Dump(file.shdrs[i])) ELSE NoDump]

\* The older loader puts the whole words of a program's sections where the
\* segments put them, debugging sections having no place in memory.  The bytes
\* after the last whole word are where the loaders differ (sm_txtload.cpp:166):
\* the older one leaves them clear.
TextLoaderAgrees ==
  stage = "redirects" /\ redirect = 0 =>
    LET memory == LoadOSMemoryTXT([b \in Addresses |-> NOP], GSP, Dumps, FALSE) IN
    \A s \in {x \in Range(file.shdrs) : x.alloc} :
      \A a \in s.sh_addr .. s.sh_addr + Groups(s) - 1 :
        memory[a] = IF a < s.sh_addr + s.sh_size THEN MAIN_MEMORY[a] ELSE NOP

\* The labels of the program's functions, as an objdump lists them.
Listing ==
  LET functions == SelectSeq(Symbols(file), LAMBDA s : s.type = "STT_FUNC") IN
  [i \in DOMAIN functions |-> [address |-> functions[i].value, name |-> functions[i].name]]

\* Lines 93, 94 and 96 of sm_elfload.cpp give these the address of one.
Mixed == {"__libc_write", "__munmap", "__libc_read"}

\* The lookup that sm_elfload.cpp keeps as a comment (lines 63 to 80): a
\* function that both loaders redirect is redirected to its own call.  Of the
\* three that the table mixes up, the last in the symbol table is replaced by
\* the call of write, and the calls of munmap and read replace nothing.
RedirectsAsListed ==
  stage = "redirects" =>
    /\ \A name \in (DOMAIN Tags \cap DOMAIN function_pointers) \ Mixed :
         syscalls[Tags[name]] = functionBypass(init_syscalls, Listing)[Tags[name]]
    /\ LET last == SelectLastInSeq(Listing, LAMBDA line : line.name \in Mixed) IN
       last # 0 => syscalls["LIBC_WRITE"] = Listing[last].address
    /\ \A slot \in {"MUNMAP", "LIBC_READ"} : syscalls[slot] = init_syscalls[slot]

=============================================================================
