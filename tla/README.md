# Verification of the MIPS projects

TLA+ models, TLC runs and TLAPS proofs for the processors and the simulator of
this repository. Paths are relative to `src/`; `P3` stands for
`ece401-project3`, `P2` for `ece401-project 2`, `P1` for `ece401-project 1`.

Contents: [the system](#the-system) · [modules](#modules) ·
[the cache system](#the-cache-system) · [fetch](#fetch) · [the heap](#the-heap) ·
[the memory port](#the-memory-port) · [a simulation](#a-simulation) ·
[loading and booting](#loading-and-booting) ·
[the pipeline of project 2](#the-pipeline-of-project-2) · [runs](#runs) · [proofs](#proofs) · [findings](#findings) ·
[what is not modelled](#what-is-not-modelled) · [plan](#plan)

## The system

Three course processors in Verilog, each a MIPS subset, and a C++ program
(`P3/sim_main`) that drives the Verilator build of one of them: it loads a
program, toggles the clock, plays main memory and executes system calls for the
simulated program.

| component | state | operations | what makes it correct |
|---|---|---|---|
| cache (`P3/verilog/Cache.v`), instruction and data instance | line store (data, tag, age, dirty, valid, incoming), the miss in progress, flush scan, memory wires | falling edge: lookup, hit, miss, flush; rising edge: writeback done, fill, stream-in countdown | one copy of a block; a dirty line reaches memory before it is replaced; reads return the last write; a flush leaves nothing behind; every request ends |
| simulator memory (`sim_main.cpp`, `sm_memory.cpp`) | main memory, one timing automaton per cache | block read, block write, the single-word port, byte-order conversions | answers belong to the request on the wires; loads and stores mean what MIPS says, whatever their alignment |
| main loop and system calls (`sim_main.cpp`, `sm_syscalls.cpp`, `sm_regfile.cpp`) | cycle counter, stop cycle, breakpoint, descriptor table, the host's files, registers through the retirement map | options, run, stop, prompt, one system call per `SYS` | stops are not lost; calls answer the program in the registers it named; files and consoles hold what was written |
| loaders (`sm_elfload.cpp`, `sm_txtload.cpp`, `elf/`) | the parsed executable, addresses of redirected functions, memory | parse, copy segments, redirect functions, write boot code | memory is the linked image; redirects go to the function named; the boot code reaches the entry |
| fetch (`P3/verilog/IF.v`) | next PC, instruction handed on | fetch, stall, redirect | the instruction is the one at its address; a redirect is not lost |
| heap (`sm_heap.cpp`) | block number per address, heap end, break | malloc, mmap, munmap, brk | blocks whole, apart, aligned; room is found when there is some |
| reorder buffer, retirement (`ROB.v`, `RetireCommit.v`) | ring of 64 entries, executed marks, flush | enter, execute, commit, redirect, flush | commits in order, each entry once; nothing past a redirect survives |
| load/store queue (`LoadStoreQ.v`) | ring, ready and address marks | enter, address, allow, issue, flush | each operation issued once and only when allowed |
| FIFOs (`IF_ID_FIFO.v`, `ID_RENAME_FIFO.v`) | eight entries, head, tail | push, pop, flush | first in first out, nothing lost or repeated at the limits |
| rename (`Rename.v`, `RAT.v`, `FreeList.v`) | speculative and retired maps, free list | map, free, recover | a physical register has one owner |
| issue (`Issue_Queue*.v`, `Wakeup_Select.v`, `Select_Vacancy.v`, `BusyBits.v`), register read (`PhysReg.v`, `RegRead.v`) | waiting instructions, ready bits | insert, wake, select | one grant; operands ready; every entry is chosen in the end |
| decode, execute, memory stages of project 3 | pipeline registers | compute, align | ISA semantics |
| five-stage pipeline of project 2 (`P2/*.v`) | pipeline registers, stall, bubble and delay-slot flags, register file, bypasses | five stages per clock | the program's sequential meaning with branch delay slots |
| caches of project 2 (`instr_cache.v`, `data_cache.v`) | lines, tags, stall counters | lookup, fill, write back | as above |
| five-stage pipeline of project 1 | as project 2 without caches | | as above |
| cells of `ece405-project 2` | voltages | | analog |

How they interact: in one turn of the loop of `sim_main.cpp` (566-572) the program
first looks at the wires the processor's caches left at the last rising edge and
puts block data and valid bits on its inputs, then evaluates the falling edge,
then the rising edge. The caches look a request up at the falling edge; the
pipeline stages read the answer and change their requests at the rising edge.
When a system call reaches decode the pipeline drains, asks the data cache
to flush, and raises `SYS`; the simulator then reads and writes main memory directly.

Hard behaviours: a miss spans several turns and is looked up afresh in each of
them while a transfer is in flight; stores and refills race with evictions; a
flush stops at each dirty line and resumes; answers arrive late and can meet a
changed request (fetch redirects); rings and queues at their limits after a wrap;
two steps of one edge that write the same flag; stalls of one stage meeting
bubbles or redirects of another. `PROJECT.json` lists them as hazards, each at
its line with the properties that guard it.

## Modules

| module | models | |
|---|---|---|
| `CacheGeometry` | address fields, lines, requests, what a store means | constants and assumptions |
| `Cache` | `P3/verilog/Cache.v`, both edges | component |
| `BlockMemory` | main memory and the block transfers of `sim_main.cpp` | component |
| `CacheSystem` | a cache, memory, its client and `SYS`; invariants, refinement, liveness | composition |
| `SequentialMemory` | what cache and memory promise together | abstract specification |
| `Fetch` | `P3/verilog/IF.v` with the instruction cache and memory | composition |
| `Heap` | `sm_heap.cpp` and the system calls that reach it | component |
| `Allocator` | what the heap promises the program | abstract specification |
| `MainMemory` | the reading and writing functions of `sm_memory.cpp` | operators |
| `MemoryPort` | `P2/MEM.v`'s alignment and the single-word port of `sim_main.cpp` | composition |
| `MipsMemory` | what loads and stores mean, a byte at a time | abstract specification |
| `Simulation` | options, the loop, stops, prompt and system calls of `sim_main.cpp`; `sm_regfile.cpp`, `sm_syscalls.cpp` | component |
| `HostFiles` | what the file calls promise the program | abstract specification |
| `ElfReader` | `elf/elf_reader.cpp` and the headers it reads by | operators |
| `SyscallStubs` | the redirected functions and the boot code of `sm_syscalls.cpp` | operators |
| `TextLoader` | `sm_txtload.cpp` | operators |
| `Loader` | `sm_elfload.cpp` in `main`, then a processor that runs the boot code | composition |
| `Pipeline` | the control of `P2/IF.v`, `ID.v`, `EXE.v`, `MEM.v` | component |
| `Forwarding` | the bypasses, operands and register file of the same stages, with `RegValue1.v` to `RegValue3.v` | composition with `Pipeline` |
| `ProgramOrder` | decoding and finishing in program order | abstract specification |
| `MCCache`, `MCFetch`, `MCMemoryPort`, `MCSimulation`, `MCLoader`, `MCPipeline` | the small sets TLC uses: requests, images, sessions, executables, programs | model checking |
| `CacheProofs`, `CacheCoherence`, `CacheRefinement` | proofs about `CacheSystem` | TLAPS |
| `HeapProofs` | proofs about `Heap` | TLAPS |
| `PipelineProofs` | proofs about `Pipeline` and `Forwarding` | TLAPS |
| `MemoryPortProofs` | proofs about `MemoryPort` and the operators of `MainMemory` | TLAPS |
| `SimulationProofs` | proofs about `Simulation` | TLAPS |
| `LoaderProofs` | proofs about `Loader`, `ElfReader`, `SyscallStubs` and `TextLoader` | TLAPS |

Names follow the source: a variable or operator has the name of the register,
wire or function it models where TLA+ allows it. `PROJECT.json` "map" gives the
lines of each definition. Operators whose comment says that they do something
less than the code (for example "A store that does not mark its line dirty") are
the variants used to test that a property can fail; nothing else refers to them.

## The cache system

**State.** `Cache` has one variable per register of `Cache.v`. A line number is
the pair `<<index, way>>` for the concatenation `{index, way}`, a line-aligned
address the pair `<<tag, index>>`. Bits of a word below the byte are not
modelled: a word is a function from byte lanes to byte values.

**Actions.** `NegEdge(r)` has one disjunct per branch of the falling edge
(`Idle`, `Flush`, `Miss`, `HitIncoming`, `HitRead`, `HitWrite`); the code's
common tail that puts the miss on the memory wires is `RaiseMemoryRequest`, and each
branch that falls through to it includes it. `PosEdge` has one disjunct per
answer (`WritebackDone`, `ReadinDone`, `NoAnswer`), each with the stream-in
countdown. Blocking assignments are visible to what follows in the same edge:
operators read the primed variable there, and the unprimed one where the code
assigns with `<=`. The `for` loops over the ways are `Scan`: the first way that
satisfies the condition, or the last way when none does, as the loop leaves it.

`BlockMemory` counts the automaton `mem_fsm_t` down (`GO`, `FINISHES` finish
states, `IDLE`); the two wait states of the enumeration are never entered.
`CacheSystem` gives `clock` three values, one for the simulator's service and
two for the edges, so the interleaving is exactly the loop's. System calls
(`ServeSyscall`) may store any request's bytes while `SYS` is high.

**The client.** `MEM.v` keeps its request on the wires while `Mem_Needs_Stall`,
which it computes from `OperationAccepted1`; that is `HOLDS = TRUE` in
`ChangeRequest`. `SYS` rises only when no line is valid or dirty: the comment of
`MIPS.v:55-57` requires it of the pipeline, which is not composed with the cache
in a working build of project 3, so `RaiseSYS` assumes it. Stores do not cross
the end of a word (`RequestAssumption`): `MEM.v` cuts `swl` and `swr` at the
word's end and the other stores are aligned.

**Properties.** `UniqueTags`, `OneIncoming`, `AgesDistinct`,
`OnlyColdLinesReplaced`, `CleanLinesMatchMemory`, `FlushLeavesNothing`,
`TransferMatchesMiss`, the refinement `ImplementsSequentialMemory` and the
liveness property `RequestServed`; the comment above each says what it means.
The refinement mapping takes the program's view of a block to be the line that
holds it (valid, or dirty and being flushed) and main memory otherwise; an
accepted request is one abstract step at the falling edge, a block write is
`WriteBack`, everything else stutters or refuses. Since a `WriteBack` writes only
the store's current contents, the mapping also says that memory never receives
old data.

## Fetch

The instruction cache is the same `Cache` without writes or flushes. Addresses
are word numbers. The reorder buffer's `Request_Alt_PC` and the FIFO's `STALL`
are nondeterministic at each rising edge. With redirects, the address on the
cache's wires can change during a miss, which is what the data cache's client
never does, and both of the fetch properties fail (see [findings](#findings)).

## The heap

`HEAP_STATUS` maps an address to its block's number. `Search` is the set of
starts that the loop of `mm_malloc` would accept; the code takes the first, the
model `Min`. `mm_free` clears from the given address on, so it may release the
tail of a block; a release of free memory makes the simulator exit (`exited`).
`mm_sbrk` keeps the widths: the bounds are `int`s that hold addresses above
2^31, so the second comparison is against a negative number. As a consequence
no request ever moves the break with the values either loader sets
(`sm_elfload.cpp:146-147`, `sm_txtload.cpp:194-195`): the first call sets it to
`BREAKSTART`, where it stays.

The allocator's refinement mapping turns the marks into a set of blocks, each
the set of its addresses, so `ImplementsAllocator` says that a block handed out
is aligned and free, and that nothing but a release of one of its own addresses ever
changes it.

## The memory port

Without caches the loop of `sim_main.cpp` serves one word per edge of the clock
(574-600). `MainMemory` has the functions of `sm_memory.cpp`, each writing
function an operator that returns the memory it leaves; numbers are
base-`DIGIT` digits, so bytes, halfwords and words keep their widths, and the
older `loadSingleHEX` goes through digits as the code goes through hexadecimal
text. `MemoryPort` puts `P2/MEM.v` before it: an operation on the wires is served
at both edges (`MemoryAccess`), a system call may store between the falling and
the rising one (`SystemCall`), and at the rising edge MEM takes the next
(`Eval`). `always @(data_read_fDM)` in `MEM.v:105` is taken as the combinational
logic that Verilator makes of it. `ImplementsMipsMemory` compares all of it with
`MipsMemory`, which moves one byte after the other and knows no words: the
program may go on only when its load has filled the register or its store is in
memory. The bytes of `data_write_2DM` that a store does not write keep older
values in the code; no function looks at them.

## A simulation

An iteration of the main loop is `Rise` (registers and `SYS` as the processor
leaves them), `Fall` (the cycle is counted, the stop conditions tested), a system
call or `NoCall`, and `Prompt`. The processor is any that presents one of `Cycles`:
an address, `SYS`, registers and the retirement map `RRAT` they are seen
through. Strings are sequences of characters in `MAIN_MEMORY`; the terminal is a
sequence of lines of words, since the prompt takes a line and call 4003 a word; a
file is put together in the order of the loop over its lines (`FileInput`, a recursive
function). The simulator checks nothing that a call asks of it, and so `Rise` raises `SYS`
only with the calls that programs make (`IsCall`): on descriptors they were given, with room
for what is read (the code has no use for the program's buffer length), and for strings that end.
The words that `fxstat64` and `sm_uname` store are `stack`, by their distance from
the stack pointer. Calls that only ask the host are `Forwarded`, with any answer; some of
them may end the simulator, as `munmap` (4091) does for memory that is not allocated.

`ImplementsHostFiles` maps the table, files, consoles, memory and register 2 to
`HostFiles`, and registers 2, 4, 5 and 6, through the renaming in force, to its
request. Each call must then be answered as its number and arguments ask: an
answer in the wrong physical register, an argument taken from one, or a call
that touches another's descriptor is a step that nothing promises. `NoStopMissed` and
`OnlyLinesResume` are about `duration`, the one number in which options, breakpoint,
pointer checks, `open` and the prompt all keep their say. `UnameFields` reads the
words of `sm_uname` as the structure that the comment before them spells out. Behind "2.4.18"
(`sp` + 224) and "mips" (`sp` + 352) `sm_uname` stores no NUL (`sm_syscalls.cpp:252-269`): those bytes
are what the program left on its stack, `"left"` in the model, and the property asks nothing of them.
The model keeps what the code does where nothing says what it should do: reading
a file that is not there hangs (`sim_main.cpp:883`), and `stat` may crash, because
it uses a moved pointer as an index (`sim_main.cpp:965`).

## Loading and booting

`Loader` follows `main`: parse, copy each segment, redirect each function,
write the boot code, each write a step, and then runs that code. Addresses count
words. A section may end within a word (`rest` is the bytes of it that belong to the section);
of a segment the last word stands for it with what follows it in the file. `ElfReader` keeps the order of the header checks and of the reads
(`HeaderError`, `parse_elf`); a table that leaves the file is outside the model
(`FilesAreWellFormed`), because `elf_reader.cpp` maps the file and checks no bounds.
`globalPointer` without a register-information segment is uninitialised in the
code and any of `Garbage` in the model. The processor of `Step` is any
in-order one that can use a result after `delay` instructions, for every delay that the
padding of nops is for.

The loops of `elf_reader.cpp` over headers and symbols are recursive functions of the
number of entries done (`SegmentList`, `Assigned`), and so are those of `sm_txtload.cpp` over
the tokens of a line, the lines of a dump and the sections (`Taken`, `Data`, `LoadOSMemoryTXT`).

`MemoryIsImage` says of every address what it holds when the program starts: the boot
code, or a word of one of the stubs that cover the address (`StubsAt`; stubs of functions
that the program does not have share the end of memory), or what the last segment with the
address has there. `TextLoaderAgrees` says that the older loader, given an objdump of the
same file (`Dumps`), fills memory alike, wherever a section of the running program lies. For any
two tables it would be wrong, because one loader copies segments and the other sections;
`SectionsAreLinked` says of both what a linker gives: a section with data is one that is read by its address, each
segment that covers it has it from the same place in the file, a section without data (`.bss`)
is in no segment's part of the file, and nothing else that the text loader reads, its arguments
included, is put there. The loaders agree on whole words only: of a section whose size is no
multiple of four `objdump` writes a shorter last group, which `sm_txtload.cpp:166` drops, while the
segment has its bytes; the property says that the older loader leaves that word clear.
`RedirectsAsListed` compares the table by which the newer loader redirects functions with the lookup
that it replaced: each function gets its own call, but for the three that the table mixes up, of
which it says what happens instead (see [findings](#findings)). `EntersAtEntry` says that the boot code leaves its page
only for the entry, with the pointers in their registers; `BootReachesEntry` that it does leave.

## The pipeline of project 2

`Pipeline` has the control of the stages, `Forwarding` adds the data. Control first: which address
is in which register, which stage holds, what a jump, its delay slot and a system
call do at each edge. `Edge` is one rising edge: `IF_Edge`, `ID_Edge` and
`EXE_MEM_Edge` in parallel, from the same wires. Inputs of an edge are the two
stalls and the comparison of a branch, which may change while one of its operands
comes from a load that is still waiting. The caches stall at will, the data cache
while there is a load or store in MEM (it raises its stall only then, `data_cache.v:62-152`),
so every cache is covered. Addresses are word numbers and wrap (`NextWord`): `WORDS` of them for the
2^30 of the 32-bit PC. The registers that no reset assigns (`jump_delay_flag`,
`first_stall`, `delay_slot_flag`) start as the zeros that Verilator gives them.

`KeepsProgramOrder` maps the stages to `ProgramOrder`, whose steps decode the next
instruction, hand on every one but system calls, and finish the oldest in flight. The code does
not keep all of that promise, and the property names where it does not. Two mishaps are single steps,
after which the order is kept again:

- `Overwritten`: a system call came into ID while MEM waited; its bubble replaces
  the instruction that EXE has not taken (`ID.v:348-364` looks at no stall).
  `tests/asm/mem_stall_test.s:40-52` meets it;
- `LinkedSkipped`: `ll` and `sc` never reach EXE, because in the cycle in which they would be
  handed on (`ID.v:365-366`) the freeze is not inhibited yet.

The property says nothing of what follows the third, the history variable `late`: a branch on a loaded value is seen
to be taken only after the first cycle of a stall, so that the delay slot kept is an older
one (`IF.v:96-102`). Each is reachable, and without its excuse the property fails.
`SysSeesResults` needs another, `waited`: the bubbles of a call are counted through a stall of MEM
(`ID.v:321-346`), after which `SYS` may rise over unfinished instructions. What the
documents and tests of the repository promise without excuse is in `LinkedAccessesExecuted` and
`CallSeesRegisters`, which fail (see [findings](#findings)). One more observation, that nothing in
the repository speaks against: a stall in the cycle in which `SYS` is high makes the same call again.

Data: `Forwarding` is about which value is where, not about what it is. A value is
the register it was computed for and its age, the number of values that the program
has given to the register since; the age grows when an instruction that writes the
register is handed on, or when the simulator answers a call. What ID promises an
instruction (`due`) travels with it, so that each stage can be compared with it. The ALU
is clocked by the falling edge (`EXE.v:148`): in the first half of a cycle its output
is the last instruction's result, which EXE bypasses (`FromEXEMEM`), in the second half
it is this instruction's, which ID bypasses and which EXE takes as the nearest result
for what a store stores, its own address then (`StoreData`). That is harmless only
because MEM bypasses once more. MIPS leaves open what an instruction takes from a load
just before it, and so do the properties, except for stores and `lwl`/`lwr`, for which the
bypass of MEM was made. Three mishaps lose a register's last value, and the
history variable `lost` names the registers until they are given another: the bubble of `Overwritten`
(`BubbleOver`), an `ll` or `sc` that is not executed (`SkippedBy`), and a call that
is answered while an older result for register 2 is in flight, which is then written over
the answer (`AnswerUnder`, the data side of `waited`). `ID.v:143` has characters after
the name of an `` `ifdef``, which are read as if they were not there.

## Runs

| run | question | bounds and why they are enough |
|---|---|---|
| `data_cache` | invariants, refinement, flush and liveness of the data cache | real line length (8) and recovery time (7 finish states), 2 ways, 2 sets; 3 blocks compete for one set, two of them stored to, while the other set holds a stored line: hits, clean and dirty evictions, refills, flushes over several dirty lines and system calls all interleave; 2-byte words with a byte store that must leave its neighbour alone; word 1 of each block keeps its tag |
| `victim_selection` | ages and victims | 4 ways (ages have several values; `WAYS - 1` is the all-ones age of the code), 5 blocks, one stored to |
| `fetched_instruction`, `redirect_taken` | violations, see findings | 2 ways, 3 blocks of 2 words, each word its own address |
| `heap_blocks` | the allocator's promise, its refusals, the break | 16 addresses, four allocations of 4 to 16 bytes, every release; least size 4 in place of 32, which changes nothing but the scale; registers of 6 bits with the heap in the upper half, as both loaders place it |
| `heap_refused` | violation, see findings | as `heap_blocks` |
| `memory_port` | the meaning of loads and stores | two words, so that a store has a neighbour on each side; digits of 2 bits keep a sign bit in each byte, 16 bits in place of 32 a word; three operations, every operation at every alignment: a store, another over it and a load of both, with system calls between |
| `session` | files, consoles, stops | five cycles: open, write, read and two more calls, in any order; every option; `CONTINUED` = 4 for 1000000, `READLIMIT` = 3 for 70, so that both limits are passed |
| `load` | image, loaders, redirected functions, boot | one program with every kind of segment, section (data, none in the file, not in memory; four of them end within a word) and symbol, four variants of it (no symbols, no register information, segments in another order, the three functions that share an address), twelve damaged files, one for each check; halfwords of 3 bits; delays 1, 2, 5 and 8 of the 1 to 8 that the nops cover |
| `pipeline` | order, system calls, forwarding | an address space of `WORDS` = 19 instructions, all of it the program, a loop with every pair that can disturb another (branch on a loaded value, calls after a load, in a delay slot, in a row, before a jump, a load in a delay slot, `ll`); results used at every distance, by operands, branches, stores, and with another result in between; four registers; every stall pattern of any length; `OLDEST` = 4, more than the values of a register that can be in flight |
| `linked_accesses` | violation, see findings | the loop of `tests/asm/sys_ll_sc.s` in six instructions: `ll`, count, `sc`, jump |
| `call_registers` | violation, see findings | the end of `tests/asm/mem_stall_test.s` in seven: a load in a delay slot, the number of the call, the call |

`WAYS` must be a power of two for the model to be the code's arithmetic on
ages; the proofs hold for any `WAYS >= 2`. `MAXBLOCKS` and `HEAPLIMIT` bound
`Heap` in the guards of `mm_malloc`; a search that would pass `HEAPLIMIT` is not
started, so the wrap at the end of the address space is not modelled. The two
heap runs do not check deadlock, because the simulator stops at a release of
free memory and the allocations run out; nor do `session` and `load`, whose
programs end or are handed over.

**Fairness.** `FairSpec` adds weak fairness of `Next`: the loop of
`sim_main.cpp` (566-572) keeps toggling the clock and does the three steps in a
fixed order. No fairness is assumed of the client; `RequestServed` needs only
that it keeps its request (`HOLDS`). `Loader` and `Pipeline` (whose clock `DataSpec` uses) state weak fairness of
`Next` for the same reason: `main` goes through its steps and then clocks the
processor for as long as it runs. In `Pipeline` that lets the caches stall for
ever; `SyscallIsCalled` holds even then, since the countdown looks at no stall.

**Variants.** For every property of a passing run `PROJECT.json` "mutants" names a
change of one definition, of the kind a slip in the code would be, with which
the run fails.

## Proofs

Every theorem holds for all values of the constants that the named assumptions allow.
Those about `CacheSystem` hold for every number of ways, sets,
tags, words, bytes and finish states, every set of requests and of memory
images that the named assumptions allow (`GeometryAssumption`,
`RequestAssumption`, `ImageAssumption`, `FinishesAssumption`, `HoldsAssumption`).

| theorem | needs | |
|---|---|---|
| `TypeCorrect`, `OneIncomingHolds`, `AgesDistinctHolds`, `OnlyColdLinesReplacedHolds` | nothing more | `CacheProofs` |
| `UniqueTagsHolds` | only a client that keeps its requests flushes | `CacheProofs` |
| `TransferMatchesMissHolds`, `CleanLinesMatchMemoryHolds` | `HOLDS` | `CacheCoherence` |
| `FlushLeavesNothingHolds`, `RefinementHolds` | `HOLDS` | `CacheRefinement` |

*Ages.* `AgesDistinct` is inductive: a touch gives the line the age
`WAYS - 1`, which no other line keeps since the others age. There are `WAYS - 1`
non-zero ages, so by the pigeonhole argument of `SomeWayIsCold` each set has a
way of age 0; hence `Scan(ColdWays(i))` is one of them and not the loop's
default, which is what `OnlyColdLinesReplaced` needs at the fill.

*Unique tags.* Not inductive: the fill writes a tag that was looked up an edge
before. The strengthening records that a miss which awaits its read is still
a miss (no valid line of the set has the requested tag), which each falling
edge re-establishes.

*Coherence.* `CoherenceInv` strengthens the safety properties with
what relates the wires to the miss: a read outstanding means the victim is
clean and was not touched since (`ReadinInv`, `StableVictim`), the flush scan has
left no valid or dirty line behind it (`FlushInv`), dirty lines are valid unless
the scan stands on them (`DirtyInv`), a block has one holder (`UniqueHolders`),
memory's answer is the block on the wires (`AnswerInv`). Each step keeps it
because the client's request has not changed, which is what `HOLDS` gives.

*Refinement.* `StoreIs` gives the refinement mapping's `CHOOSE` a value: the
unique holder's line, or memory. `MergeIsStored` shows that the masked, shifted
merge of `Cache.v:114-126` over the whole line is the byte store of
`SequentialMemory`. Then one lemma per step: service, each branch of the falling
edge, the rising edge.

*The heap* (`HeapProofs`). `TypeCorrect`, `BreakBetweenStartsHolds` and
`AlignedEndNeverRefusesHolds` hold for every word size, heap, set of requests and
increments that `StartsAreWords`, `HeapFits` and `CallsAreWords` allow. The inductive
invariant is `HeapInv`: types, the break between the starts, and `FreeAboveEnd` (no
address behind `HEAP_END` is in a block), which makes the start `HEAP_END + 1`
acceptable whenever it is aligned (`RoomBehindAlignedEnd`). `SignedBounds` is why the
break is safe: with both bounds negative the numbers between them wrap to the words
between the starts, and with one of them negative there is no number between.

`RefinementHolds` (`ImplementsAllocator`) needs more, `BlockInv`: a block has no holes
(`Whole`) and its number is not above `BLOCKNUM` (`Numbered`). With the first, the walk of
`mm_free` to the next other number ends exactly at the end of its block; `FreeAboveEnd`
says that it also ends there when the block is the last. With the second, the number
of a new block is that of no other, so the set of blocks gains the new one and keeps the rest.

*The pipeline* (`PipelineProofs`). For every program over any address space that
`ProgramAssumption` allows (no jump in a delay slot), and every pattern of stalls.
`Countdown` is the inductive part about system calls: a countdown runs only while its
call is in ID, and the freeze is inhibited, and `SYS` high, only at 1; from it follows
`LeavesWhenCalled`. `Drained` says that the bubbles of a call move on with its countdown
while MEM does not wait; the countdown is as long as the pipeline is deep, which is
`SysSeesResults`. `SlotKept` says that what was kept for a delay slot is the instruction
of the address on the wires, unless `late`. With it each edge is a step of `ProgramOrder`,
a stutter or one of the two mishaps, by cases on whether ID hands on, whether EXE takes it and whether MEM waits.
`DataSpecIsSpec` carries the theorems over to `DataSpec`, which the run checks.

*Its data* (`PipelineProofs`, second half). `DecodeReadsCurrentHolds`, `ExecuteReadsCurrentHolds`,
`MemoryReadsCurrentHolds` and `RegistersFollowProgramHolds`, for every program and every set
of registers (`DataAssumption`; `OLDEST` only has to be more than the values in flight). The
inductive invariant is `DataInv`. Its core, `NewestIsCurrent`, is that the newest value of a
register which is not lost is with the youngest instruction in flight that writes it, or in the
register file when there is none. The other parts say what each stage has of that:
the operands that travel with an instruction are due to it, or are being computed by the one
ahead that bypasses them (`OperandsFollow`); what a stage has computed is what was
due (`Computed`); the register of a load in EXE is known (`LoadKnown`). What each
stage computes follows from the invariant alone (`ExecuteCurrent`, `MEMCurrent`,
`DecodeCurrent`), and an edge moves values and promises together (`Moves`). The values of
an instruction that a stall holds age with the rest.

*The memory port* (`MemoryPortProofs`). `TypeCorrect` and `PortImplementsMemory`
(`ImplementsMipsMemory`), for every even base `DIGIT` of the digits (a digit of the code is
four bits), every memory of whole words (`SizeAssumption`), every image, and any number of
operations. A word is a number in the code and four bytes in `MipsMemory`, so most of the
proof is arithmetic: quotient and remainder are unique (`Unique`), so a number is its
bytes (`Parts`, `WordHasBytes`), shifting and masking picks some of them (`Slices`), and a sign
extension adds bytes of one kind (`Extended`). With these every load (`Load`) and store (`Store`) of `MEM.v`
is compared with the meaning of the instruction at each of its alignments, and the text that
`loadSingleHEX` makes of a word with its bytes (`HexBytes`). The inductive invariant, `PortInv`, says
that when MEM goes on at the rising edge the word read is memory's and the bytes of its store are in
memory (`Served`); the port is served once more at that edge, after any system call.

*A simulation* (`SimulationProofs`). `TypeCorrect`, `NoStopMissedHolds` and
`OnlyLinesResumeHolds`, for every set of command lines, cycles and terminal lines, and sessions
of any length. `SimInv` adds to the types that the map in force is a renaming, so that an answer
never changes register 28, on which a stop depends (`RenamingsAreInjective`: the
retirement map gives no physical register twice), and that the cycles counted and the
stop decided on belong together (`Counted`, `StopsKept`). `DurationsAreNumbers` states what `atoi`
returns, since the options are folded.

`FilesImplemented` (`ImplementsHostFiles`) is the refinement of the file calls, for the same sessions.
`FileInv` adds to `SimInv` that registers hold numbers (`Words`,
from `WordsAreNumbers`), that files and terminal are texts (`Texts`), that a call which was raised is
still one that programs make when it is answered (`Asked`), and that
descriptor 0 is none of those that were opened (`Terminal`). Then one lemma per call, as in `OpenRefines`,
`WriteConsoleRefines` and `ReadTerminalRefines`. The work is in `ReadRefines`: what is stored is the file
without its line ends (`LineEndsAreLeftOut`), a newline put in at the limit (`WithNewlineFacts`) and another
behind, and leaving the line ends out of that gives the text that was promised (`StoredIsKept`). Every other
call leaves the table, files, consoles and memory alone (`OtherRefines`), and the loop and the prompt stutter. A file's loop is a recursive function,
whose value is found by `LoopIsDefined`, as for the loaders.

*Loading and booting* (`LoaderProofs`). `TypeCorrect`, `MemoryIsImageHolds` and
`EntersAtEntryHolds`, for every set of executables. They assume that tables lie within their file
(`FilesAreWellFormed`), fields are words (`FieldsAreWords`), memory has the addresses that files
name, no entry is in the page of the boot code (`ProgramsHavePlaces`), in which `main` does not
check the global pointer, and the code fits that page (`BootCodeHasPlace`).

`LoadInv` describes memory while it is filled: after n segments it is what the first
n leave (`LinkedBy`), after n stubs each word is one of the covering stubs' or linked
(`RedirectedBy`). `SegmentStep`, `RedirectStep` and `VectorStep` are one write each. That a loop of the reader
is defined for every table (`LoopIsDefined`, `SearchIsDefined`), and keeps its types, is an induction by the
least counterexample (`UpTo`), which needs no operator as a parameter.

`BootInv` is about the processor. `VectorIsCode` says that instruction j of the boot code is at
j times the width of an instruction with its nops; `After(j)` is what the registers hold after j
of them. `Holds(j, o)` says, o words after instruction j, that its result is in flight at
its place, or already written, and nothing else is in flight; `Moves` is one instruction more,
for every delay. By the next instruction the result is written, because the delay is at most the width
(`DelaysAreCovered`), and this is where the proof fails for a longer one. `Effects` is what each
instruction does, `Halves` why `lui` and `ori` make a word of its halves. The only jump is the
next to last instruction (`Jump`, `PlaceOfJump`); the processor leaves the page after one word more.

`TextLoaderAgreesHolds` compares the two loaders for every set of executables that
`SectionsAreLinked` allows. A loop has one course (`LoopRuns`), so a closed form that satisfies its
recursion is its value: the words of a line are its tokens of eight digits (`TakenIs`), which leaves out a
shorter last one; those of a dump are
its lines' one after the other (`DataIs`). `IsDump` describes a dump by how many of the section's words
are shown up to each line, the part of a word behind them apart, and by induction on the lines it reads back as
the section's whole words (`DumpData`), also
when its first line has the offset in the file for an address (`MovedDump`). So one section is put where `Place` says
(`SectionLoads`), and an address that one section has is written once (`OnlySection`). On the other side
`LinkedByAll` says what the segments leave there. `ParsedInv` is that the reader accepted the file.

Only model-checked:

- liveness (`RequestServed`, `BootReachesEntry`, `SyscallIsCalled`), which is out of the
  prover's reach, as is every argument about when an action is enabled;
- `UnameFields`, a computation on the constants of one structure, byte by byte; its words are a table
  joined with `@@`, into which the prover does not look, and written as cases they are
  some sixty steps most of which it does not find;
- `RedirectsAsListed`, which compares two loops over the symbols, one of them a fold whose
  value the prover does not find;
- `Fetch`, whose two properties fail.

Every other property of a passing run is stated by a theorem.

## Findings

- `fetched_instruction`: when the request changes during a miss, the next falling edge
  misses again and puts the new block's address into `temp_address` and `address_2DM`
  (`Cache.v:266-268`). Memory's answer is accepted when the two are equal (`Cache.v:286`),
  which says nothing of the block it belongs to: the already latched answer for the old block
  is filed under the new tag (291-292), and fetch hands on a word that is not at its
  address (`IF.v:14-17`).
- `redirect_taken`: `Request_Alt_PC` selects the address of one cycle only
  (`IF.v:52`). If that fetch misses or is stalled, the alternate PC that
  `IF.v:29` asks for is forgotten once the request is lowered.
- `heap_refused`: the search of `mm_malloc` ends at `HEAP_END + size`
  (`sm_heap.cpp:71`). A block must start at a multiple of 4, so when
  `HEAP_END + 1` is not one, as after any request of 33 bytes, no start
  behind the last block is within the search, and allocation fails with
  "no more memory" (`sm_heap.cpp:84`) while the heap is nearly empty. Nothing
  moves `HEAP_END`, so only a release helps. `AlignedEndNeverRefuses` shows that
  this is the only way to fail.

- `load`, `RedirectsAsListed`: the table of `sm_elfload.cpp:87-98` gives `__munmap` and
  `__libc_read` the address of `__libc_write`, so of the three the one that the symbol table has
  last is replaced by `write`, and the others stay. The lookup that the table replaced, kept as a
  comment in the same function, pairs each with its own. The property states for these three what the
  code does and for the others what the lookup says, so the run passes.
- `linked_accesses`: no `ll` or `sc` is executed (`ID.v:365`). `tests/asm/sys_ll_sc.s:23-36` and
  `lwctest.s:13-23` wait for them to be, `MEM.v:192` and `214` have their cases, and `ID.v:329`
  plans a flush for them.
- `call_registers`: `MIPS.v:54-56` has all register data in the register file when `SYS` rises. The bubble
  that a call puts over an instruction which EXE has not taken (`ID.v:349`) loses that instruction's result
  for good; in `tests/asm/mem_stall_test.s:40-52` it is the number of the call. The bubbles counted
  through a stall of MEM (`ID.v:321-346`) break the same promise for a while.

## What is not modelled

The rest of project 3 (reorder buffer, queues, rename, issue, the stages) does not
elaborate. Not only is the processor that contains them wired with nets and ports that
do not exist; the parts themselves are drafts: `ROB.v` assigns `exceptions` and
`ROB_FULL`, which are not declared, the queues and FIFOs give array elements
continuous assignments inside `always` blocks that wait for the PC alone, the free list
starts out empty and is never filled, the arbiters look at one neighbour
(`Wakeup_Select.v:21`). No build has a behaviour that a model could be faithful to, and
nothing in the repository runs them. Of project 2, what the ALU computes, `HI` and `LO`, and the decode
tables are combinational tables and left out. Its caches are not modelled: their outputs
are procedural continuous assignments under sensitivity lists that have the
address only, and the address to memory has two drivers (`P2/MIPS.v:214`, `289`), so
what they do is decided by the simulator and not by the source. Project 1's pipeline
does not parse as committed and is an earlier version of project 2's.

In the simulator: the displays of registers and memory, `heapDump`, the
count of instructions, the supply of instruction words in configurations without
caches (`sim_main.cpp:713-725`), code that is compiled out
(`copy_string_to_sim`, the `uname` for a modern host), and the constants of the
vendored `elf/mips.h`. The cells of `ece405-project 2` are continuous-time analog
models.

## Plan

Done: the cache system with its proofs, fetch, the heap with its proofs, the memory port, sessions,
loaders and boot, the pipeline of project 2 with its bypasses, and proofs about all of them but fetch. Left:

1. Proofs: `UnameFields`, when the prover has the table as constants.
2. The ALU of project 2 and its multiplier registers, against the meaning of the
   instructions.
3. The rings of project 3 once they elaborate; abstract specification: a queue of
   entries committed in order, each once.
