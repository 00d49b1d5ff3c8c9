-------------------------------- MODULE Heap --------------------------------
(***************************************************************************)
(* The heap that sim_main keeps for the simulated program (sm_heap.cpp)    *)
(* and the system calls of sim_main.cpp that reach it: malloc (4555), mmap *)
(* (4090), munmap (4091) and brk (4045).  The heap marks every address     *)
(* with the number of the block it belongs to, 0 when it is free.          *)
(***************************************************************************)
EXTENDS Integers, FiniteSetsExt

CONSTANTS
  WORD,          \* how many values a register has: 2^32
  HEAPSTART,     \* exec.HEAPSTART and BREAKSTART as the loader set them,
  BREAKSTART,    \*   read as unsigned words
  HEAPLIMIT,     \* bound: the heap's search ends at or below this address
  MAXBLOCKS,     \* bound: how many allocations are tried
  MINSIZE,       \* the system calls round smaller requests up to 32
  Requests,      \* the sizes a program asks for
  Increments     \* the values a program passes to brk, as unsigned words

ASSUME StartsAreWords ==
  /\ WORD \in Nat /\ HEAPSTART \in 1 .. WORD - 1 /\ BREAKSTART \in 1 .. WORD - 1
  /\ BREAKSTART < HEAPSTART /\ HEAPSTART % 4 = 0

ASSUME HeapFits == HEAPLIMIT \in HEAPSTART .. WORD - 2 /\ MAXBLOCKS \in Nat

ASSUME CallsAreWords ==
  MINSIZE \in 1 .. WORD - 1 /\ Requests \subseteq Nat /\ Increments \subseteq 0 .. WORD - 1

VARIABLES
  HEAP_STATUS, HEAP_END, BLOCKNUM,   \* the allocator's state
  current_break,
  result,                            \* the program's register 2
  exited                             \* the simulator called exit(-1)

vars == <<HEAP_STATUS, HEAP_END, BLOCKNUM, current_break, result, exited>>

HeapAddress == HEAPSTART .. HEAPLIMIT

\* An unsigned word converted to int.
Signed(word) == IF word >= WORD \div 2 THEN word - WORD ELSE word

----------------------------------------------------------------------------

Init ==
  /\ HEAP_STATUS = [a \in HeapAddress |-> 0]
  /\ HEAP_END = 0 /\ BLOCKNUM = 1 /\ current_break = 0
  /\ result = 0 /\ exited = FALSE

\* HEAP_END when the search of mm_malloc begins.
SearchEnd == IF HEAP_END = 0 THEN HEAPSTART ELSE HEAP_END

\* (A search that ends one address early.)
SearchShort(size) ==
  {a \in HeapAddress :
     /\ a % 4 = 0
     /\ a + size - 1 < SearchEnd + size - 1
     /\ \A i \in a .. a + size - 1 : HEAP_STATUS[i] = 0}

\* The aligned starts of runs of free addresses within the search of
\* mm_malloc, which takes the first.
Search(size) ==
  {a \in HeapAddress :
     /\ a % 4 = 0
     /\ a + size - 1 <= SearchEnd + size
     /\ \A i \in a .. a + size - 1 : HEAP_STATUS[i] = 0}

prepHeapBlock(addr, size) ==
  HEAP_STATUS' = [i \in HeapAddress |->
                    IF i \in addr .. addr + size - 1 THEN BLOCKNUM' ELSE HEAP_STATUS[i]]

mm_malloc(size) ==
  /\ BLOCKNUM <= MAXBLOCKS /\ SearchEnd + size <= HEAPLIMIT
  /\ BLOCKNUM' = BLOCKNUM + 1
  /\ IF Search(size) = {}
     THEN /\ result' = 0 /\ HEAP_END' = SearchEnd
          /\ UNCHANGED HEAP_STATUS
     ELSE /\ result' = Min(Search(size))
          /\ prepHeapBlock(result', size)
          /\ HEAP_END' = Max({SearchEnd, result' + size - 1})

\* (A release that stops only at a free address.)
RestOfRun(addr) ==
  {i \in addr .. HEAP_END : \A j \in addr .. i : HEAP_STATUS[j] # 0}

\* From addr on, as far as the block that addr is in goes.
RestOfBlock(addr) ==
  {i \in addr .. HEAP_END : \A j \in addr .. i : HEAP_STATUS[j] = HEAP_STATUS[addr]}

mm_free(addr) ==
  \/ addr = 0 /\ UNCHANGED <<HEAP_STATUS, exited>>
  \/ /\ addr \in HeapAddress /\ HEAP_STATUS[addr] # 0
     /\ HEAP_STATUS' = [i \in HeapAddress |->
                          IF i \in RestOfBlock(addr) THEN 0 ELSE HEAP_STATUS[i]]
     /\ UNCHANGED exited
  \/ /\ addr \in HeapAddress /\ HEAP_STATUS[addr] = 0
     /\ exited' = TRUE /\ UNCHANGED HEAP_STATUS

\* (A break that is moved without the test.)
SbrkUnchecked(value) ==
  LET start == IF current_break < BREAKSTART THEN BREAKSTART ELSE current_break
  IN current_break' = start + value /\ result' = current_break'

\* The int exec.BREAKSTART is converted to unsigned for the first comparison
\* of mm_sbrk, and with its sign to 64 bits for the others.
mm_sbrk(value) ==
  LET start == IF current_break < BREAKSTART THEN BREAKSTART ELSE current_break
      temp_break == start + value
  IN /\ current_break' = IF temp_break >= Signed(BREAKSTART) /\ temp_break < Signed(HEAPSTART)
                         THEN temp_break % WORD ELSE start
     /\ result' = current_break'

----------------------------------------------------------------------------
(* The system calls.                                                       *)

MallocCall(size) ==
  /\ mm_malloc(Max({size, MINSIZE}))
  /\ UNCHANGED <<current_break, exited>>

MMapCall(length, count) ==
  /\ mm_malloc(Max({(length * (1 + count)) % WORD, MINSIZE}))
  /\ UNCHANGED <<current_break, exited>>

MunmapCall(addr) ==
  /\ mm_free(addr)
  /\ UNCHANGED <<HEAP_END, BLOCKNUM, current_break, result>>

BrkCall(value) ==
  /\ mm_sbrk(Signed(value))
  /\ UNCHANGED <<HEAP_STATUS, HEAP_END, BLOCKNUM, exited>>

Next ==
  /\ ~exited
  /\ \/ \E size \in Requests : MallocCall(size)
     \/ \E length \in Requests, count \in {0, 1} : MMapCall(length, count)
     \/ \E addr \in HeapAddress \cup {0} : MunmapCall(addr)
     \/ \E value \in Increments : BrkCall(value)

Spec == Init /\ [][Next]_vars

----------------------------------------------------------------------------
(* Properties.                                                             *)

TypeOK ==
  /\ HEAP_STATUS \in [HeapAddress -> 0 .. MAXBLOCKS + 1]
  /\ HEAP_END \in HeapAddress \cup {0}
  /\ BLOCKNUM \in 1 .. MAXBLOCKS + 1
  /\ current_break \in 0 .. WORD - 1
  /\ result \in 0 .. WORD - 1
  /\ exited \in BOOLEAN

blocks ==
  {{a \in HeapAddress : HEAP_STATUS[a] = number} :
     number \in {HEAP_STATUS[a] : a \in HeapAddress} \ {0}}

Promised ==
  INSTANCE Allocator WITH Addresses <- HeapAddress, Sizes <- MINSIZE .. HEAPLIMIT - HEAPSTART + 1

\* Blocks that were handed out stay whole, apart and aligned whatever mix of
\* allocations, releases (of a part of a block too) and failures follows:
\* the marks of sm_heap.cpp implement the allocator's promise, so no release
\* of one block reaches into its neighbour.
ImplementsAllocator == Promised!Spec

\* An allocation is refused only when the heap's end is not aligned: while
\* every block ends at an aligned address there is always room after the
\* last (mm_malloc's search reaches that far and no farther).
AlignedEndNeverRefuses ==
  [][BLOCKNUM' # BLOCKNUM /\ result' = 0 => HEAP_END # 0 /\ (HEAP_END + 1) % 4 # 0]_vars

\* The break never reaches the heap nor falls below its start ("don't allow
\* potential heap corruption", sm_heap.cpp:114), though the bounds of the
\* test are ints that the loaders fill with addresses above 2^31.
BreakBetweenStarts ==
  current_break \in {0} \cup BREAKSTART .. HEAPSTART - 1

\* mm_malloc returns 0 when there is no more memory (sm_heap.cpp:84).
RefusedWhenFull ==
  [][\A size \in Requests :
       MallocCall(size) /\ result' = 0 =>
         \A a \in HeapAddress :
           LET block == a .. a + Max({size, MINSIZE}) - 1 IN
           a % 4 = 0 /\ block \subseteq HeapAddress
             => \E i \in block : HEAP_STATUS[i] # 0]_vars

=============================================================================
