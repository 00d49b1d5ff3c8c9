----------------------------- MODULE HeapProofs -----------------------------
(***************************************************************************)
(* Theorems about Heap for every size of the address space, every place of *)
(* the heap in it and all the requests a program can make.                 *)
(***************************************************************************)
EXTENDS Heap, TLAPS, WellFoundedInduction

\* A nonempty set of naturals has a least member: mm_malloc's loop stops at
\* the first start that it accepts.
LEMMA MinIsLeast ==
  ASSUME NEW S, S \subseteq Nat, S # {}
  PROVE  Min(S) \in S /\ \A m \in S : Min(S) <= m
<1>1. PICK x \in S : \A y \in S : ~ (<<y, x>> \in OpToRel(<, Nat))
  BY WFMin, NatLessThanWellFounded
<1>2. \A m \in S : x <= m
  <2> TAKE m \in S
  <2>1. ~(m < x)  BY <1>1 DEF OpToRel
  <2> QED  BY <2>1
<1> QED  BY <1>2 DEF Min

\* The larger of two integers.
LEMMA MaxOfTwo ==
  ASSUME NEW a \in Int, NEW b \in Int
  PROVE  Max({a, b}) \in {a, b} /\ Max({a, b}) >= a /\ Max({a, b}) >= b
<1>1. \E x \in {a, b} : \A y \in {a, b} : x >= y  OBVIOUS
<1> QED  BY <1>1 DEF Max

\* A word is not changed by the modulus.
LEMMA WordMod ==
  ASSUME NEW n \in 0 .. WORD - 1
  PROVE  n % WORD = n
BY StartsAreWords

\* A negative number above -WORD wraps to itself plus WORD.
LEMMA NegativeMod ==
  ASSUME NEW n \in Int, -WORD <= n, n < 0
  PROVE  n % WORD = n + WORD
BY StartsAreWords

\* What a remainder is bounded by.
LEMMA ModIsWord ==
  ASSUME NEW n \in Int
  PROVE  n % WORD \in 0 .. WORD - 1
BY StartsAreWords

----------------------------------------------------------------------------
(* The heap's end.                                                         *)

\* No address behind the heap's end belongs to a block.
FreeAboveEnd ==
  \A a \in HeapAddress : HEAP_STATUS[a] # 0 => a <= HEAP_END

\* The search stays in the heap, and what it finds is free.
LEMMA SearchInHeap ==
  ASSUME TypeOK, NEW size \in Nat, size >= 1, SearchEnd + size <= HEAPLIMIT,
         NEW a \in Search(size)
  PROVE  /\ a \in HeapAddress /\ a + size - 1 \in HeapAddress
         /\ a .. a + size - 1 \subseteq HeapAddress
<1>1. SearchEnd \in HeapAddress
  BY StartsAreWords, HeapFits DEF SearchEnd, TypeOK, HeapAddress
<1>2. a \in HeapAddress /\ a + size - 1 <= SearchEnd + size  BY DEF Search
<1> QED  BY <1>1, <1>2, StartsAreWords, HeapFits DEF HeapAddress

\* What an allocation does to the heap.
LEMMA MallocStep ==
  ASSUME TypeOK, FreeAboveEnd, NEW size \in Nat, size >= 1, mm_malloc(size)
  PROVE  /\ HEAP_STATUS' \in [HeapAddress -> 0 .. MAXBLOCKS + 1]
         /\ HEAP_END' \in HeapAddress
         /\ BLOCKNUM' \in 1 .. MAXBLOCKS + 1
         /\ result' \in 0 .. WORD - 1
         /\ FreeAboveEnd'
         /\ result' = 0 => Search(size) = {}
<1>1. BLOCKNUM' \in 1 .. MAXBLOCKS + 1
  BY HeapFits DEF mm_malloc, TypeOK
<1>2. SearchEnd \in HeapAddress /\ HEAP_END <= SearchEnd /\ HEAP_END \in Int
  BY StartsAreWords, HeapFits DEF SearchEnd, TypeOK, HeapAddress
<1>3. CASE Search(size) = {}
  <2>1. result' = 0 /\ HEAP_END' = SearchEnd /\ HEAP_STATUS' = HEAP_STATUS
    BY <1>3 DEF mm_malloc
  <2>2. FreeAboveEnd'
    BY <2>1, <1>2 DEF FreeAboveEnd, HeapAddress
  <2> QED  BY <1>1, <1>2, <1>3, <2>1, <2>2, StartsAreWords DEF TypeOK
<1>4. CASE Search(size) # {}
  <2>1. result' \in Search(size)
    <3>1. Search(size) \subseteq Nat
      BY StartsAreWords, HeapFits DEF Search, HeapAddress
    <3> QED  BY <1>4, <3>1, MinIsLeast DEF mm_malloc
  <2>2. SearchEnd + size <= HEAPLIMIT  BY DEF mm_malloc
  <2>3. /\ result' \in HeapAddress /\ result' + size - 1 \in HeapAddress
        /\ result' .. result' + size - 1 \subseteq HeapAddress
    BY <2>1, <2>2, SearchInHeap
  <2>4. HEAP_STATUS' = [i \in HeapAddress |->
          IF i \in result' .. result' + size - 1 THEN BLOCKNUM' ELSE HEAP_STATUS[i]]
    BY <1>4 DEF mm_malloc, prepHeapBlock
  <2>5. HEAP_END' = Max({SearchEnd, result' + size - 1})
    BY <1>4 DEF mm_malloc
  <2>6. /\ HEAP_END' \in HeapAddress
        /\ HEAP_END' >= SearchEnd /\ HEAP_END' >= result' + size - 1
    <3>1. SearchEnd \in Int /\ result' + size - 1 \in Int
      BY <1>2, <2>3 DEF HeapAddress
    <3> QED  BY <3>1, <2>5, <1>2, <2>3, MaxOfTwo
  <2>7. HEAP_STATUS' \in [HeapAddress -> 0 .. MAXBLOCKS + 1]
    BY <2>4, <1>1 DEF TypeOK
  <2>8. FreeAboveEnd'
    <3> SUFFICES ASSUME NEW a \in HeapAddress, HEAP_STATUS'[a] # 0
                 PROVE  a <= HEAP_END'
      BY DEF FreeAboveEnd, HeapAddress
    <3> DEFINE last == result' + size - 1
    <3>1. /\ a \in Int /\ HEAP_END' \in Int /\ SearchEnd \in Int
          /\ result' \in Int /\ last \in Int
      BY <2>3, <2>6, <1>2 DEF HeapAddress
    <3>2. HEAP_END' >= last  BY <2>6
    <3>3. HEAP_STATUS'[a] = IF a \in result' .. last THEN BLOCKNUM' ELSE HEAP_STATUS[a]
      BY <2>4
    <3> HIDE DEF last
    <3>4. CASE a \in result' .. last
      BY <3>1, <3>4, <3>2
    <3>5. CASE a \notin result' .. last
      <4>1. HEAP_STATUS[a] # 0  BY <3>5, <3>3
      <4>2. a <= HEAP_END  BY <4>1 DEF FreeAboveEnd
      <4> QED  BY <4>2, <3>1, <2>6, <1>2
    <3> QED  BY <3>4, <3>5
  <2>9. result' \in 1 .. WORD - 1
    BY <2>3, StartsAreWords, HeapFits DEF HeapAddress
  <2> QED  BY <1>1, <2>6, <2>7, <2>8, <2>9
<1> QED  BY <1>3, <1>4

\* The size that a call asks mm_malloc for.
LEMMA RoundedSize ==
  ASSUME NEW n \in Int
  PROVE  Max({n, MINSIZE}) \in Nat /\ Max({n, MINSIZE}) >= 1
<1> DEFINE size == Max({n, MINSIZE})
<1>1. MINSIZE \in Int /\ MINSIZE >= 1  BY CallsAreWords, StartsAreWords
<1>2. size \in {n, MINSIZE} /\ size >= MINSIZE  BY <1>1, MaxOfTwo
<1>3. size \in Nat /\ size >= 1
  <2> HIDE DEF size
  <2> QED  BY <1>1, <1>2
<1> QED  BY <1>3

LEMMA MMapSize ==
  ASSUME NEW length \in Requests, NEW count \in {0, 1}
  PROVE  (length * (1 + count)) % WORD \in Int
<1>1. length \in Int  BY CallsAreWords
<1>2. length * (1 + count) \in Int
  <2>1. CASE count = 0  BY <1>1, <2>1
  <2>2. CASE count = 1  BY <1>1, <2>2
  <2> QED  BY <2>1, <2>2
<1> QED  BY <1>2, ModIsWord

\* What a release does to the heap.
LEMMA FreeStep ==
  ASSUME TypeOK, FreeAboveEnd, NEW addr, mm_free(addr), HEAP_END' = HEAP_END
  PROVE  /\ HEAP_STATUS' \in [HeapAddress -> 0 .. MAXBLOCKS + 1]
         /\ exited' \in BOOLEAN
         /\ FreeAboveEnd'
<1>1. CASE HEAP_STATUS' = HEAP_STATUS /\ exited' \in BOOLEAN
  BY <1>1 DEF TypeOK, FreeAboveEnd, HeapAddress
<1>2. CASE /\ HEAP_STATUS' = [i \in HeapAddress |->
                               IF i \in RestOfBlock(addr) THEN 0 ELSE HEAP_STATUS[i]]
           /\ exited' = exited
  <2>1. HEAP_STATUS' \in [HeapAddress -> 0 .. MAXBLOCKS + 1]
    BY <1>2, HeapFits DEF TypeOK
  <2>2. \A a \in HeapAddress : HEAP_STATUS'[a] # 0 => HEAP_STATUS[a] # 0
    BY <1>2
  <2>3. FreeAboveEnd'  BY <2>2 DEF FreeAboveEnd, HeapAddress
  <2> QED  BY <1>2, <2>1, <2>3 DEF TypeOK
<1> QED  BY <1>1, <1>2 DEF mm_free, TypeOK

----------------------------------------------------------------------------
(* The break.                                                              *)

\* Bounds above the middle of the words are negative, and the words between
\* them are those of the numbers between.
LEMMA SignedBounds ==
  ASSUME NEW n \in Int, n >= Signed(BREAKSTART), n < Signed(HEAPSTART)
  PROVE  n % WORD \in BREAKSTART .. HEAPSTART - 1
<1>1. CASE BREAKSTART >= WORD \div 2
  <2>1. n >= BREAKSTART - WORD /\ n < HEAPSTART - WORD
    BY <1>1, StartsAreWords DEF Signed
  <2>2. n % WORD = n + WORD  BY <2>1, StartsAreWords, NegativeMod
  <2> QED  BY <2>1, <2>2, StartsAreWords
<1>2. CASE BREAKSTART < WORD \div 2
  <2>1. n >= BREAKSTART  BY <1>2, StartsAreWords DEF Signed
  <2>2. n < HEAPSTART
    BY StartsAreWords DEF Signed
  <2>3. n % WORD = n  BY <2>1, <2>2, StartsAreWords, WordMod
  <2> QED  BY <2>1, <2>2, <2>3, StartsAreWords
<1> QED  BY <1>1, <1>2, StartsAreWords

\* mm_sbrk leaves the break between the starts.
LEMMA SbrkStep ==
  ASSUME TypeOK, BreakBetweenStarts, NEW value \in Int, mm_sbrk(value)
  PROVE  /\ current_break' \in BREAKSTART .. HEAPSTART - 1
         /\ result' \in 0 .. WORD - 1
<1> DEFINE start == IF current_break < BREAKSTART THEN BREAKSTART ELSE current_break
<1>1. start \in BREAKSTART .. HEAPSTART - 1
  BY StartsAreWords DEF BreakBetweenStarts
<1>2. start + value \in Int  BY <1>1, StartsAreWords
<1>3. current_break' \in BREAKSTART .. HEAPSTART - 1
  <2>1. CASE start + value >= Signed(BREAKSTART) /\ start + value < Signed(HEAPSTART)
    <3>1. current_break' = (start + value) % WORD  BY <2>1 DEF mm_sbrk
    <3> HIDE DEF start
    <3> QED  BY <3>1, <2>1, <1>2, SignedBounds
  <2>2. CASE ~(start + value >= Signed(BREAKSTART) /\ start + value < Signed(HEAPSTART))
    <3>1. current_break' = start  BY <2>2 DEF mm_sbrk
    <3> QED  BY <3>1, <1>1
  <2> QED  BY <2>1, <2>2
<1>4. result' = current_break'  BY DEF mm_sbrk
<1> QED  BY <1>3, <1>4, StartsAreWords

----------------------------------------------------------------------------
(* The theorems.                                                           *)

\* The inductive invariant.
HeapInv == TypeOK /\ FreeAboveEnd /\ BreakBetweenStarts

\* One system call keeps it.
LEMMA CallKeepsHeapInv ==
  ASSUME HeapInv, Next
  PROVE  HeapInv'
<1> USE DEF HeapInv
<1>1. ASSUME NEW size \in Requests, MallocCall(size) PROVE HeapInv'
  <2> DEFINE rounded == Max({size, MINSIZE})
  <2>1. mm_malloc(rounded) /\ UNCHANGED <<current_break, exited>>
    BY <1>1 DEF MallocCall
  <2>2. rounded \in Nat /\ rounded >= 1  BY CallsAreWords, RoundedSize
  <2> HIDE DEF rounded
  <2>3. /\ HEAP_STATUS' \in [HeapAddress -> 0 .. MAXBLOCKS + 1]
        /\ HEAP_END' \in HeapAddress /\ BLOCKNUM' \in 1 .. MAXBLOCKS + 1
        /\ result' \in 0 .. WORD - 1 /\ FreeAboveEnd'
    BY <2>1, <2>2, MallocStep
  <2> QED  BY <2>1, <2>3 DEF TypeOK, BreakBetweenStarts, HeapAddress
<1>2. ASSUME NEW length \in Requests, NEW count \in {0, 1}, MMapCall(length, count)
      PROVE  HeapInv'
  <2> DEFINE rounded == Max({(length * (1 + count)) % WORD, MINSIZE})
  <2>1. mm_malloc(rounded) /\ UNCHANGED <<current_break, exited>>
    BY <1>2 DEF MMapCall
  <2>2. rounded \in Nat /\ rounded >= 1  BY MMapSize, RoundedSize
  <2> HIDE DEF rounded
  <2>3. /\ HEAP_STATUS' \in [HeapAddress -> 0 .. MAXBLOCKS + 1]
        /\ HEAP_END' \in HeapAddress /\ BLOCKNUM' \in 1 .. MAXBLOCKS + 1
        /\ result' \in 0 .. WORD - 1 /\ FreeAboveEnd'
    BY <2>1, <2>2, MallocStep
  <2> QED  BY <2>1, <2>3 DEF TypeOK, BreakBetweenStarts, HeapAddress
<1>3. ASSUME NEW addr \in HeapAddress \cup {0}, MunmapCall(addr) PROVE HeapInv'
  <2>1. mm_free(addr) /\ UNCHANGED <<HEAP_END, BLOCKNUM, current_break, result>>
    BY <1>3 DEF MunmapCall
  <2>2. /\ HEAP_STATUS' \in [HeapAddress -> 0 .. MAXBLOCKS + 1]
        /\ exited' \in BOOLEAN /\ FreeAboveEnd'
    BY <2>1, FreeStep
  <2> QED  BY <2>1, <2>2 DEF TypeOK, BreakBetweenStarts, HeapAddress
<1>4. ASSUME NEW value \in Increments, BrkCall(value) PROVE HeapInv'
  <2>1. /\ mm_sbrk(Signed(value))
        /\ UNCHANGED <<HEAP_STATUS, HEAP_END, BLOCKNUM, exited>>
    BY <1>4 DEF BrkCall
  <2>2. Signed(value) \in Int  BY CallsAreWords, StartsAreWords DEF Signed
  <2>3. current_break' \in BREAKSTART .. HEAPSTART - 1 /\ result' \in 0 .. WORD - 1
    BY <2>1, <2>2, SbrkStep
  <2>4. current_break' \in 0 .. WORD - 1  BY <2>3, StartsAreWords
  <2>5. FreeAboveEnd'  BY <2>1 DEF FreeAboveEnd, HeapAddress
  <2> QED  BY <2>1, <2>3, <2>4, <2>5 DEF TypeOK, BreakBetweenStarts, HeapAddress
<1> QED  BY <1>1, <1>2, <1>3, <1>4 DEF Next

LEMMA InitHeapInv == Init => HeapInv
<1> SUFFICES ASSUME Init PROVE HeapInv  OBVIOUS
<1>1. TypeOK
  <2>1. 0 \in 0 .. MAXBLOCKS + 1 /\ 1 \in 1 .. MAXBLOCKS + 1 /\ 0 \in 0 .. WORD - 1
    BY StartsAreWords, HeapFits
  <2>2. HEAP_STATUS \in [HeapAddress -> 0 .. MAXBLOCKS + 1]  BY <2>1 DEF Init
  <2> QED  BY <2>1, <2>2 DEF Init, TypeOK
<1>2. FreeAboveEnd  BY DEF Init, FreeAboveEnd
<1>3. BreakBetweenStarts  BY DEF Init, BreakBetweenStarts
<1> QED  BY <1>1, <1>2, <1>3 DEF HeapInv

LEMMA HeapInvHolds == Spec => []HeapInv
<1>1. HeapInv /\ [Next]_vars => HeapInv'
  <2> SUFFICES ASSUME HeapInv, [Next]_vars PROVE HeapInv'  OBVIOUS
  <2>1. CASE Next  BY <2>1, CallKeepsHeapInv
  <2>2. CASE UNCHANGED vars
    BY <2>2 DEF vars, HeapInv, TypeOK, FreeAboveEnd, BreakBetweenStarts, HeapAddress
  <2> QED  BY <2>1, <2>2
<1> QED  BY InitHeapInv, <1>1, PTL DEF Spec

\* Marks, heap end, break and results keep their types in a heap of any size
\* and under any requests: no allocation reaches past the end of its search.
THEOREM TypeCorrect == Spec => []TypeOK
<1>1. HeapInv => TypeOK  BY DEF HeapInv
<1> QED  BY <1>1, HeapInvHolds, PTL

\* The break stays out of the heap and above its start wherever the loader
\* puts them, in the lower or the upper half of the words, though mm_sbrk's
\* bounds are ints (sm_heap.cpp:114).
THEOREM BreakBetweenStartsHolds == Spec => []BreakBetweenStarts
<1>1. HeapInv => BreakBetweenStarts  BY DEF HeapInv
<1> QED  BY <1>1, HeapInvHolds, PTL

\* An aligned end leaves room behind it: the start HEAP_END + 1 is within the
\* search and nothing behind the end is taken.
LEMMA RoomBehindAlignedEnd ==
  ASSUME HeapInv, NEW size \in Nat, size >= 1, SearchEnd + size <= HEAPLIMIT,
         HEAP_END = 0 \/ (HEAP_END + 1) % 4 = 0
  PROVE  Search(size) # {}
<1> USE DEF HeapInv
<1> DEFINE a == IF HEAP_END = 0 THEN HEAPSTART ELSE HEAP_END + 1
<1>1. a % 4 = 0 /\ a \in Int /\ HEAP_END \in Int
  BY StartsAreWords, HeapFits DEF TypeOK, HeapAddress
<1>2. /\ a >= HEAPSTART /\ a > HEAP_END
      /\ a + size - 1 <= SearchEnd + size
      /\ SearchEnd \in Int
  BY StartsAreWords, HeapFits DEF TypeOK, HeapAddress, SearchEnd
<1>3. a + size - 1 <= HEAPLIMIT
  BY <1>1, StartsAreWords, HeapFits DEF TypeOK, HeapAddress, SearchEnd
<1> HIDE DEF a
<1>4. a \in HeapAddress
  BY <1>1, <1>2, <1>3, StartsAreWords, HeapFits DEF HeapAddress
<1>5. ASSUME NEW i \in a .. a + size - 1 PROVE HEAP_STATUS[i] = 0
  <2>1. i \in Int /\ i > HEAP_END  BY <1>1, <1>2
  <2>2. i \in HeapAddress
    BY <1>1, <1>2, <1>3, StartsAreWords, HeapFits DEF HeapAddress
  <2> QED  BY <1>1, <2>1, <2>2 DEF FreeAboveEnd
<1>6. a \in Search(size)  BY <1>1, <1>2, <1>4, <1>5 DEF Search
<1> QED  BY <1>6

\* Only an end that is not aligned makes mm_malloc refuse, in a heap of any
\* size and for any mix of sizes and releases.
THEOREM AlignedEndNeverRefusesHolds == Spec => AlignedEndNeverRefuses
<1> DEFINE Refusal == BLOCKNUM' # BLOCKNUM /\ result' = 0
                        => HEAP_END # 0 /\ (HEAP_END + 1) % 4 # 0
<1>1. HeapInv /\ [Next]_vars => [Refusal]_vars
  <2> SUFFICES ASSUME HeapInv, Next, BLOCKNUM' # BLOCKNUM, result' = 0
               PROVE  HEAP_END # 0 /\ (HEAP_END + 1) % 4 # 0
    BY DEF vars
  <2>1. PICK size \in Nat : size >= 1 /\ mm_malloc(size)
    <3>1. ASSUME NEW size \in Requests, MallocCall(size)
          PROVE  \E n \in Nat : n >= 1 /\ mm_malloc(n)
      BY <3>1, CallsAreWords, RoundedSize DEF MallocCall
    <3>2. ASSUME NEW length \in Requests, NEW count \in {0, 1}, MMapCall(length, count)
          PROVE  \E n \in Nat : n >= 1 /\ mm_malloc(n)
      BY <3>2, MMapSize, RoundedSize DEF MMapCall
    <3> QED  BY <3>1, <3>2 DEF Next, MunmapCall, BrkCall
  <2>2. Search(size) = {}  BY <2>1, MallocStep DEF HeapInv
  <2>3. SearchEnd + size <= HEAPLIMIT  BY <2>1 DEF mm_malloc
  <2> QED  BY <2>1, <2>2, <2>3, RoomBehindAlignedEnd
<1> QED  BY <1>1, HeapInvHolds, PTL DEF Spec, AlignedEndNeverRefuses

----------------------------------------------------------------------------
(* The refinement: Heap implements Allocator, so blocks that were handed   *)
(* out stay whole and apart.                                               *)

\* The block that an address is in, and all blocks, as the marks have them.
BlockOf(status, x) == {a \in HeapAddress : status[a] = status[x]}
BlocksOf(status) == {BlockOf(status, x) : x \in {a \in HeapAddress : status[a] # 0}}

\* No block has a hole, and none has a number that is still to be given.
Whole ==
  \A a, c \in HeapAddress :
    HEAP_STATUS[a] = HEAP_STATUS[c] /\ HEAP_STATUS[a] # 0
      => \A b \in a .. c : HEAP_STATUS[b] = HEAP_STATUS[a]
Numbered == \A a \in HeapAddress : HEAP_STATUS[a] <= BLOCKNUM

\* The inductive invariant.
BlockInv == HeapInv /\ Whole /\ Numbered

LEMMA BlocksByAddress ==
  /\ blocks = BlocksOf(HEAP_STATUS)
  /\ blocks' = BlocksOf(HEAP_STATUS')
BY DEF blocks, BlocksOf, BlockOf, HeapAddress

\* Blocks are as apart as numbers are.
LEMMA UnionOfBlocks ==
  ASSUME NEW a \in UNION blocks
  PROVE  a \in HeapAddress /\ HEAP_STATUS[a] # 0
BY BlocksByAddress DEF BlocksOf, BlockOf

----------------------------------------------------------------------------
(* Allocations.                                                            *)

\* A run between two addresses of the heap.
LEMMA Run ==
  ASSUME NEW size \in Nat, size >= 1, NEW start, start \in HeapAddress,
         start + size - 1 \in HeapAddress
  PROVE  /\ start \in start .. start + size - 1
         /\ size <= HEAPLIMIT - HEAPSTART + 1
         /\ \A a, c \in start .. start + size - 1 : a .. c \subseteq start .. start + size - 1
BY StartsAreWords, HeapFits DEF HeapAddress

\* A new block is one run of addresses that were free, with a new number.
LEMMA MallocAllocates ==
  ASSUME BlockInv, NEW size \in Nat, size >= 1, size >= MINSIZE, mm_malloc(size),
         Search(size) # {}
  PROVE  Promised!Allocate /\ Whole' /\ Numbered'
<1> USE DEF BlockInv, HeapInv
<1> DEFINE block == result' .. result' + size - 1
           number == BLOCKNUM'
<1>1. /\ result' \in Search(size)
      /\ number = BLOCKNUM + 1 /\ number \in Nat /\ BLOCKNUM \in Nat /\ number # 0
      /\ HEAP_STATUS' = [i \in HeapAddress |-> IF i \in block THEN number ELSE HEAP_STATUS[i]]
  <2>1. Search(size) \subseteq Nat
    BY StartsAreWords, HeapFits DEF Search, HeapAddress
  <2>2. result' \in Search(size)  BY <2>1, MinIsLeast DEF mm_malloc
  <2>3. BLOCKNUM \in Nat /\ BLOCKNUM >= 1  BY HeapFits DEF TypeOK
  <2> QED  BY <2>2, <2>3 DEF mm_malloc, prepHeapBlock
<1>2. /\ block \subseteq HeapAddress
      /\ result' \in HeapAddress /\ result' + size - 1 \in HeapAddress /\ result' % 4 = 0
      /\ \A i \in block : HEAP_STATUS[i] = 0
  <2>1. SearchEnd + size <= HEAPLIMIT  BY DEF mm_malloc
  <2> QED  BY <1>1, <2>1, SearchInHeap DEF Search
<1>3. /\ result' \in block
      /\ size <= HEAPLIMIT - HEAPSTART + 1
      /\ \A a, c \in block : a .. c \subseteq block
  BY <1>2, Run
<1>4. \A i \in HeapAddress : HEAP_STATUS[i] # number /\ HEAP_STATUS[i] \in Int
  <2> TAKE i \in HeapAddress
  <2>1. HEAP_STATUS[i] \in Int  BY HeapFits DEF TypeOK
  <2>2. HEAP_STATUS[i] <= BLOCKNUM  BY DEF Numbered
  <2> QED  BY <2>1, <2>2, <1>1
<1>5. Numbered'
  <2> SUFFICES ASSUME NEW a \in HeapAddress PROVE HEAP_STATUS'[a] <= number
    BY DEF Numbered, HeapAddress
  <2>1. HEAP_STATUS'[a] = IF a \in block THEN number ELSE HEAP_STATUS[a]  BY <1>1
  <2>2. HEAP_STATUS[a] <= BLOCKNUM  BY DEF Numbered
  <2> QED  BY <2>1, <2>2, <1>1, <1>4
<1>6. Whole'
  <2> SUFFICES ASSUME NEW a \in HeapAddress, NEW c \in HeapAddress,
                      HEAP_STATUS'[a] = HEAP_STATUS'[c], HEAP_STATUS'[a] # 0,
                      NEW b \in a .. c
               PROVE  HEAP_STATUS'[b] = HEAP_STATUS'[a]
    BY DEF Whole, HeapAddress
  <2>1. b \in HeapAddress  BY HeapFits, StartsAreWords DEF HeapAddress
  <2>2. \A i \in {a, b, c} : HEAP_STATUS'[i] = IF i \in block THEN number ELSE HEAP_STATUS[i]
    BY <1>1, <2>1
  <2>3. CASE a \in block
    <3>1. c \in block  BY <2>3, <2>2, <1>4
    <3>2. b \in block  BY <2>3, <3>1, <1>3
    <3> QED  BY <2>2, <2>3, <3>2
  <2>4. CASE a \notin block
    <3>1. c \notin block  BY <2>4, <2>2, <1>4
    <3>2. HEAP_STATUS[b] = HEAP_STATUS[a]  BY <2>2, <2>4, <3>1 DEF Whole
    <3>3. b \notin block  BY <3>2, <2>2, <2>4, <1>2
    <3> QED  BY <2>2, <2>4, <3>2, <3>3
  <2> QED  BY <2>3, <2>4
<1> HIDE DEF block, number
<1>7. blocks' = blocks \cup {block}
  <2>1. \A x \in block : BlockOf(HEAP_STATUS', x) = block
    BY <1>1, <1>2, <1>4 DEF BlockOf
  <2>2. ASSUME NEW x \in HeapAddress, HEAP_STATUS[x] # 0
        PROVE  x \notin block /\ BlockOf(HEAP_STATUS', x) = BlockOf(HEAP_STATUS, x)
    <3>1. x \notin block  BY <2>2, <1>2
    <3>2. HEAP_STATUS'[x] = HEAP_STATUS[x]  BY <3>1, <1>1
    <3>3. \A a \in HeapAddress : HEAP_STATUS'[a] = HEAP_STATUS[x] <=> HEAP_STATUS[a] = HEAP_STATUS[x]
      BY <2>2, <1>1, <1>2, <1>4
    <3> QED  BY <3>1, <3>2, <3>3 DEF BlockOf
  <2>3. ASSUME NEW x \in HeapAddress
        PROVE  HEAP_STATUS'[x] # 0 <=> x \in block \/ HEAP_STATUS[x] # 0
    BY <1>1
  <2>4. blocks' \subseteq blocks \cup {block}
    BY <2>1, <2>2, <2>3, BlocksByAddress DEF BlocksOf
  <2>5. blocks \subseteq blocks'
    BY <2>2, <2>3, BlocksByAddress DEF BlocksOf
  <2>6. block \in blocks'
    BY <2>1, <2>3, <1>2, <1>3, BlocksByAddress DEF BlocksOf
  <2> QED  BY <2>4, <2>5, <2>6
<1>8. block \cap UNION blocks = {}
  BY <1>2, UnionOfBlocks
<1>9. size \in MINSIZE .. HEAPLIMIT - HEAPSTART + 1
  BY <1>3, HeapFits, StartsAreWords, CallsAreWords
<1>10. Promised!Allocate
  <2>1. result' \in {a \in HeapAddress : a % 4 = 0}  BY <1>2
  <2> QED  BY <1>2, <1>7, <1>8, <1>9, <2>1 DEF Promised!Allocate, block
<1> QED  BY <1>5, <1>6, <1>10

\* What mm_malloc does is promised, whether it finds a block or not.
LEMMA MallocRefines ==
  ASSUME BlockInv, NEW size \in Nat, size >= 1, size >= MINSIZE, mm_malloc(size)
  PROVE  Promised!Next /\ Whole' /\ Numbered'
<1>1. CASE Search(size) # {}
  BY <1>1, MallocAllocates DEF Promised!Next
<1>2. CASE Search(size) = {}
  <2>1. result' = 0 /\ HEAP_STATUS' = HEAP_STATUS /\ BLOCKNUM' = BLOCKNUM + 1
    BY <1>2 DEF mm_malloc
  <2>2. blocks' = blocks  BY <2>1, BlocksByAddress
  <2>3. Whole'  BY <2>1 DEF BlockInv, Whole, HeapAddress
  <2>4. Numbered'
    <3> SUFFICES ASSUME NEW a \in HeapAddress PROVE HEAP_STATUS'[a] <= BLOCKNUM'
      BY DEF Numbered, HeapAddress
    <3>1. HEAP_STATUS[a] <= BLOCKNUM  BY DEF BlockInv, Numbered
    <3>2. HEAP_STATUS[a] \in Int /\ BLOCKNUM \in Int
      BY HeapFits DEF BlockInv, HeapInv, TypeOK
    <3> QED  BY <2>1, <3>1, <3>2
  <2> QED  BY <2>1, <2>2, <2>3, <2>4 DEF Promised!Next, Promised!Refuse
<1> QED  BY <1>1, <1>2

----------------------------------------------------------------------------
(* Releases.                                                               *)

\* A release walks to the end of the block that it starts in, no farther.
LEMMA RestIsOfBlock ==
  ASSUME BlockInv, NEW addr \in HeapAddress, HEAP_STATUS[addr] # 0
  PROVE  RestOfBlock(addr) = {a \in BlockOf(HEAP_STATUS, addr) : addr <= a}
<1>1. HEAP_END \in Int /\ addr \in Int
  BY StartsAreWords, HeapFits DEF BlockInv, HeapInv, TypeOK, HeapAddress
<1>2. ASSUME NEW a \in RestOfBlock(addr)
      PROVE  a \in BlockOf(HEAP_STATUS, addr) /\ addr <= a
  <2>1. a \in addr .. HEAP_END /\ HEAP_STATUS[a] = HEAP_STATUS[addr]
    BY <1>1 DEF RestOfBlock
  <2>2. HEAP_END \in HeapAddress \cup {0}  BY DEF BlockInv, HeapInv, TypeOK
  <2>3. a \in HeapAddress
    BY <2>1, <2>2, <1>1, StartsAreWords, HeapFits DEF HeapAddress
  <2> QED  BY <2>1, <2>3, <1>1 DEF BlockOf
<1>3. ASSUME NEW a \in BlockOf(HEAP_STATUS, addr), addr <= a
      PROVE  a \in RestOfBlock(addr)
  <2>1. a \in HeapAddress /\ HEAP_STATUS[a] = HEAP_STATUS[addr]  BY DEF BlockOf
  <2>2. a <= HEAP_END /\ a \in Int
    BY <2>1 DEF BlockInv, HeapInv, FreeAboveEnd, HeapAddress
  <2>3. a \in addr .. HEAP_END  BY <1>1, <1>3, <2>2
  <2>4. \A b \in addr .. a : HEAP_STATUS[b] = HEAP_STATUS[addr]
    BY <2>1 DEF BlockInv, Whole
  <2> QED  BY <2>3, <2>4 DEF RestOfBlock
<1> QED  BY <1>2, <1>3 DEF BlockOf

LEMMA FreeRefines ==
  ASSUME BlockInv, NEW addr \in HeapAddress \cup {0}, mm_free(addr), BLOCKNUM' = BLOCKNUM,
         result' = result
  PROVE  [Promised!Next]_<<blocks, result>> /\ Whole' /\ Numbered'
<1>1. CASE HEAP_STATUS' = HEAP_STATUS
  <2>1. blocks' = blocks  BY <1>1, BlocksByAddress
  <2> QED  BY <1>1, <2>1 DEF BlockInv, Whole, Numbered, HeapAddress
<1>2. CASE HEAP_STATUS' # HEAP_STATUS
  <2>1. /\ addr \in HeapAddress /\ HEAP_STATUS[addr] # 0
        /\ HEAP_STATUS' = [i \in HeapAddress |->
                             IF i \in RestOfBlock(addr) THEN 0 ELSE HEAP_STATUS[i]]
    BY <1>2 DEF mm_free
  <2> DEFINE block == BlockOf(HEAP_STATUS, addr)
             kept  == {a \in block : a < addr}
  <2>2. /\ addr \in Int /\ HEAP_STATUS[addr] \in Int /\ addr \in block /\ block \subseteq HeapAddress
        /\ \A a \in HeapAddress : a \in Int /\ HEAP_STATUS[a] \in Int
    BY <2>1, HeapFits DEF BlockInv, HeapInv, TypeOK, HeapAddress, BlockOf
  <2>3. \A i \in HeapAddress :
          HEAP_STATUS'[i] = IF i \in block /\ addr <= i THEN 0 ELSE HEAP_STATUS[i]
    BY <2>1, RestIsOfBlock
  <2>4. Numbered'
    <3> SUFFICES ASSUME NEW a \in HeapAddress PROVE HEAP_STATUS'[a] <= BLOCKNUM
      BY DEF Numbered, HeapAddress
    <3>1. HEAP_STATUS[a] <= BLOCKNUM /\ 0 <= BLOCKNUM
      BY HeapFits DEF BlockInv, HeapInv, TypeOK, Numbered
    <3> QED  BY <2>3, <3>1
  <2>5. Whole'
    <3> SUFFICES ASSUME NEW a \in HeapAddress, NEW c \in HeapAddress,
                        HEAP_STATUS'[a] = HEAP_STATUS'[c], HEAP_STATUS'[a] # 0,
                        NEW b \in a .. c
                 PROVE  HEAP_STATUS'[b] = HEAP_STATUS'[a]
      BY DEF Whole, HeapAddress
    <3>1. b \in HeapAddress /\ b \in Int /\ b <= c
      BY HeapFits, StartsAreWords DEF HeapAddress
    <3>2. /\ HEAP_STATUS'[a] = HEAP_STATUS[a] /\ HEAP_STATUS'[c] = HEAP_STATUS[c]
          /\ ~(c \in block /\ addr <= c)
      BY <2>3
    <3>3. HEAP_STATUS[b] = HEAP_STATUS[a]  BY <3>2 DEF BlockInv, Whole
    <3>4. ~(b \in block /\ addr <= b)
      <4>1. b \in block => c \in block  BY <3>2, <3>3, <3>1 DEF BlockOf
      <4> HIDE DEF block
      <4> QED  BY <4>1, <3>1, <3>2, <2>2
    <3> QED  BY <2>3, <3>1, <3>2, <3>3, <3>4
  <2> HIDE DEF kept
  <2>6. ASSUME NEW x \in HeapAddress, HEAP_STATUS[x] # 0, x \notin block
        PROVE  /\ HEAP_STATUS'[x] = HEAP_STATUS[x]
               /\ BlockOf(HEAP_STATUS', x) = BlockOf(HEAP_STATUS, x)
    <3>1. HEAP_STATUS'[x] = HEAP_STATUS[x]  BY <2>3, <2>6
    <3>2. HEAP_STATUS[x] # HEAP_STATUS[addr]  BY <2>6 DEF BlockOf
    <3>3. \A a \in HeapAddress : HEAP_STATUS'[a] = HEAP_STATUS[x] <=> HEAP_STATUS[a] = HEAP_STATUS[x]
      BY <2>3, <2>6, <3>2 DEF BlockOf
    <3> QED  BY <3>1, <3>3 DEF BlockOf
  <2>7. ASSUME NEW x \in kept
        PROVE  /\ x \in HeapAddress /\ HEAP_STATUS'[x] # 0
               /\ BlockOf(HEAP_STATUS', x) = kept
    <3>1. /\ x \in HeapAddress /\ x \in block /\ x < addr
          /\ HEAP_STATUS[x] = HEAP_STATUS[addr]
      BY DEF kept, BlockOf
    <3>2. HEAP_STATUS'[x] = HEAP_STATUS[addr]  BY <3>1, <2>2, <2>3
    <3>3. \A a \in HeapAddress : HEAP_STATUS'[a] = HEAP_STATUS[addr] <=> a \in block /\ a < addr
      BY <2>1, <2>2, <2>3 DEF BlockOf
    <3> QED  BY <3>1, <3>2, <3>3, <2>1, <2>2 DEF BlockOf, kept
  <2>8. ASSUME NEW x \in HeapAddress, HEAP_STATUS'[x] # 0
        PROVE  x \in kept \/ (x \notin block /\ HEAP_STATUS[x] # 0)
    BY <2>2, <2>3, <2>8 DEF kept
  <2>9. ASSUME NEW x \in HeapAddress, x \notin block
        PROVE  BlockOf(HEAP_STATUS, x) # block
    BY <2>9, <2>2 DEF BlockOf
  <2>10. ASSUME NEW x \in block
         PROVE  BlockOf(HEAP_STATUS, x) = block
    BY DEF BlockOf
  <2>11. block \in blocks  BY <2>1, BlocksByAddress DEF BlocksOf
  <2> HIDE DEF block
  <2>12. blocks' = (blocks \ {block}) \cup ({kept} \ {{}})
    <3>1. ASSUME NEW B \in blocks'
          PROVE  B \in (blocks \ {block}) \cup ({kept} \ {{}})
      <4>1. PICK x \in HeapAddress : HEAP_STATUS'[x] # 0 /\ B = BlockOf(HEAP_STATUS', x)
        BY BlocksByAddress DEF BlocksOf
      <4>2. CASE x \in kept  BY <4>1, <4>2, <2>7
      <4>3. CASE x \notin kept
        <5>1. x \notin block /\ HEAP_STATUS[x] # 0  BY <4>1, <4>3, <2>8
        <5>2. B = BlockOf(HEAP_STATUS, x)  BY <5>1, <4>1, <2>6
        <5>3. B \in blocks  BY <5>1, <5>2, BlocksByAddress DEF BlocksOf
        <5> QED  BY <5>1, <5>2, <5>3, <2>9
      <4> QED  BY <4>2, <4>3
    <3>2. ASSUME NEW B \in blocks \ {block}
          PROVE  B \in blocks'
      <4>1. PICK x \in HeapAddress : HEAP_STATUS[x] # 0 /\ B = BlockOf(HEAP_STATUS, x)
        BY BlocksByAddress DEF BlocksOf
      <4>2. x \notin block  BY <4>1, <2>10
      <4>3. HEAP_STATUS'[x] # 0 /\ B = BlockOf(HEAP_STATUS', x)  BY <4>1, <4>2, <2>6
      <4> QED  BY <4>3, BlocksByAddress DEF BlocksOf
    <3>3. ASSUME kept # {} PROVE kept \in blocks'
      <4>1. PICK x \in kept : TRUE  BY <3>3
      <4> QED  BY <4>1, <2>7, BlocksByAddress DEF BlocksOf
    <3> QED  BY <3>1, <3>2, <3>3
  <2>13. Promised!Release  BY <2>2, <2>11, <2>12 DEF Promised!Release, kept
  <2> QED  BY <2>4, <2>5, <2>13 DEF Promised!Next
<1> QED  BY <1>1, <1>2

----------------------------------------------------------------------------
(* The theorem.                                                            *)

\* A rounded request is not smaller than the least block.
LEMMA RoundedUp ==
  ASSUME NEW n \in Int
  PROVE  Max({n, MINSIZE}) >= MINSIZE
BY CallsAreWords, MaxOfTwo

LEMMA CallRefines ==
  ASSUME BlockInv, Next
  PROVE  [Promised!Next]_<<blocks, result>> /\ BlockInv'
<1>1. HeapInv'  BY CallKeepsHeapInv DEF BlockInv
<1>2. ASSUME NEW size \in Requests, MallocCall(size)
      PROVE  Promised!Next /\ Whole' /\ Numbered'
  <2> DEFINE rounded == Max({size, MINSIZE})
  <2>1. mm_malloc(rounded)  BY <1>2 DEF MallocCall
  <2>2. rounded \in Nat /\ rounded >= 1 /\ rounded >= MINSIZE
    BY CallsAreWords, RoundedSize, RoundedUp
  <2> HIDE DEF rounded
  <2> QED  BY <2>1, <2>2, MallocRefines
<1>3. ASSUME NEW length \in Requests, NEW count \in {0, 1}, MMapCall(length, count)
      PROVE  Promised!Next /\ Whole' /\ Numbered'
  <2> DEFINE rounded == Max({(length * (1 + count)) % WORD, MINSIZE})
  <2>1. mm_malloc(rounded)  BY <1>3 DEF MMapCall
  <2>2. rounded \in Nat /\ rounded >= 1 /\ rounded >= MINSIZE
    BY MMapSize, RoundedSize, RoundedUp
  <2> HIDE DEF rounded
  <2> QED  BY <2>1, <2>2, MallocRefines
<1>4. ASSUME NEW addr \in HeapAddress \cup {0}, MunmapCall(addr)
      PROVE  [Promised!Next]_<<blocks, result>> /\ Whole' /\ Numbered'
  BY <1>4, FreeRefines DEF MunmapCall
<1>5. ASSUME NEW value \in Increments, BrkCall(value)
      PROVE  Promised!Next /\ Whole' /\ Numbered'
  <2>1. /\ mm_sbrk(Signed(value)) /\ result' = current_break'
        /\ UNCHANGED <<HEAP_STATUS, BLOCKNUM>>
    BY <1>5 DEF BrkCall, mm_sbrk
  <2>2. Signed(value) \in Int  BY CallsAreWords, StartsAreWords DEF Signed
  <2>3. current_break' \in BREAKSTART .. HEAPSTART - 1
    BY <2>1, <2>2, SbrkStep DEF BlockInv, HeapInv
  <2>4. result' \notin HeapAddress
    BY <2>1, <2>3, StartsAreWords, HeapFits DEF HeapAddress
  <2>5. blocks' = blocks  BY <2>1, BlocksByAddress
  <2>6. Whole' /\ Numbered'  BY <2>1 DEF BlockInv, Whole, Numbered, HeapAddress
  <2> QED  BY <2>4, <2>5, <2>6 DEF Promised!Next, Promised!SetBreak
<1> QED  BY <1>1, <1>2, <1>3, <1>4, <1>5 DEF Next, BlockInv

\* Whatever calls the program makes, and in a heap of any size, the marks of
\* sm_heap.cpp are an allocator: blocks do not overlap, stay whole until
\* they are released, and a release gives back the rest of one block only.
THEOREM RefinementHolds == Spec => ImplementsAllocator
<1>1. Init => BlockInv /\ Promised!Init
  <2> SUFFICES ASSUME Init PROVE BlockInv /\ Promised!Init  OBVIOUS
  <2>1. HeapInv  BY InitHeapInv
  <2>2. HEAP_STATUS = [a \in HeapAddress |-> 0] /\ BLOCKNUM = 1 /\ result = 0  BY DEF Init
  <2>3. Whole /\ Numbered  BY <2>2 DEF Whole, Numbered
  <2>4. blocks = {}  BY <2>2 DEF blocks
  <2> QED  BY <2>1, <2>2, <2>3, <2>4 DEF BlockInv, Promised!Init
<1>2. BlockInv /\ [Next]_vars => BlockInv' /\ [Promised!Next]_<<blocks, result>>
  <2> SUFFICES ASSUME BlockInv, [Next]_vars
               PROVE  BlockInv' /\ [Promised!Next]_<<blocks, result>>
    OBVIOUS
  <2>1. CASE Next  BY <2>1, CallRefines
  <2>2. CASE UNCHANGED vars
    <3>1. HEAP_STATUS' = HEAP_STATUS /\ BLOCKNUM' = BLOCKNUM /\ result' = result
      BY <2>2 DEF vars
    <3>2. blocks' = blocks  BY <3>1, BlocksByAddress
    <3>3. BlockInv'
      BY <2>2 DEF vars, BlockInv, Whole, Numbered, HeapInv, TypeOK, FreeAboveEnd,
                  BreakBetweenStarts, HeapAddress
    <3> QED  BY <3>1, <3>2, <3>3
  <2> QED  BY <2>1, <2>2
<1> QED  BY <1>1, <1>2, PTL DEF Spec, ImplementsAllocator, Promised!Spec, Promised!vars

=============================================================================
