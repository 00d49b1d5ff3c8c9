-------------------------- MODULE CacheRefinement --------------------------
(***************************************************************************)
(* Theorems about a CacheSystem whose client keeps its requests: when a    *)
(* flush is accepted nothing is left in the cache, and the system          *)
(* implements SequentialMemory, for every size of the cache.               *)
(***************************************************************************)
EXTENDS CacheCoherence

----------------------------------------------------------------------------
(* The end of a flush.                                                     *)

LEMMA FlushLeavesNothingFall ==
  ASSUME TypeOK, CoherenceInv, Fall
  PROVE  FlushLeavesNothing'
<1> SUFFICES ASSUME OperationAccepted1', request'.op = "flush" PROVE Flushed'
  BY DEF FlushLeavesNothing
<1>1. request' = request  BY DEF Fall
<1>2. Flush(request)
  BY <1>1 DEF Fall, NegEdge, Idle, Miss, HitIncoming, HitRead, HitWrite
<1>3. /\ ~need_readin' /\ ~need_writeback'
      /\ \A l \in LineNo : ~line_is_dirty[l] /\ ~line_is_valid'[l]
  BY <1>2, FlushStops
<1>4. line_is_dirty' = line_is_dirty  BY <1>2 DEF Flush
<1> QED  BY <1>3, <1>4 DEF Flushed

\* When a flush is accepted no line is valid or dirty and no transfer is
\* pending, however many writebacks and memory delays its scan took.
THEOREM FlushLeavesNothingHolds == HOLDS => (Spec => []FlushLeavesNothing)
<1> SUFFICES ASSUME HOLDS PROVE Spec => []FlushLeavesNothing  OBVIOUS
<1>1. Init => FlushLeavesNothing  BY DEF Init, FlushLeavesNothing
<1>2. TypeOK /\ CoherenceInv /\ FlushLeavesNothing /\ [Next]_vars
        => FlushLeavesNothing'
  <2> SUFFICES ASSUME TypeOK, CoherenceInv, FlushLeavesNothing, [Next]_vars
               PROVE  FlushLeavesNothing'
    OBVIOUS
  <2>1. CASE MemoryService  BY <2>1 DEF MemoryService, FlushLeavesNothing
  <2>2. CASE Fall  BY <2>2, FlushLeavesNothingFall
  <2>3. CASE Rise  BY <2>3 DEF Rise, FlushLeavesNothing
  <2>4. CASE UNCHANGED vars
    BY <2>4 DEF vars, cacheVars, missVars, storeVars, outVars, FlushLeavesNothing,
                Flushed
  <2> QED  BY <2>1, <2>2, <2>3, <2>4 DEF Next
<1> QED  BY <1>1, <1>2, TypeCorrect, Coherence, PTL DEF Spec

----------------------------------------------------------------------------
(* Merging a store into a line.                                            *)

LEMMA AtLeastOneFold ==
  ASSUME NEW n \in Int, NEW b \in Nat, n >= 1
  PROVE  n * b >= b
<1>1. n * b = (n - 1) * b + b  OBVIOUS
<1>2. (n - 1) * b >= 0  OBVIOUS
<1>3. n * b \in Int /\ (n - 1) * b \in Int  OBVIOUS
<1> QED  BY <1>1, <1>2, <1>3

\* The shift of the store's bytes into the line writes the bytes of the
\* addressed word that the store names and no others, when the store does
\* not run past the end of its word.
LEMMA MergeIsStored ==
  ASSUME NEW line \in Line, NEW r \in Request, r.lane + r.size <= WORDBYTES
  PROVE  MergeWrite(line, r) = Stored(line, r)
<1> DEFINE Offset(w, k) == (w - r.word) * WORDBYTES + k - r.lane
           Named(k) == r.lane <= k /\ k < r.lane + r.size
           Merged(w, k) == IF Offset(w, k) \in 0 .. r.size - 1
                           THEN r.data[WORDBYTES - r.size + Offset(w, k)]
                           ELSE line[w][k]
           Row(w) == [k \in Lane |-> Merged(w, k)]
           New(k) == IF Named(k) THEN r.data[WORDBYTES - r.size + k - r.lane]
                                 ELSE line[r.word][k]
<1>1. /\ r.word \in WordNo /\ r.word \in Int /\ r.lane \in Nat /\ r.size \in Nat /\ r.size >= 1
      /\ WORDBYTES \in Nat /\ WordNo \subseteq Int
      /\ \A k \in Lane : k \in Nat /\ k < WORDBYTES
  BY GeometryAssumption DEF Request, WordNo, Lane
<1>2. ASSUME NEW k \in Lane PROVE Merged(r.word, k) = New(k)
  <2>1. Offset(r.word, k) = k - r.lane
    <3>1. r.word - r.word = 0 /\ 0 * WORDBYTES = 0  BY <1>1
    <3> QED  BY <1>1, <3>1
  <2>2. Offset(r.word, k) \in 0 .. r.size - 1 <=> Named(k)  BY <1>1, <2>1
  <2>3. WORDBYTES - r.size + Offset(r.word, k) = WORDBYTES - r.size + k - r.lane
    BY <1>1, <2>1
  <2> HIDE DEF Offset, Named
  <2> QED  BY <2>2, <2>3
<1>3. ASSUME NEW w \in WordNo, w # r.word, NEW k \in Lane
      PROVE  Merged(w, k) = line[w][k]
  <2> DEFINE n == w - r.word
  <2>1. n \in Int /\ n # 0  BY <1>1, <1>3
  <2> HIDE DEF n
  <2>2. CASE n >= 1
    <3>1. n * WORDBYTES >= WORDBYTES  BY <1>1, <2>1, <2>2, AtLeastOneFold
    <3>2. n * WORDBYTES \in Int  BY <1>1, <2>1
    <3> QED  BY <1>1, <3>1, <3>2 DEF n
  <2>3. CASE -n >= 1
    <3>1. (-n) * WORDBYTES >= WORDBYTES /\ -n \in Int
      BY <1>1, <2>1, <2>3, AtLeastOneFold
    <3>2. /\ n * WORDBYTES = -((-n) * WORDBYTES)
          /\ n * WORDBYTES \in Int /\ (-n) * WORDBYTES \in Int
      BY <1>1, <2>1
    <3> QED  BY <1>1, <3>1, <3>2 DEF n
  <2> QED  BY <2>1, <2>2, <2>3
<1>4. MergeWrite(line, r) = [w \in WordNo |-> Row(w)]
  BY DEF MergeWrite
<1>5. Stored(line, r) = [line EXCEPT ![r.word] = [k \in Lane |-> New(k)]]
  BY <1>1 DEF Stored, Line
<1>6. line \in [WordNo -> Word]  BY DEF Line
<1> HIDE DEF Merged, New
<1>7. Row(r.word) = [k \in Lane |-> New(k)]  BY <1>2
<1>8. ASSUME NEW w \in WordNo, w # r.word PROVE Row(w) = line[w]
  <2>1. line[w] \in Word  BY <1>6
  <2> QED  BY <1>3, <1>8, <2>1 DEF Word
<1> DEFINE new == Stored(line, r)
<1> HIDE DEF Row
<1>9. new = [w \in WordNo |-> new[w]]  BY <1>5, <1>6
<1>10. ASSUME NEW w \in WordNo PROVE Row(w) = new[w]
  BY <1>1, <1>5, <1>6, <1>7, <1>8
<1> HIDE DEF new
<1>11. [w \in WordNo |-> Row(w)] = [w \in WordNo |-> new[w]]  BY <1>10
<1> QED  BY <1>4, <1>9, <1>11 DEF new

----------------------------------------------------------------------------
(* The memory the program sees.                                            *)

\* It has each block that a line holds as that line has it, and every other
\* block as memory has it.
StoreFacts ==
  /\ \A l \in LineNo : Occupied(l) => LogicalStore[LineAddress(l)] = lines[l]
  /\ \A a \in Address : (\A l \in LineNo : Occupied(l) => LineAddress(l) # a)
                          => LogicalStore[a] = memory[a]
  /\ LogicalStore = [a \in Address |-> LogicalStore[a]]

LEMMA StoreIs == TypeOK /\ CoherenceInv => StoreFacts
<1> SUFFICES ASSUME TypeOK, CoherenceInv PROVE StoreFacts  OBVIOUS
<1> DEFINE Entry(a) == IF Holders(a) = {} THEN memory[a]
                       ELSE lines[CHOOSE l \in Holders(a) : TRUE]
<1>1. LogicalStore = [a \in Address |-> Entry(a)]  BY DEF LogicalStore
<1>2. ASSUME NEW l \in LineNo, Occupied(l)
      PROVE  LogicalStore[LineAddress(l)] = lines[l]
  <2> DEFINE H == Holders(LineAddress(l))
             m == CHOOSE k \in H : TRUE
  <2>1. l \in H  BY <1>2 DEF Holders, Occupied
  <2>2. m \in H  BY <2>1
  <2>3. m \in LineNo /\ Occupied(m) /\ LineAddress(m) = LineAddress(l)
    BY <2>2 DEF Holders, Occupied
  <2> HIDE DEF m
  <2>4. m = l  BY <1>2, <2>3 DEF CoherenceInv, UniqueHolders
  <2>5. Entry(LineAddress(l)) = lines[m]  BY <2>1 DEF m
  <2>6. LineAddress(l) \in Address  BY LineAddressType DEF TypeOK, CacheTypeOK
  <2> HIDE DEF Entry
  <2> QED  BY <1>1, <2>4, <2>5, <2>6
<1>3. ASSUME NEW a \in Address, \A l \in LineNo : Occupied(l) => LineAddress(l) # a
      PROVE  LogicalStore[a] = memory[a]
  <2>1. Holders(a) = {}  BY <1>3 DEF Holders, Occupied
  <2> QED  BY <1>1, <2>1
<1>4. LogicalStore = [a \in Address |-> LogicalStore[a]]
  <2> HIDE DEF Entry
  <2> QED  BY <1>1
<1> QED  BY <1>2, <1>3, <1>4 DEF StoreFacts

LEMMA StoreIsNext == TypeOK' /\ CoherenceInv' => StoreFacts'
BY StoreIs, PTL

\* A line holds the same block as before.
Keeps(l) == /\ Occupied(l) /\ Occupied(l)'
            /\ LineAddress(l)' = LineAddress(l) /\ lines'[l] = lines[l]

\* A step after which every line holds what it held, or took or left a block
\* that is the same in memory and in no other line, does not change what the
\* program sees.
LEMMA StoreKept ==
  ASSUME TypeOK, CoherenceInv, TypeOK', CoherenceInv', memory' = memory,
         \A l \in LineNo : Occupied(l) =>
           \/ Keeps(l)
           \/ /\ lines[l] = memory[LineAddress(l)]
              /\ \A m \in LineNo : Occupied(m)' => LineAddress(m)' # LineAddress(l),
         \A l \in LineNo : Occupied(l)' =>
           \/ Keeps(l)
           \/ /\ lines'[l] = memory[LineAddress(l)']
              /\ \A m \in LineNo : Occupied(m) => LineAddress(m) # LineAddress(l)'
  PROVE  LogicalStore' = LogicalStore
<1>1. ASSUME NEW a \in Address PROVE LogicalStore'[a] = LogicalStore[a]
  <2>1. CASE \E l \in LineNo : Occupied(l) /\ LineAddress(l) = a
    <3>1. PICK l \in LineNo : Occupied(l) /\ LineAddress(l) = a  BY <2>1
    <3>2. LogicalStore[a] = lines[l]  BY <3>1, StoreIs DEF StoreFacts
    <3>3. CASE Keeps(l)
      BY <3>1, <3>2, <3>3, StoreIsNext DEF StoreFacts, Keeps
    <3>4. CASE ~Keeps(l)
      BY <3>1, <3>2, <3>4, StoreIsNext DEF StoreFacts
    <3> QED  BY <3>3, <3>4
  <2>2. CASE \A l \in LineNo : Occupied(l) => LineAddress(l) # a
    <3>1. LogicalStore[a] = memory[a]  BY <2>2, StoreIs DEF StoreFacts
    <3>2. CASE \E l \in LineNo : Occupied(l)' /\ LineAddress(l)' = a
      <4>1. PICK l \in LineNo : Occupied(l)' /\ LineAddress(l)' = a  BY <3>2
      <4>2. ~Keeps(l)  BY <2>2, <4>1 DEF Keeps
      <4> QED  BY <3>1, <4>1, <4>2, StoreIsNext DEF StoreFacts
    <3>3. CASE \A l \in LineNo : Occupied(l)' => LineAddress(l)' # a
      BY <3>1, <3>3, StoreIsNext DEF StoreFacts
    <3> QED  BY <3>2, <3>3
  <2> QED  BY <2>1, <2>2
<1>2. [a \in Address |-> LogicalStore'[a]] = [a \in Address |-> LogicalStore[a]]
  BY <1>1
<1> QED  BY <1>2, StoreIs, StoreIsNext DEF StoreFacts

----------------------------------------------------------------------------
(* The steps of SequentialMemory.                                          *)

LEMMA AbstractOperators ==
  /\ Abstract!Address = Address
  /\ Abstract!NoRequest = NoRequest
  /\ \A r : Abstract!BlockOf(r) = BlockOf(r)
  /\ \A line, r : Abstract!Stored(line, r) = Stored(line, r)
BY DEF Abstract!Address, Abstract!Tag, Abstract!Index, Address, Tag, Index,
       Abstract!NoRequest, Abstract!ZeroWord, Abstract!Lane, NoRequest, ZeroWord,
       Lane, Abstract!BlockOf, BlockOf, Abstract!Stored, Stored

LEMMA InitRefines == Init => Abstract!Init
<1> SUFFICES ASSUME Init PROVE Abstract!Init  OBVIOUS
<1>1. /\ memory \in Images /\ memory \in [Address -> Line]
      /\ clock = "service" /\ request = NoRequest /\ SYS = FALSE
  BY ImageAssumption DEF Init, MemoryInit
<1>2. \A a \in Address : Holders(a) = {}
  BY DEF Init, CacheInit, Holders
<1>3. LogicalStore = memory
  <2>1. LogicalStore = [a \in Address |-> memory[a]]  BY <1>2 DEF LogicalStore
  <2> QED  BY <1>1, <2>1
<1> QED
  BY <1>1, <1>3, AbstractOperators DEF Abstract!Init, Answered, AnsweredWords

\* Outside the rising edge there is no answer.
LEMMA NoAnswerGiven ==
  clock # "rise" => Answered = FALSE /\ AnsweredWords = <<>>
BY DEF Answered, AnsweredWords

LEMMA ServiceRefines ==
  ASSUME TypeOK, CoherenceInv, TypeOK', CoherenceInv', MemoryService
  PROVE  [Abstract!Next]_Abstract!vars
<1>1. /\ UNCHANGED <<lines, tags, line_is_valid, line_is_dirty, request, SYS>>
      /\ clock = "service" /\ clock' = "fall"
  BY DEF MemoryService, cacheVars, storeVars
<1>2. /\ Answered = FALSE /\ Answered' = FALSE
      /\ AnsweredWords = <<>> /\ AnsweredWords' = <<>>
  BY <1>1 DEF Answered, AnsweredWords
<1>3. ASSUME memory' = memory PROVE UNCHANGED Abstract!vars
  <2>1. \A l \in LineNo : /\ Occupied(l)' <=> Occupied(l)
                          /\ LineAddress(l)' = LineAddress(l)
    BY <1>1 DEF Occupied, LineAddress
  <2>2. LogicalStore' = LogicalStore
    BY <1>1, <1>3, <2>1, StoreKept DEF Keeps
  <2> QED  BY <1>1, <1>2, <1>3, <2>2 DEF Abstract!vars
<1>4. ASSUME SYS, NEW r \in Requests, r.op = "write",
             memory' = [memory EXCEPT ![BlockOf(r)] = Stored(@, r)]
      PROVE  Abstract!Syscall(r)
  <2>1. \A l \in LineNo : ~Occupied(l) /\ ~Occupied(l)'
    BY <1>1, <1>4, QuietSYS DEF Flushed, Occupied
  <2>2. memory = [a \in Address |-> memory[a]]
        /\ memory' = [a \in Address |-> memory'[a]]
    BY DEF TypeOK, MemoryTypeOK
  <2>3. LogicalStore = memory
    <3>1. \A a \in Address : LogicalStore[a] = memory[a]
      BY <2>1, StoreIs DEF StoreFacts
    <3> QED  BY <2>2, <3>1, StoreIs DEF StoreFacts
  <2>4. LogicalStore' = memory'
    <3>1. \A a \in Address : LogicalStore'[a] = memory'[a]
      BY <2>1, StoreIsNext DEF StoreFacts
    <3> QED  BY <2>2, <3>1, StoreIsNext DEF StoreFacts
  <2> QED
    BY <1>1, <1>2, <1>4, <2>3, <2>4, AbstractOperators DEF Abstract!Syscall
<1>5. ASSUME ~SYS, write_2DM, memory' = [memory EXCEPT ![address_2DM] = data_2DM]
      PROVE  Abstract!WriteBack(address_2DM) /\ address_2DM \in Address
  <2>1. /\ requested_line \in LineNo /\ line_is_dirty[requested_line]
        /\ address_2DM = LineAddress(requested_line)
        /\ data_2DM = lines[requested_line] /\ address_2DM \in Address
    BY <1>5 DEF CoherenceInv, TransferMatchesMiss, TypeOK, CacheTypeOK
  <2>2. data_2DM = LogicalStore[address_2DM]
    BY <2>1, StoreIs DEF StoreFacts, Occupied
  <2>3. \A l \in LineNo : /\ Occupied(l)' <=> Occupied(l)
                          /\ LineAddress(l)' = LineAddress(l)
    BY <1>1 DEF Occupied, LineAddress
  <2>4. ASSUME NEW a \in Address PROVE LogicalStore'[a] = LogicalStore[a]
    <3>1. CASE \E l \in LineNo : Occupied(l) /\ LineAddress(l) = a
      <4>1. PICK l \in LineNo : Occupied(l) /\ LineAddress(l) = a  BY <3>1
      <4> QED  BY <1>1, <2>3, <4>1, StoreIs, StoreIsNext DEF StoreFacts
    <3>2. CASE \A l \in LineNo : Occupied(l) => LineAddress(l) # a
      <4>1. a # address_2DM  BY <2>1, <3>2 DEF Occupied
      <4>2. memory'[a] = memory[a]  BY <1>5, <4>1 DEF TypeOK, MemoryTypeOK
      <4> QED  BY <2>3, <3>2, <4>2, StoreIs, StoreIsNext DEF StoreFacts
    <3> QED  BY <3>1, <3>2
  <2>5. [a \in Address |-> LogicalStore'[a]] = [a \in Address |-> LogicalStore[a]]
    BY <2>4
  <2>6. LogicalStore' = LogicalStore  BY <2>5, StoreIs, StoreIsNext DEF StoreFacts
  <2> QED
    BY <1>1, <1>2, <1>5, <2>1, <2>2, <2>6 DEF Abstract!WriteBack
<1>6. CASE SYS
  BY <1>3, <1>4, <1>6 DEF MemoryService, ServeSyscall, Abstract!Next
<1>7. CASE ~SYS
  BY <1>3, <1>5, <1>7, AbstractOperators DEF MemoryService, ServeWrite, Abstract!Next
<1> QED  BY <1>6, <1>7

\* The line that a lookup hits holds the requested block.
LEMMA HitHolds ==
  ASSUME TypeOK, CoherenceInv, Hits(request) # {}
  PROVE  LET line == <<request.index, Scan(Hits(request))>> IN
         /\ line \in LineNo /\ Occupied(line) /\ LineAddress(line) = BlockOf(request)
         /\ LogicalStore[BlockOf(request)] = lines[line]
<1> DEFINE line == <<request.index, Scan(Hits(request))>>
<1>1. Hits(request) \subseteq Way /\ request.index \in Index
  BY DEF Hits, TypeOK, Request
<1>2. Scan(Hits(request)) \in Hits(request)  BY <1>1, ScanIsWay
<1>3. line \in LineNo /\ Occupied(line) /\ LineAddress(line) = BlockOf(request)
  BY <1>1, <1>2 DEF Hits, LineNo, Occupied, LineAddress, BlockOf
<1> QED  BY <1>3, StoreIs DEF StoreFacts

\* A falling edge after which the lines hold what they held.
LEMMA FallKeepsStore ==
  ASSUME TypeOK, CoherenceInv, TypeOK', CoherenceInv', Fall,
         UNCHANGED <<lines, tags, line_is_valid, line_is_dirty>>
  PROVE  LogicalStore' = LogicalStore
<1>1. \A l \in LineNo : (Occupied(l) <=> Occupied(l)') /\ LineAddress(l)' = LineAddress(l)
  BY DEF Occupied, LineAddress
<1>2. memory' = memory  BY DEF Fall, memoryVars
<1> QED  BY <1>1, <1>2, StoreKept DEF Keeps

LEMMA UnansweredRefines ==
  ASSUME TypeOK, CoherenceInv, TypeOK', CoherenceInv', Fall,
         Idle(request) \/ Miss(request) \/ HitIncoming(request)
  PROVE  Abstract!Refuse
<1>1. ~OperationAccepted1' /\ UNCHANGED <<lines, tags, line_is_valid, line_is_dirty>>
  BY DEF Idle, Miss, HitIncoming, storeVars
<1>2. Answered' = FALSE /\ AnsweredWords' = <<>>
  BY <1>1 DEF Answered, AnsweredWords
<1> QED
  BY <1>1, <1>2, FallKeepsStore
  DEF Fall, memoryVars, Abstract!Refuse, Abstract!Answer

LEMMA HitReadRefines ==
  ASSUME TypeOK, CoherenceInv, TypeOK', CoherenceInv', Fall, HitRead(request)
  PROVE  Abstract!AcceptRead
<1> DEFINE line == <<request.index, Scan(Hits(request))>>
<1>1. /\ request.op = "read" /\ Hits(request) # {}
      /\ OperationAccepted1' = TRUE
      /\ DataValid2' = (request.word < LINEWORDS - 1)
      /\ ReadData1' = lines[line][request.word]
      /\ DataValid2' => ReadData2' = lines[line][request.word + 1]
      /\ UNCHANGED <<lines, tags, line_is_valid, line_is_dirty>>
  BY DEF HitRead
<1>2. clock' = "rise" /\ clock = "fall" /\ UNCHANGED <<memory, request, SYS>>
  BY DEF Fall, memoryVars
<1>3. LogicalStore[BlockOf(request)] = lines[line]  BY <1>1, HitHolds
<1>4. LogicalStore' = LogicalStore  BY <1>1, FallKeepsStore
<1> HIDE DEF line
<1>5. Answered' = TRUE  BY <1>1, <1>2 DEF Answered
<1>6. AnsweredWords' = Abstract!WordsAt(request)
  BY <1>1, <1>2, <1>3, <1>5, AbstractOperators
  DEF AnsweredWords, Abstract!WordsAt
<1> QED
  BY <1>1, <1>2, <1>4, <1>5, <1>6 DEF Abstract!AcceptRead, Abstract!Answer

LEMMA HitWriteRefines ==
  ASSUME TypeOK, CoherenceInv, TypeOK', CoherenceInv', Fall, HitWrite(request)
  PROVE  Abstract!AcceptWrite
<1> DEFINE line == <<request.index, Scan(Hits(request))>>
           block == BlockOf(request)
<1>1. /\ request.op = "write" /\ Hits(request) # {}
      /\ OperationAccepted1' = TRUE
      /\ lines' = [lines EXCEPT ![line] = MergeWrite(@, request)]
      /\ UNCHANGED <<tags, line_is_valid>>
      /\ line_is_dirty' = [line_is_dirty EXCEPT ![line] = TRUE]
  BY DEF HitWrite
<1>2. clock' = "rise" /\ clock = "fall" /\ UNCHANGED <<memory, request, SYS>>
  BY DEF Fall, memoryVars
<1>3. /\ line \in LineNo /\ Occupied(line) /\ LineAddress(line) = block
      /\ LogicalStore[block] = lines[line]
  BY <1>1, HitHolds
<1>4. MergeWrite(lines[line], request) = Stored(lines[line], request)
  <2>1. request \in Requests
    BY <1>1 DEF CoherenceInv, ClientInv, NoRequest
  <2>2. request \in Request /\ request.lane + request.size <= WORDBYTES
    BY <2>1, RequestAssumption
  <2>3. lines[line] \in Line  BY <1>3 DEF TypeOK, CacheTypeOK
  <2> QED  BY <2>2, <2>3, MergeIsStored
<1> HIDE DEF line
<1>5. \A l \in LineNo :
        /\ Occupied(l)' <=> Occupied(l)
        /\ LineAddress(l)' = LineAddress(l)
        /\ l # line => lines'[l] = lines[l]
        /\ l = line => lines'[l] = Stored(lines[line], request)
  BY <1>1, <1>3, <1>4 DEF Occupied, LineAddress, TypeOK, CacheTypeOK
<1>6. block \in Address
  BY <1>3, LineAddressType DEF TypeOK, CacheTypeOK
<1> DEFINE new == [LogicalStore EXCEPT ![block] = Stored(@, request)]
<1>7. ASSUME NEW a \in Address PROVE LogicalStore'[a] = new[a]
  <2>0. LogicalStore = [b \in Address |-> LogicalStore[b]]  BY StoreIs DEF StoreFacts
  <2>1. CASE a = block
    <3>1. LogicalStore'[block] = Stored(lines[line], request)
      BY <1>3, <1>5, StoreIsNext DEF StoreFacts
    <3>2. new[block] = Stored(LogicalStore[block], request)
      BY <1>6, <2>0
    <3> QED  BY <1>3, <2>1, <3>1, <3>2
  <2>2. CASE a # block
    <3>0. new[a] = LogicalStore[a]  BY <2>0, <2>2
    <3>1. CASE \E l \in LineNo : Occupied(l) /\ LineAddress(l) = a
      <4>1. PICK l \in LineNo : Occupied(l) /\ LineAddress(l) = a  BY <3>1
      <4>2. l # line  BY <1>3, <2>2, <4>1
      <4> HIDE DEF new
      <4> QED
        BY <1>5, <3>0, <4>1, <4>2, StoreIs, StoreIsNext DEF StoreFacts
    <3>2. CASE \A l \in LineNo : Occupied(l) => LineAddress(l) # a
      <4> HIDE DEF new
      <4> QED
        BY <1>2, <1>5, <3>0, <3>2, StoreIs, StoreIsNext DEF StoreFacts
    <3> QED  BY <3>1, <3>2
  <2> QED  BY <2>1, <2>2
<1>8. new = [a \in Address |-> new[a]]  BY StoreIs DEF StoreFacts
<1>9. LogicalStore' = new
  <2> HIDE DEF new
  <2>1. [a \in Address |-> LogicalStore'[a]] = [a \in Address |-> new[a]]  BY <1>7
  <2> QED  BY <1>8, <2>1, StoreIsNext DEF StoreFacts
<1>10. Answered' = TRUE /\ AnsweredWords' = <<>>
  BY <1>1, <1>2 DEF Answered, AnsweredWords
<1>11. LogicalStore' =
         [LogicalStore EXCEPT ![Abstract!BlockOf(request)] = Abstract!Stored(@, request)]
  BY <1>9, AbstractOperators
<1> QED
  BY <1>1, <1>2, <1>10, <1>11 DEF Abstract!AcceptWrite, Abstract!Answer

LEMMA FlushRefines ==
  ASSUME TypeOK, CoherenceInv, TypeOK', CoherenceInv', Fall, Flush(request)
  PROVE  Abstract!Refuse \/ Abstract!AcceptFlush
<1>1. /\ request.op = "flush" /\ UNCHANGED <<lines, tags, line_is_dirty>>
      /\ \A l \in LineNo : line_is_valid'[l] => line_is_valid[l]
  BY DEF Flush
<1>2. clock' = "rise" /\ clock = "fall" /\ UNCHANGED <<memory, request, SYS>>
  BY DEF Fall, memoryVars
<1>3. \A l \in LineNo : /\ LineAddress(l)' = LineAddress(l)
                        /\ Occupied(l)' => Occupied(l)
                        /\ Occupied(l) /\ ~Occupied(l)'
                             => lines[l] = memory[LineAddress(l)]
  BY <1>1 DEF LineAddress, Occupied, CoherenceInv, CleanLinesMatchMemory
<1>4. LogicalStore' = LogicalStore
  <2>1. \A l, m \in LineNo : Occupied(l) /\ Occupied(m)' /\ LineAddress(m)' = LineAddress(l)
          => m = l
    BY <1>3 DEF CoherenceInv, UniqueHolders
  <2> QED  BY <1>1, <1>2, <1>3, <2>1, StoreKept DEF Keeps
<1>5. AnsweredWords' = <<>>  BY <1>1, <1>2 DEF AnsweredWords
<1>6. CASE need_writeback'
  <2>1. Answered' = FALSE  BY <1>6, FlushStops DEF Answered
  <2> QED  BY <1>2, <1>4, <1>5, <2>1 DEF Abstract!Refuse, Abstract!Answer
<1>7. CASE ~need_writeback'
  <2>1. Answered' = TRUE  BY <1>2, <1>7, FlushStops DEF Answered
  <2>2. \A l \in LineNo : ~Occupied(l)'
    BY <1>1, <1>7, FlushStops DEF Occupied
  <2>3. \A a \in Address : LogicalStore'[a] = memory'[a]
    BY <2>2, StoreIsNext DEF StoreFacts
  <2>4. memory' = [a \in Address |-> memory'[a]]  BY DEF TypeOK, MemoryTypeOK
  <2>5. LogicalStore' = memory'  BY <2>3, <2>4, StoreIsNext DEF StoreFacts
  <2> QED
    BY <1>1, <1>2, <1>4, <1>5, <2>1, <2>5 DEF Abstract!AcceptFlush, Abstract!Answer
<1> QED  BY <1>6, <1>7

LEMMA FallRefines ==
  ASSUME TypeOK, CoherenceInv, TypeOK', CoherenceInv', Fall
  PROVE  Abstract!Next
BY UnansweredRefines, HitReadRefines, HitWriteRefines, FlushRefines
DEF Fall, NegEdge, Abstract!Next

LEMMA RiseKeepsStore ==
  ASSUME TypeOK, CoherenceInv, TypeOK', CoherenceInv', Rise
  PROVE  LogicalStore' = LogicalStore
<1>1. memory' = memory  BY DEF Rise, memoryVars
<1>2. CASE NoAnswer(dm_operation_accepted)
  <2>1. UNCHANGED <<lines, tags, line_is_valid, line_is_dirty>>
    BY <1>2 DEF NoAnswer, storeVars
  <2>2. \A l \in LineNo : (Occupied(l) <=> Occupied(l)') /\ LineAddress(l)' = LineAddress(l)
    BY <2>1 DEF Occupied, LineAddress
  <2> QED  BY <1>1, <2>1, <2>2, StoreKept DEF Keeps
<1>3. CASE WritebackDone(dm_operation_accepted)
  <2>1. UNCHANGED <<lines, tags, line_is_valid>>
        /\ line_is_dirty' = [line_is_dirty EXCEPT ![requested_line] = FALSE]
    BY <1>3 DEF WritebackDone
  <2>2. \A l \in LineNo : /\ LineAddress(l)' = LineAddress(l)
                          /\ Occupied(l)' => Occupied(l)
                          /\ Occupied(l) /\ ~Occupied(l)'
                               => lines[l] = memory[LineAddress(l)]
    BY <1>3, <2>1, WritebackStored DEF LineAddress, Occupied, TypeOK, CacheTypeOK
  <2>3. \A l, m \in LineNo : Occupied(l) /\ Occupied(m)' /\ LineAddress(m)' = LineAddress(l)
          => m = l
    BY <2>2 DEF CoherenceInv, UniqueHolders
  <2> QED  BY <1>1, <2>1, <2>2, <2>3, StoreKept DEF Keeps
<1>4. CASE ReadinDone(dm_operation_accepted, block_read)
  <2> DEFINE a == <<requested_tag, requested_index>>
  <2>1. need_readin /\ ~need_writeback /\ block_read = memory[a]
    BY <1>4, ReadinRead
  <2>2. requested_line \in LineNo /\ requested_line[1] = requested_index
        /\ ~line_is_dirty[requested_line]
        /\ \A l \in LineNo : Occupied(l) => line_is_valid[l] /\ LineAddress(l) # a
    BY <2>1, ReadinPlace
  <2>3. /\ requested_line' = requested_line /\ line_is_dirty' = line_is_dirty
        /\ \A l \in LineNo : l # requested_line =>
             /\ lines'[l] = lines[l] /\ tags'[l] = tags[l]
             /\ line_is_valid'[l] = line_is_valid[l]
        /\ lines'[requested_line] = memory[a]
        /\ tags'[requested_line] = requested_tag
        /\ line_is_valid'[requested_line]
    BY <1>4, <2>1, <2>2 DEF ReadinDone, TypeOK, CacheTypeOK
  <2>4. /\ LineAddress(requested_line)' = a /\ Occupied(requested_line)'
        /\ \A l \in LineNo : l # requested_line /\ Occupied(l)' => Keeps(l)
        /\ \A l \in LineNo : l # requested_line /\ Occupied(l) => Keeps(l)
    <3>1. LineAddress(requested_line)' = a  BY <2>2, <2>3 DEF LineAddress
    <3> QED  BY <2>2, <2>3, <3>1 DEF Occupied, LineAddress, Keeps
  <2>5. Occupied(requested_line) =>
          /\ lines[requested_line] = memory[LineAddress(requested_line)]
          /\ \A m \in LineNo : Occupied(m)' => LineAddress(m)' # LineAddress(requested_line)
    <3> SUFFICES ASSUME Occupied(requested_line)
                 PROVE  /\ lines[requested_line] = memory[LineAddress(requested_line)]
                        /\ \A m \in LineNo : Occupied(m)'
                              => LineAddress(m)' # LineAddress(requested_line)
      OBVIOUS
    <3>1. lines[requested_line] = memory[LineAddress(requested_line)]
      BY <2>2 DEF CoherenceInv, CleanLinesMatchMemory
    <3>2. LineAddress(requested_line) # a  BY <2>2
    <3>3. ASSUME NEW m \in LineNo, m # requested_line, Occupied(m)'
          PROVE  LineAddress(m)' # LineAddress(requested_line)
      <4>1. Keeps(m)  BY <2>4, <3>3
      <4> QED  BY <2>2, <3>3, <4>1 DEF Keeps, CoherenceInv, UniqueHolders
    <3>4. ASSUME NEW m \in LineNo, m = requested_line PROVE LineAddress(m)' = a
      BY <2>3, <2>4, <3>4 DEF LineAddress
    <3> HIDE DEF a
    <3> QED  BY <3>1, <3>2, <3>3, <3>4
  <2> HIDE DEF a
  <2> QED  BY <1>1, <2>2, <2>3, <2>4, <2>5, StoreKept
<1> QED  BY <1>2, <1>3, <1>4 DEF Rise, PosEdge

LEMMA RiseRefines ==
  ASSUME TypeOK, CoherenceInv, TypeOK', CoherenceInv', Rise
  PROVE  Abstract!Client
<1>1. /\ clock = "rise" /\ clock' = "service" /\ memory' = memory
      /\ request' \in IF HOLDS /\ request.op # "none" /\ ~OperationAccepted1
                      THEN {request} ELSE Requests
      /\ SYS' \in BOOLEAN
  BY DEF Rise, memoryVars, ChangeRequest, TypeOK
<1>2. Answered = OperationAccepted1 /\ Answered' = FALSE /\ AnsweredWords' = <<>>
  BY <1>1 DEF Answered, AnsweredWords, TypeOK, CacheTypeOK
<1> QED  BY <1>1, <1>2, RiseKeepsStore DEF Abstract!Client

\* The cache and its memory implement one sequential memory: a miss, an
\* eviction, a refill, a flush or a store by the simulator in a system call,
\* in whatever order the edges put them, is never seen by the program, each
\* accepted write replaces exactly the bytes it names, each accepted read
\* returns the current words, and an accepted flush leaves memory current.
THEOREM RefinementHolds == HOLDS => (Spec => ImplementsSequentialMemory)
<1> SUFFICES ASSUME HOLDS PROVE Spec => ImplementsSequentialMemory  OBVIOUS
<1>1. Init => Abstract!Init  BY InitRefines
<1>2. TypeOK /\ CoherenceInv /\ TypeOK' /\ CoherenceInv' /\ [Next]_vars
        => [Abstract!Next]_Abstract!vars
  <2> SUFFICES ASSUME TypeOK, CoherenceInv, TypeOK', CoherenceInv', [Next]_vars
               PROVE  [Abstract!Next]_Abstract!vars
    OBVIOUS
  <2>1. CASE MemoryService  BY <2>1, ServiceRefines
  <2>2. CASE Fall  BY <2>2, FallRefines
  <2>3. CASE Rise  BY <2>3, RiseRefines DEF Abstract!Next
  <2>4. CASE UNCHANGED vars
    <3>1. UNCHANGED <<lines, tags, line_is_valid, line_is_dirty, memory, clock, request,
                      SYS, OperationAccepted1, DataValid2, ReadData1, ReadData2>>
      BY <2>4 DEF vars, cacheVars, storeVars, outVars, memoryVars
    <3>2. \A l \in LineNo : (Occupied(l) <=> Occupied(l)')
                            /\ LineAddress(l)' = LineAddress(l)
      BY <3>1 DEF Occupied, LineAddress
    <3>3. LogicalStore' = LogicalStore  BY <3>1, <3>2, StoreKept DEF Keeps
    <3> QED  BY <3>1, <3>3 DEF Abstract!vars, Answered, AnsweredWords
  <2> QED  BY <2>1, <2>2, <2>3, <2>4 DEF Next
<1> QED
  BY <1>1, <1>2, TypeCorrect, Coherence, PTL DEF Spec, ImplementsSequentialMemory, Abstract!Spec

=============================================================================
