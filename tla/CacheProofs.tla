---------------------------- MODULE CacheProofs ----------------------------
(***************************************************************************)
(* Theorems about CacheSystem for every size of the cache.                 *)
(***************************************************************************)
EXTENDS CacheSystem, TLAPS, WellFoundedInduction, FiniteSetTheorems

----------------------------------------------------------------------------
(* The set scans return what they look for.                                *)

\* A nonempty set of naturals has a least member: the way at which a scan
\* loop stops is the first that satisfies its condition.
LEMMA LeastIsLeast ==
  ASSUME NEW S, S \subseteq Nat, S # {}
  PROVE  Least(S) \in S /\ \A m \in S : Least(S) <= m
<1>1. PICK x \in S : \A y \in S : ~ (<<y, x>> \in OpToRel(<, Nat))
  BY WFMin, NatLessThanWellFounded
<1>2. \A m \in S : x <= m
  <2> TAKE m \in S
  <2>1. ~(m < x)  BY <1>1 DEF OpToRel
  <2> QED  BY <2>1
<1> QED  BY <1>2 DEF Least

\* Way scans leave a way of the cache.
LEMMA ScanIsWay ==
  ASSUME NEW S, S \subseteq Way
  PROVE  Scan(S) \in Way /\ (S # {} => Scan(S) \in S)
<1>1. CASE S = {}  BY <1>1, GeometryAssumption DEF Scan, Way
<1>2. CASE S # {}
  <2>1. S \subseteq Nat  BY DEF Way
  <2> QED  BY <1>2, <2>1, LeastIsLeast DEF Scan
<1> QED  BY <1>1, <1>2

\* The flush scan stops at a line, the first of those it looks for.
LEMMA FirstLineIsFirst ==
  ASSUME NEW S, S \subseteq LineNo, S # {}
  PROVE  FirstLine(S) \in S /\ \A l \in S : AtOrBefore(FirstLine(S), l)
<1> DEFINE I == {l[1] : l \in S}
           i == Least(I)
           T == {m \in S : m[1] = i}
           W == {l[2] : l \in T}
<1>0. \A l \in S : l = <<l[1], l[2]>> /\ l[1] \in Nat /\ l[2] \in Nat
  BY DEF LineNo, Index, Way
<1>1. i \in I /\ \A m \in I : i <= m
  <2>1. I \subseteq Nat /\ I # {}  BY <1>0
  <2> HIDE DEF I
  <2> QED  BY <2>1, LeastIsLeast
<1>2. Least(W) \in W /\ \A m \in W : Least(W) <= m
  <2>1. W \subseteq Nat  BY <1>0
  <2>2. W # {}  BY <1>1
  <2> HIDE DEF W
  <2> QED  BY <2>1, <2>2, LeastIsLeast
<1>3. FirstLine(S) = <<i, Least(W)>>  BY DEF FirstLine
<1>4. PICK l \in S : l[1] = i /\ l[2] = Least(W)  BY <1>2
<1>5. l = <<i, Least(W)>>
  BY <1>4 DEF LineNo
<1>6. ASSUME NEW m \in S PROVE AtOrBefore(FirstLine(S), m)
  <2>1. i <= m[1]  BY <1>1
  <2>2. m[1] = i => Least(W) <= m[2]  BY <1>2
  <2>3. m[1] \in Nat /\ i \in Nat  BY <1>4 DEF LineNo, Index
  <2> HIDE DEF W, i
  <2> QED  BY <1>3, <2>1, <2>2, <2>3 DEF AtOrBefore
<1> QED  BY <1>3, <1>4, <1>5, <1>6

----------------------------------------------------------------------------
(* Type correctness.                                                       *)

LEMMA ZeroTypes ==
  /\ 0 \in Way /\ WAYS - 1 \in Way /\ 0 \in Index /\ 0 \in Tag
  /\ ZeroWord \in Word /\ ZeroLine \in Line /\ NoRequest \in Request
<1>1. 0 \in Way /\ WAYS - 1 \in Way /\ 0 \in Index /\ 0 \in Tag /\ 0 \in Byte
      /\ 0 \in Lane /\ 0 \in WordNo /\ WORDBYTES \in 1 .. WORDBYTES
  BY GeometryAssumption DEF Way, Index, Tag, Byte, Lane, WordNo
<1>2. ZeroWord \in Word  BY <1>1 DEF ZeroWord, Word
<1>3. ZeroLine \in Line  BY <1>2 DEF ZeroLine, Line
<1> QED  BY <1>1, <1>2, <1>3 DEF NoRequest, Request, Op

LEMMA MergeWriteIsLine ==
  ASSUME NEW line \in Line, NEW r \in Request
  PROVE  MergeWrite(line, r) \in Line
<1> DEFINE Merged(w, k) ==
      LET offset == (w - r.word) * WORDBYTES + k - r.lane IN
      IF offset \in 0 .. r.size - 1 THEN r.data[WORDBYTES - r.size + offset]
                                    ELSE line[w][k]
<1>1. ASSUME NEW w \in WordNo, NEW k \in Lane PROVE Merged(w, k) \in Byte
  <2> DEFINE offset == (w - r.word) * WORDBYTES + k - r.lane
  <2>1. r.data \in [Lane -> Byte] /\ r.size \in 1 .. WORDBYTES
    BY DEF Request, Word
  <2>2. CASE offset \in 0 .. r.size - 1
    <3> HIDE DEF offset
    <3>1. WORDBYTES - r.size + offset \in Lane
      BY <2>1, <2>2, GeometryAssumption DEF Lane
    <3> QED  BY <2>1, <2>2, <3>1 DEF offset
  <2>3. CASE offset \notin 0 .. r.size - 1
    <3>1. line[w][k] \in Byte  BY DEF Line, Word
    <3> QED  BY <2>3, <3>1
  <2> QED  BY <2>2, <2>3
<1>2. MergeWrite(line, r) = [w \in WordNo |-> [k \in Lane |-> Merged(w, k)]]
  BY DEF MergeWrite
<1> HIDE DEF Merged
<1> QED  BY <1>1, <1>2 DEF Line, Word

LEMMA TouchIsAge ==
  ASSUME last_used_line \in [LineNo -> Way], NEW l \in LineNo
  PROVE  Touch(l) \in [LineNo -> Way]
BY ZeroTypes, GeometryAssumption DEF Touch, Way

\* The part of the cache's type that the bus stage of the falling edge sets.
BusTypeOK ==
  /\ temp_address \in Address /\ readin_no_wait \in BOOLEAN
  /\ read_2DM \in BOOLEAN /\ write_2DM \in BOOLEAN
  /\ address_2DM \in Address /\ data_2DM \in Line

LEMMA LineAddressType ==
  ASSUME tags \in [LineNo -> Tag], NEW l \in LineNo
  PROVE  LineAddress(l) \in Address
BY DEF LineAddress, Address, LineNo

LEMMA RaiseMemoryRequestType ==
  ASSUME BusTypeOK, RaiseMemoryRequest,
         requested_tag' \in Tag, requested_index' \in Index,
         requested_line' \in LineNo,
         lines \in [LineNo -> Line], tags \in [LineNo -> Tag]
  PROVE  BusTypeOK'
<1>1. CASE RaiseWriteback
  <2>1. LineAddress(requested_line') \in Address  BY LineAddressType
  <2>2. lines[requested_line'] \in Line  OBVIOUS
  <2> QED  BY <1>1, <2>1, <2>2 DEF RaiseWriteback, BusTypeOK
<1>2. CASE WaitReadin  BY <1>2 DEF WaitReadin, BusTypeOK
<1>3. CASE RaiseReadin  BY <1>3 DEF RaiseReadin, BusTypeOK, Address
<1>4. CASE UNCHANGED busVars  BY <1>4 DEF busVars, BusTypeOK
<1> QED  BY <1>1, <1>2, <1>3, <1>4 DEF RaiseMemoryRequest

\* What the lookup leaves of the other variables.
LEMMA NegEdgeType ==
  ASSUME CacheTypeOK, NEW r \in Request, NegEdge(r)
  PROVE  CacheTypeOK'
<1>1. BusTypeOK  BY DEF BusTypeOK, CacheTypeOK
<1>2. Hits(r) \subseteq Way /\ FreeWays(r.index) \subseteq Way
      /\ ColdWays(r.index) \subseteq Way
  BY DEF Hits, FreeWays, ColdWays
<1>3. r.tag \in Tag /\ r.index \in Index /\ r.word \in WordNo
  BY DEF Request
<1>4. <<r.index, Scan(Hits(r))>> \in LineNo
  BY <1>2, <1>3, ScanIsWay DEF LineNo
<1>5. CASE Idle(r)
  <2>1. BusTypeOK'
    BY <1>1, <1>5, RaiseMemoryRequestType DEF Idle, CacheTypeOK, missVars
  <2> QED
    BY <1>5, <2>1 DEF Idle, CacheTypeOK, BusTypeOK, missVars, storeVars,
                      streamVars, flushVars
<1>6. CASE Flush(r)
  <2> DEFINE start == FlushStart
             dirty == {l \in LineNo : AtOrBefore(start, l) /\ line_is_dirty[l]}
             stop  == IF dirty = {} THEN FlushDone ELSE FirstLine(dirty)
  <2>1. dirty # {} => stop \in LineNo  BY FirstLineIsFirst
  <2>2. flush_position' \in LineNo \cup {FlushDone}
    BY <1>6, <2>1 DEF Flush
  <2>3. LastLine \in LineNo
    BY ZeroTypes, GeometryAssumption DEF LastLine, LineNo, Index
  <2>4. requested_line' \in LineNo
    BY <1>6, <2>1, <2>3 DEF Flush, CacheTypeOK
  <2>5. BusTypeOK'
    BY <1>1, <1>6, <2>4, RaiseMemoryRequestType DEF Flush, CacheTypeOK
  <2>6. /\ line_is_valid' \in [LineNo -> BOOLEAN]
        /\ line_incoming' \in [LineNo -> BOOLEAN]
        /\ line_fetch_counter' \in 0 .. LINEWORDS - 1
        /\ need_writeback' \in BOOLEAN
        /\ OperationAccepted1' \in BOOLEAN /\ in_flush' \in BOOLEAN
    BY <1>6, GeometryAssumption DEF Flush, CacheTypeOK
  <2> QED
    BY <1>6, <2>2, <2>4, <2>5, <2>6 DEF Flush, CacheTypeOK, BusTypeOK
<1>7. CASE Miss(r)
  <2>1. requested_line' \in LineNo
    BY <1>2, <1>3, <1>7, ScanIsWay DEF Miss, LineNo
  <2>2. BusTypeOK'
    BY <1>1, <1>3, <1>7, <2>1, RaiseMemoryRequestType DEF Miss, CacheTypeOK
  <2>3. need_writeback' \in BOOLEAN  BY <1>7 DEF Miss
  <2> QED
    BY <1>3, <1>7, <2>1, <2>2, <2>3
    DEF Miss, CacheTypeOK, BusTypeOK, storeVars, streamVars, flushVars
<1>8. CASE HitIncoming(r)
  BY <1>3, <1>4, <1>8
  DEF HitIncoming, Lookup, CacheTypeOK, storeVars, streamVars, flushVars, busVars
<1>9. CASE HitRead(r)
  <2> DEFINE line == <<r.index, Scan(Hits(r))>>
  <2>1. lines[line][r.word] \in Word /\ line \in LineNo
    BY <1>3, <1>4 DEF CacheTypeOK, Line
  <2>2. r.word < LINEWORDS - 1 => lines[line][r.word + 1] \in Word
    BY <1>3, <1>4, GeometryAssumption DEF CacheTypeOK, Line, WordNo
  <2>3. last_used_line' \in [LineNo -> Way]
    BY <1>9, <2>1, TouchIsAge DEF HitRead, CacheTypeOK
  <2> HIDE DEF line
  <2>4. ReadData1' \in Word /\ ReadData2' \in Word
    BY <1>9, <2>1, <2>2 DEF HitRead, CacheTypeOK, line
  <2>5. OperationAccepted1' \in BOOLEAN /\ DataValid2' \in BOOLEAN
    BY <1>9 DEF HitRead
  <2> QED
    BY <1>3, <1>4, <1>9, <2>3, <2>4, <2>5
    DEF HitRead, Lookup, CacheTypeOK, streamVars, flushVars, busVars
<1>10. CASE HitWrite(r)
  <2> DEFINE line == <<r.index, Scan(Hits(r))>>
  <2>1. MergeWrite(lines[line], r) \in Line
    BY <1>4, MergeWriteIsLine DEF CacheTypeOK
  <2>2. lines' \in [LineNo -> Line]
    BY <1>10, <2>1 DEF HitWrite, CacheTypeOK
  <2>3. last_used_line' \in [LineNo -> Way]
    BY <1>4, <1>10, TouchIsAge DEF HitWrite, CacheTypeOK
  <2>4. line_is_dirty' \in [LineNo -> BOOLEAN]
    BY <1>10 DEF HitWrite, CacheTypeOK
  <2>5. OperationAccepted1' \in BOOLEAN /\ DataValid2' \in BOOLEAN
    BY <1>10 DEF HitWrite
  <2> QED
    BY <1>3, <1>4, <1>10, <2>2, <2>3, <2>4, <2>5
    DEF HitWrite, Lookup, CacheTypeOK, streamVars, flushVars, busVars
<1> QED
  BY <1>5, <1>6, <1>7, <1>8, <1>9, <1>10 DEF NegEdge

LEMMA CountDownType ==
  ASSUME CacheTypeOK, CountDown
  PROVE  /\ line_incoming' \in [LineNo -> BOOLEAN]
         /\ incoming_line' \in LineNo
         /\ line_fetch_counter' \in 0 .. LINEWORDS - 1
<1>1. (line_fetch_counter - 1) % LINEWORDS \in 0 .. LINEWORDS - 1
  BY GeometryAssumption DEF CacheTypeOK
<1>2. line_fetch_counter' \in 0 .. LINEWORDS - 1
  BY <1>1 DEF CountDown, CacheTypeOK
<1> QED  BY <1>2 DEF CountDown, CacheTypeOK

LEMMA PosEdgeType ==
  ASSUME CacheTypeOK, NEW accepted \in BOOLEAN, NEW data \in Line,
         PosEdge(accepted, data)
  PROVE  CacheTypeOK'
<1>0. LineAddress(requested_line) \in Address
  BY LineAddressType DEF CacheTypeOK
<1>1. CASE WritebackDone(accepted)
  BY <1>0, <1>1, CountDownType
  DEF WritebackDone, CacheTypeOK, flushVars, outVars
<1>2. CASE ReadinDone(accepted, data)
  <2>1. temp_address' \in Address
    BY <1>2 DEF ReadinDone, CacheTypeOK, Address
  <2>2. line_fetch_counter' \in 0 .. LINEWORDS - 1
    BY <1>2, GeometryAssumption DEF ReadinDone
  <2> QED
    BY <1>2, <2>1, <2>2 DEF ReadinDone, CacheTypeOK, flushVars, outVars
<1>3. CASE NoAnswer(accepted)
  BY <1>0, <1>3, CountDownType
  DEF NoAnswer, CacheTypeOK, missVars, storeVars, flushVars, outVars
<1> QED  BY <1>1, <1>2, <1>3 DEF PosEdge

LEMMA StoredIsLine ==
  ASSUME NEW line \in Line, NEW r \in Request
  PROVE  Stored(line, r) \in Line
<1> DEFINE New(k) == IF r.lane <= k /\ k < r.lane + r.size
                     THEN r.data[WORDBYTES - r.size + k - r.lane]
                     ELSE line[r.word][k]
<1>1. r.data \in [Lane -> Byte] /\ r.size \in 1 .. WORDBYTES
      /\ r.lane \in Lane /\ r.word \in WordNo
  BY DEF Request, Word
<1>2. ASSUME NEW k \in Lane PROVE New(k) \in Byte
  <2>1. line[r.word][k] \in Byte  BY <1>1 DEF Line, Word
  <2>2. r.lane <= k /\ k < r.lane + r.size
          => WORDBYTES - r.size + k - r.lane \in Lane
    BY <1>1, GeometryAssumption DEF Lane
  <2> QED  BY <1>1, <2>1, <2>2
<1>3. Stored(line, r) = [line EXCEPT ![r.word] = [k \in Lane |-> New(k)]]
  BY <1>1 DEF Stored, Line
<1> HIDE DEF New
<1> QED  BY <1>1, <1>2, <1>3 DEF Line, Word

LEMMA MemoryServiceType ==
  ASSUME CacheTypeOK, MemoryTypeOK, SYS \in BOOLEAN, MemoryService
  PROVE  MemoryTypeOK'
<1>1. mem_fsm' \in 0 .. MEM_FSM_GO
  BY FinishesAssumption
  DEF MemoryService, ServeRead, Advanced, MemoryTypeOK, MEM_FSM_GO, MEM_FSM_IDLE
<1>2. block_read' \in Line
  BY DEF MemoryService, ServeRead, MemoryTypeOK, CacheTypeOK
<1>3. block_read_valid' \in BOOLEAN
  BY DEF MemoryService, ServeRead, CacheTypeOK
<1>4. CASE SYS
  <2>1. memory' \in [Address -> Line]
    <3>1. CASE memory' = memory  BY <3>1 DEF MemoryTypeOK
    <3>2. ASSUME NEW r \in Requests,
                 memory' = [memory EXCEPT ![BlockOf(r)] = Stored(@, r)]
          PROVE  memory' \in [Address -> Line]
      <4>1. r \in Request /\ BlockOf(r) \in Address
        BY RequestAssumption DEF BlockOf, Request, Address
      <4>2. Stored(memory[BlockOf(r)], r) \in Line
        BY <4>1, StoredIsLine DEF MemoryTypeOK
      <4> QED  BY <3>2, <4>1, <4>2 DEF MemoryTypeOK
    <3> QED  BY <1>4, <3>1, <3>2 DEF MemoryService, ServeSyscall
  <2> QED
    BY <1>1, <1>2, <1>3, <1>4, <2>1
    DEF MemoryService, ServeSyscall, MemoryTypeOK
<1>5. CASE ~SYS
  BY <1>1, <1>2, <1>3, <1>5
  DEF MemoryService, ServeWrite, MemoryTypeOK, CacheTypeOK
<1> QED  BY <1>4, <1>5

\* Every variable keeps its type, so every index the cache computes (the
\* way a scan leaves, the flush position, the stream-in counter) stays in
\* its array, whatever the number of ways, sets and words of a line.
THEOREM TypeCorrect == Spec => []TypeOK
<1>1. Init => TypeOK
  <2> SUFFICES ASSUME Init PROVE TypeOK  OBVIOUS
  <2>1. <<0, 0>> \in LineNo /\ <<0, 0>> \in Address
    BY ZeroTypes DEF LineNo, Address
  <2>2. 0 \in 0 .. LINEWORDS - 1 /\ 0 \in 0 .. FINISHES + 1
    BY GeometryAssumption, FinishesAssumption
  <2>3. CacheTypeOK
    <3>1. CacheInit  BY DEF Init
    <3>2. /\ lines \in [LineNo -> Line] /\ tags \in [LineNo -> Tag]
          /\ last_used_line \in [LineNo -> Way]
      BY <3>1, ZeroTypes DEF CacheInit
    <3>3. /\ line_is_dirty \in [LineNo -> BOOLEAN]
          /\ line_is_valid \in [LineNo -> BOOLEAN]
          /\ line_incoming \in [LineNo -> BOOLEAN]
      BY <3>1 DEF CacheInit
    <3>4. ReadData1 \in Word /\ ReadData2 \in Word /\ data_2DM \in Line
      BY <3>1, ZeroTypes DEF CacheInit
    <3>5. /\ requested_tag \in Tag /\ requested_index \in Index
          /\ requested_line \in LineNo /\ temp_address \in Address
          /\ incoming_line \in LineNo /\ line_fetch_counter \in 0 .. LINEWORDS - 1
          /\ flush_position \in LineNo \cup {FlushDone}
          /\ address_2DM \in Address
      BY <3>1, <2>1, <2>2, ZeroTypes DEF CacheInit
    <3> QED
      BY <3>1, <3>2, <3>3, <3>4, <3>5 DEF CacheInit, CacheTypeOK
  <2>4. MemoryTypeOK
    <3>1. MemoryInit  BY DEF Init
    <3>2. memory \in [Address -> Line] /\ block_read \in Line
      BY <3>1, ZeroTypes, ImageAssumption DEF MemoryInit
    <3>3. mem_fsm \in 0 .. MEM_FSM_GO
      BY <3>1, <2>2 DEF MemoryInit, MEM_FSM_IDLE, MEM_FSM_GO
    <3> QED  BY <3>1, <3>2, <3>3 DEF MemoryInit, MemoryTypeOK
  <2> QED  BY <2>3, <2>4, ZeroTypes DEF Init, TypeOK
<1>2. TypeOK /\ [Next]_vars => TypeOK'
  <2> SUFFICES ASSUME TypeOK, [Next]_vars PROVE TypeOK'  OBVIOUS
  <2>1. CASE MemoryService
    <3>1. MemoryTypeOK'  BY <2>1, MemoryServiceType DEF TypeOK
    <3>2. CacheTypeOK'
      BY <2>1 DEF MemoryService, TypeOK, CacheTypeOK, cacheVars, missVars,
                  storeVars, streamVars, flushVars, outVars, busVars
    <3> QED  BY <2>1, <3>1, <3>2 DEF MemoryService, TypeOK
  <2>2. CASE Fall
    <3>1. CacheTypeOK'  BY <2>2, NegEdgeType DEF Fall, TypeOK
    <3>2. MemoryTypeOK'  BY <2>2 DEF Fall, TypeOK, MemoryTypeOK, memoryVars
    <3> QED  BY <2>2, <3>1, <3>2 DEF Fall, TypeOK
  <2>3. CASE Rise
    <3>1. dm_operation_accepted \in BOOLEAN
      BY DEF dm_operation_accepted, TypeOK
    <3>2. CacheTypeOK'
      BY <2>3, <3>1, PosEdgeType DEF Rise, TypeOK, MemoryTypeOK
    <3>3. MemoryTypeOK'  BY <2>3 DEF Rise, TypeOK, MemoryTypeOK, memoryVars
    <3>4. request' \in Request
      BY <2>3, RequestAssumption DEF Rise, ChangeRequest, TypeOK
    <3>5. SYS' \in BOOLEAN  BY <2>3 DEF Rise, RaiseSYS
    <3> QED  BY <2>3, <3>2, <3>3, <3>4, <3>5 DEF Rise, TypeOK
  <2>4. CASE UNCHANGED vars
    BY <2>4 DEF vars, TypeOK, CacheTypeOK, MemoryTypeOK, cacheVars, missVars,
                storeVars, streamVars, flushVars, outVars, busVars, memoryVars
  <2> QED  BY <2>1, <2>2, <2>3, <2>4 DEF Next
<1> QED  BY <1>1, <1>2, PTL DEF Spec

----------------------------------------------------------------------------
(* One line streams in at a time.                                          *)

\* While a read is on the wires nothing is streaming in: the bus stage
\* raises it only then, and the line it brings is the next to stream.
OneIncomingInv ==
  OneIncoming /\ (read_2DM => \A l \in LineNo : ~line_incoming[l])

\* The countdown works on the only line that is streaming in, so no line
\* is left marked as incoming.
THEOREM OneIncomingHolds == Spec => []OneIncoming
<1>1. Init => OneIncomingInv
  BY DEF Init, CacheInit, OneIncomingInv, OneIncoming
<1>2. TypeOK /\ OneIncomingInv /\ [Next]_vars => OneIncomingInv'
  <2> SUFFICES ASSUME TypeOK, OneIncomingInv, [Next]_vars
               PROVE  OneIncomingInv'
    OBVIOUS
  <2>1. CASE MemoryService
    BY <2>1 DEF MemoryService, OneIncomingInv, OneIncoming, cacheVars,
                streamVars, busVars
  <2>2. CASE Fall
    <3>1. CASE Idle(request)
      BY <3>1 DEF Idle, RaiseMemoryRequest, RaiseWriteback, WaitReadin,
                  RaiseReadin, streamVars, busVars, OneIncomingInv, OneIncoming
    <3>2. CASE Miss(request)
      BY <3>2 DEF Miss, RaiseMemoryRequest, RaiseWriteback, WaitReadin,
                  RaiseReadin, streamVars, busVars, OneIncomingInv, OneIncoming
    <3>3. CASE Flush(request)
      <4>1. \A l \in LineNo : ~line_incoming'[l]
        BY <3>3 DEF Flush, OneIncomingInv, OneIncoming, TypeOK, CacheTypeOK
      <4> QED  BY <4>1 DEF OneIncomingInv, OneIncoming
    <3>4. CASE HitIncoming(request) \/ HitRead(request) \/ HitWrite(request)
      BY <3>4 DEF HitIncoming, HitRead, HitWrite, streamVars, busVars,
                  OneIncomingInv, OneIncoming
    <3> QED  BY <2>2, <3>1, <3>2, <3>3, <3>4 DEF Fall, NegEdge
  <2>3. CASE Rise
    <3>1. CASE CountDown /\ read_2DM' = read_2DM
      BY <3>1 DEF CountDown, OneIncomingInv, OneIncoming, TypeOK, CacheTypeOK
    <3>2. CASE ReadinDone(dm_operation_accepted, block_read)
      BY <3>2 DEF ReadinDone, AwaitsReadin, OneIncomingInv, OneIncoming,
                  TypeOK, CacheTypeOK
    <3> QED
      BY <2>3, <3>1, <3>2 DEF Rise, PosEdge, WritebackDone, NoAnswer
  <2>4. CASE UNCHANGED vars
    BY <2>4 DEF vars, OneIncomingInv, OneIncoming, cacheVars, streamVars, busVars
  <2> QED  BY <2>1, <2>2, <2>3, <2>4 DEF Next
<1>3. OneIncomingInv => OneIncoming  BY DEF OneIncomingInv
<1> QED  BY <1>1, <1>2, <1>3, TypeCorrect, PTL DEF Spec

----------------------------------------------------------------------------
(* Ages.                                                                   *)

LEMMA TouchKeepsAgesDistinct ==
  ASSUME TypeOK, AgesDistinct, NEW l \in LineNo, last_used_line' = Touch(l)
  PROVE  AgesDistinct'
<1> SUFFICES ASSUME NEW i \in Index, NEW v \in Way, NEW w \in Way, v # w,
                    last_used_line'[<<i, v>>] = last_used_line'[<<i, w>>]
             PROVE  last_used_line'[<<i, v>>] = 0
  BY DEF AgesDistinct
<1> DEFINE a == last_used_line[<<i, v>>]
           b == last_used_line[<<i, w>>]
           Aged(x, m) == IF m = l THEN WAYS - 1
                         ELSE IF i = l[1] /\ x # 0 THEN x - 1 ELSE x
<1>1. <<i, v>> \in LineNo /\ <<i, w>> \in LineNo  BY DEF LineNo
<1>2. a \in Way /\ b \in Way  BY <1>1 DEF TypeOK, CacheTypeOK
<1>3. a = b => a = 0  BY DEF AgesDistinct
<1>4. last_used_line'[<<i, v>>] = Aged(a, <<i, v>>)
      /\ last_used_line'[<<i, w>>] = Aged(b, <<i, w>>)
  BY <1>1 DEF Touch
<1>5. Aged(a, <<i, v>>) = Aged(b, <<i, w>>)  BY <1>4
<1>6. Aged(a, <<i, v>>) = 0
  <2>1. CASE <<i, v>> = l
    <3>1. i = l[1] /\ <<i, w>> # l  BY <2>1
    <3> HIDE DEF a, b
    <3> QED  BY <1>2, <1>5, <2>1, <3>1, GeometryAssumption DEF Way
  <2>2. CASE <<i, w>> = l
    <3>1. i = l[1] /\ <<i, v>> # l  BY <2>2
    <3> HIDE DEF a, b
    <3> QED  BY <1>2, <1>5, <2>2, <3>1, GeometryAssumption DEF Way
  <2>3. CASE <<i, v>> # l /\ <<i, w>> # l
    <3> HIDE DEF a, b
    <3> QED  BY <1>2, <1>3, <1>5, <2>3, GeometryAssumption DEF Way
  <2> QED  BY <2>1, <2>2, <2>3
<1> QED  BY <1>4, <1>6

\* No two recently used lines of a set have the same age, for any number
\* of ways.
THEOREM AgesDistinctHolds == Spec => []AgesDistinct
<1>1. Init => AgesDistinct
  BY DEF Init, CacheInit, AgesDistinct, LineNo
<1>2. TypeOK /\ AgesDistinct /\ [Next]_vars => AgesDistinct'
  <2> SUFFICES ASSUME TypeOK, AgesDistinct, [Next]_vars PROVE AgesDistinct'
    OBVIOUS
  <2>1. CASE UNCHANGED last_used_line  BY <2>1 DEF AgesDistinct
  <2>2. CASE HitRead(request) \/ HitWrite(request)
    <3>1. <<request.index, Scan(Hits(request))>> \in LineNo
      BY ScanIsWay DEF Hits, LineNo, TypeOK, Request
    <3> QED
      BY <2>2, <3>1, TouchKeepsAgesDistinct DEF HitRead, HitWrite
  <2>3. CASE Fall
    BY <2>1, <2>2, <2>3
    DEF Fall, NegEdge, Idle, Flush, Miss, HitIncoming, storeVars
  <2>4. CASE MemoryService \/ Rise \/ UNCHANGED vars
    BY <2>1, <2>4
    DEF MemoryService, Rise, PosEdge, WritebackDone, ReadinDone, NoAnswer, vars,
        cacheVars, storeVars
  <2> QED  BY <2>3, <2>4 DEF Next
<1> QED  BY <1>1, <1>2, TypeCorrect, PTL DEF Spec

\* There are fewer ages than ways, so some way of a set has age 0.
LEMMA SomeWayIsCold ==
  ASSUME TypeOK, AgesDistinct, NEW i \in Index
  PROVE  ColdWays(i) # {}
<1> SUFFICES ASSUME ColdWays(i) = {} PROVE FALSE  OBVIOUS
<1> DEFINE Age == 1 .. WAYS - 1
           age == [w \in Way |-> last_used_line[<<i, w>>]]
<1>1. IsFiniteSet(Way) /\ Cardinality(Way) = WAYS
  BY FS_Interval, GeometryAssumption DEF Way
<1>2. IsFiniteSet(Age) /\ Cardinality(Age) = WAYS - 1
  BY FS_Interval, GeometryAssumption
<1>3. age \in [Way -> Age]
  <2>1. \A w \in Way : last_used_line[<<i, w>>] \in Way
    BY DEF TypeOK, CacheTypeOK, LineNo
  <2>2. \A w \in Way : last_used_line[<<i, w>>] # 0  BY DEF ColdWays
  <2> QED  BY <2>1, <2>2, GeometryAssumption DEF Way
<1>4. PICK v, w \in Way : v # w /\ age[v] = age[w]
  <2> HIDE DEF Age, age
  <2>1. Cardinality(Age) < Cardinality(Way)
    BY <1>1, <1>2, GeometryAssumption
  <2> QED  BY <1>1, <1>2, <1>3, <2>1, FS_PigeonHole
<1> QED  BY <1>3, <1>4 DEF AgesDistinct, ColdWays

\* The victim of the current miss is invalid or cold.
VictimInv ==
  need_readin => ~line_is_valid[requested_line] \/ last_used_line[requested_line] = 0

LEMMA VictimChosen ==
  ASSUME TypeOK, AgesDistinct, Miss(request)
  PROVE  VictimInv'
<1> DEFINE i == request.index
<1>1. i \in Index  BY DEF TypeOK, Request
<1>2. FreeWays(i) \subseteq Way /\ ColdWays(i) \subseteq Way
  BY DEF FreeWays, ColdWays
<1>3. CASE FreeWays(i) # {}
  <2>1. Scan(FreeWays(i)) \in FreeWays(i)  BY <1>2, <1>3, ScanIsWay
  <2>2. requested_line' = <<i, Scan(FreeWays(i))>>  BY <1>3 DEF Miss
  <2> QED  BY <2>1, <2>2 DEF Miss, FreeWays, VictimInv, storeVars
<1>4. CASE FreeWays(i) = {}
  <2>1. Scan(ColdWays(i)) \in ColdWays(i)
    BY <1>1, <1>2, SomeWayIsCold, ScanIsWay
  <2>2. requested_line' = <<i, Scan(ColdWays(i))>>  BY <1>4 DEF Miss
  <2> QED  BY <2>1, <2>2 DEF Miss, ColdWays, VictimInv, storeVars
<1> QED  BY <1>3, <1>4

\* The flush invalidates the lines it leaves requested_line at.
LEMMA FlushedLineInvalid ==
  ASSUME TypeOK, Flush(request)
  PROVE  \/ ~line_is_valid'[requested_line']
         \/ requested_line' = requested_line
<1> DEFINE start == FlushStart
           dirty == {l \in LineNo : AtOrBefore(start, l) /\ line_is_dirty[l]}
<1>1. start \in LineNo \cup {FlushDone}
  BY ZeroTypes DEF FlushStart, TypeOK, CacheTypeOK, LineNo
<1>2. CASE dirty # {}
  <2>1. FirstLine(dirty) \in dirty  BY <1>2, FirstLineIsFirst
  <2>2. AtOrBefore(FirstLine(dirty), FirstLine(dirty))
    BY <2>1 DEF AtOrBefore, LineNo, Way
  <2>3. requested_line' = FirstLine(dirty)  BY <1>2 DEF Flush
  <2> QED  BY <1>2, <2>1, <2>2, <2>3 DEF Flush
<1>3. CASE dirty = {} /\ start # FlushDone
  <2>1. LastLine \in LineNo
    BY ZeroTypes, GeometryAssumption DEF LastLine, LineNo, Index
  <2>2. AtOrBefore(start, LastLine)
    BY <1>1, <1>3, GeometryAssumption
    DEF AtOrBefore, LastLine, LineNo, Index, Way
  <2>3. AtOrBefore(LastLine, FlushDone)
    BY GeometryAssumption DEF AtOrBefore, LastLine, FlushDone
  <2>4. requested_line' = LastLine  BY <1>3 DEF Flush
  <2> QED  BY <1>3, <2>1, <2>2, <2>3, <2>4 DEF Flush
<1>4. CASE dirty = {} /\ start = FlushDone  BY <1>4 DEF Flush
<1> QED  BY <1>2, <1>3, <1>4

LEMMA VictimStep ==
  ASSUME TypeOK, AgesDistinct, VictimInv, [Next]_vars
  PROVE  VictimInv'
<1>1. CASE MemoryService \/ UNCHANGED vars
  BY <1>1 DEF MemoryService, VictimInv, vars, cacheVars, missVars, storeVars
<1>2. CASE Fall
  <2>1. CASE Idle(request)
    BY <2>1 DEF Idle, VictimInv, missVars, storeVars
  <2>2. CASE Flush(request)
    <3>1. /\ need_readin' = need_readin /\ last_used_line' = last_used_line
          /\ line_is_valid'[requested_line] => line_is_valid[requested_line]
      BY <2>2 DEF Flush, TypeOK, CacheTypeOK
    <3> QED  BY <2>2, <3>1, FlushedLineInvalid DEF VictimInv
  <2>3. CASE Miss(request)  BY <2>3, VictimChosen
  <2>4. CASE ~need_readin'  BY <2>4 DEF VictimInv
  <2> QED
    BY <1>2, <2>1, <2>2, <2>3, <2>4
    DEF Fall, NegEdge, HitIncoming, HitRead, HitWrite, Lookup
<1>3. CASE Rise
  BY <1>3 DEF Rise, PosEdge, WritebackDone, ReadinDone, NoAnswer, VictimInv,
              missVars, storeVars
<1> QED  BY <1>1, <1>2, <1>3 DEF Next

\* A valid line is replaced only when it is cold.
THEOREM OnlyColdLinesReplacedHolds == Spec => OnlyColdLinesReplaced
<1>1. Init => VictimInv  BY DEF Init, CacheInit, VictimInv
<1>2. TypeOK /\ AgesDistinct /\ VictimInv /\ [Next]_vars => VictimInv'
  BY VictimStep
<1>3. TypeOK /\ VictimInv /\ [Next]_vars
        => [\A l \in LineNo : line_is_valid[l] /\ tags'[l] # tags[l]
                                 => last_used_line[l] = 0]_vars
  <2> SUFFICES ASSUME TypeOK, VictimInv, Next,
                      NEW l \in LineNo, line_is_valid[l], tags'[l] # tags[l]
               PROVE  last_used_line[l] = 0
    OBVIOUS
  <2>1. CASE ReadinDone(dm_operation_accepted, block_read)
    BY <2>1 DEF ReadinDone, AwaitsReadin, VictimInv, TypeOK, CacheTypeOK
  <2>2. CASE UNCHANGED tags  BY <2>2
  <2> QED
    BY <2>1, <2>2
    DEF Next, MemoryService, Fall, Rise, NegEdge, Idle, Flush, Miss, HitIncoming,
        HitRead, HitWrite, PosEdge, WritebackDone, NoAnswer, cacheVars, storeVars
<1> QED
  BY <1>1, <1>2, <1>3, TypeCorrect, AgesDistinctHolds, PTL
  DEF Spec, OnlyColdLinesReplaced

----------------------------------------------------------------------------
(* A block is in one line.                                                 *)

\* Only a client that keeps its requests may ask for a flush: a flush that
\* overtakes an unfinished miss leaves need_readin set with a line of
\* another set in requested_line.  The data cache's client keeps its
\* requests, the instruction cache's never flushes.
FlushIsKept == HOLDS \/ \A r \in Requests : r.op # "flush"

\* The block that is being read is in no line, the line it goes to is in its
\* set, and while a kept request waits for it nothing else is asked.
MissInv ==
  /\ need_readin =>
       /\ requested_line[1] = requested_index
       /\ \A w \in Way : line_is_valid[<<requested_index, w>>]
                          => tags[<<requested_index, w>>] # requested_tag
  /\ HOLDS /\ need_readin => request.op \in {"read", "write"} /\ ~OperationAccepted1
  /\ request.op = "flush" => HOLDS

LEMMA MissInvFall ==
  ASSUME TypeOK, MissInv, Fall
  PROVE  MissInv'
<1>1. request' = request  BY DEF Fall
<1>2. CASE Idle(request)
  <2>1. ~(HOLDS /\ need_readin)  BY <1>2 DEF Idle, MissInv
  <2> QED  BY <1>1, <1>2, <2>1 DEF Idle, MissInv, missVars, storeVars
<1>3. CASE Flush(request)
  <2>1. ~need_readin /\ need_readin' = need_readin
    BY <1>3 DEF Flush, MissInv
  <2> QED  BY <1>1, <2>1 DEF MissInv
<1>4. CASE Miss(request)
  <2>1. requested_line'[1] = requested_index'  BY <1>4 DEF Miss
  <2>2. \A w \in Way : line_is_valid[<<request.index, w>>]
                       => tags[<<request.index, w>>] # request.tag
    BY <1>4 DEF Miss, Hits
  <2> QED  BY <1>1, <1>4, <2>1, <2>2 DEF Miss, MissInv, storeVars
<1>5. CASE ~need_readin'  BY <1>1, <1>5 DEF MissInv
<1> QED
  BY <1>2, <1>3, <1>4, <1>5
  DEF Fall, NegEdge, HitIncoming, HitRead, HitWrite, Lookup

LEMMA MissInvRise ==
  ASSUME TypeOK, MissInv, FlushIsKept, Rise
  PROVE  MissInv'
<1>1. request'.op = "flush" => HOLDS
  BY DEF Rise, ChangeRequest, MissInv, FlushIsKept
<1>2. CASE ~need_readin'  BY <1>1, <1>2 DEF MissInv
<1>3. CASE need_readin'
  <2>1. /\ need_readin /\ UNCHANGED <<requested_line, requested_index, requested_tag,
                                     line_is_valid, tags, OperationAccepted1>>
    BY <1>3 DEF Rise, PosEdge, WritebackDone, ReadinDone, NoAnswer, missVars,
                storeVars, outVars
  <2>2. HOLDS => request' = request
    BY <2>1 DEF Rise, ChangeRequest, MissInv
  <2> QED  BY <1>1, <2>1, <2>2 DEF MissInv
<1> QED  BY <1>2, <1>3

LEMMA UniqueTagsStep ==
  ASSUME TypeOK, MissInv, UniqueTags, [Next]_vars
  PROVE  UniqueTags'
<1>1. CASE UNCHANGED tags /\ \A l \in LineNo : line_is_valid'[l] => line_is_valid[l]
  BY <1>1 DEF UniqueTags, LineNo
<1>2. CASE Flush(request)
  BY <1>1, <1>2 DEF Flush, TypeOK, CacheTypeOK
<1>3. CASE ReadinDone(dm_operation_accepted, block_read)
  <2> SUFFICES ASSUME NEW i \in Index, NEW v \in Way, NEW w \in Way,
                      line_is_valid'[<<i, v>>], line_is_valid'[<<i, w>>],
                      tags'[<<i, v>>] = tags'[<<i, w>>], v # w
               PROVE  FALSE
    BY DEF UniqueTags
  <2>1. <<i, v>> \in LineNo /\ <<i, w>> \in LineNo /\ <<i, v>> # <<i, w>>
    BY DEF LineNo
  <2>2. /\ tags' = [tags EXCEPT ![requested_line] = requested_tag]
        /\ line_is_valid' = [line_is_valid EXCEPT ![requested_line] = TRUE]
    BY <1>3 DEF ReadinDone
  <2>3. \A m \in LineNo : m # requested_line
           => tags'[m] = tags[m] /\ line_is_valid'[m] = line_is_valid[m]
    BY <2>2 DEF TypeOK, CacheTypeOK
  <2>4. tags'[requested_line] = requested_tag
    BY <2>2 DEF TypeOK, CacheTypeOK
  <2>5. /\ requested_line[1] = requested_index
        /\ \A x \in Way : line_is_valid[<<requested_index, x>>]
                           => tags[<<requested_index, x>>] # requested_tag
    BY <1>3 DEF ReadinDone, AwaitsReadin, MissInv
  <2>6. CASE <<i, v>> = requested_line  BY <2>1, <2>3, <2>4, <2>5, <2>6
  <2>7. CASE <<i, w>> = requested_line  BY <2>1, <2>3, <2>4, <2>5, <2>7
  <2>8. CASE <<i, v>> # requested_line /\ <<i, w>> # requested_line
    BY <2>1, <2>3, <2>8 DEF UniqueTags
  <2> QED  BY <2>6, <2>7, <2>8
<1> QED
  BY <1>1, <1>2, <1>3
  DEF Next, MemoryService, Fall, Rise, NegEdge, Idle, Miss, HitIncoming, HitRead,
      HitWrite, PosEdge, WritebackDone, NoAnswer, vars, cacheVars, storeVars

\* No block is ever in two lines: when memory's answer arrives the block is
\* still in no line of its set, although the miss may have been looked up
\* many times since it was noticed.
THEOREM UniqueTagsHolds == FlushIsKept => (Spec => []UniqueTags)
<1> SUFFICES ASSUME FlushIsKept PROVE Spec => []UniqueTags  OBVIOUS
<1>1. Init => MissInv /\ UniqueTags
  BY DEF Init, CacheInit, NoRequest, MissInv, UniqueTags, LineNo
<1>2. TypeOK /\ MissInv /\ UniqueTags /\ [Next]_vars => MissInv' /\ UniqueTags'
  <2> SUFFICES ASSUME TypeOK, MissInv, UniqueTags, [Next]_vars
               PROVE  MissInv' /\ UniqueTags'
    OBVIOUS
  <2>1. CASE MemoryService \/ UNCHANGED vars
    BY <2>1 DEF MemoryService, MissInv, UniqueTags, vars, cacheVars, missVars,
                storeVars, outVars
  <2>2. MissInv'  BY <2>1, MissInvFall, MissInvRise DEF Next
  <2> QED  BY <2>2, UniqueTagsStep
<1> QED  BY <1>1, <1>2, TypeCorrect, PTL DEF Spec

=============================================================================
