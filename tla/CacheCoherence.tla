--------------------------- MODULE CacheCoherence ---------------------------
(***************************************************************************)
(* Theorems about a CacheSystem whose client keeps each request until it   *)
(* is accepted, as MEM does while Mem_Needs_Stall: the cache and its       *)
(* memory are one sequential memory, for every size of the cache.          *)
(***************************************************************************)
EXTENDS CacheProofs

----------------------------------------------------------------------------
(* The inductive invariant.                                                *)

\* The simulator may store into memory only while nothing is cached.
ClientInv ==
  /\ request \in Requests \cup {NoRequest}
  /\ SYS => request.op = "none" /\ Flushed

\* A block is read for the request on the wires, which misses.
ReadinInv ==
  need_readin =>
    /\ request.op \in {"read", "write"} /\ ~OperationAccepted1
    /\ requested_tag = request.tag /\ requested_index = request.index
    /\ requested_line[1] = request.index
    /\ Hits(request) = {}
    /\ ~need_writeback => ~line_is_dirty[requested_line]

\* Looking the same request up again chooses the same victim.
StableVictim ==
  /\ need_readin /\ need_writeback =>
       /\ FreeWays(request.index) = {}
       /\ requested_line = <<request.index, Scan(ColdWays(request.index))>>
  /\ read_2DM => FreeWays(request.index) # {}

\* The flush has passed every line before flush_position.
FlushInv ==
  /\ need_writeback /\ ~need_readin => in_flush /\ flush_position = requested_line
  /\ in_flush =>
       /\ request.op = "flush" /\ ~OperationAccepted1
       /\ flush_position \in LineNo
       /\ \A l \in LineNo : ~AtOrBefore(flush_position, l)
                              => ~line_is_valid[l] /\ ~line_is_dirty[l]

\* A dirty line is valid, except while a flush writes it back.
DirtyInv ==
  /\ need_writeback => line_is_dirty[requested_line]
  /\ \A l \in LineNo : line_is_dirty[l] /\ ~line_is_valid[l]
                         => need_writeback /\ ~need_readin /\ l = requested_line

Occupied(l) == line_is_valid[l] \/ line_is_dirty[l]

UniqueHolders ==
  \A l, m \in LineNo :
    Occupied(l) /\ Occupied(m) /\ LineAddress(l) = LineAddress(m) => l = m

\* What memory's answer says.
AnswerInv ==
  clock # "service" =>
    /\ block_read_valid => read_2DM /\ block_read = memory[address_2DM]
    /\ block_write_valid /\ ~SYS => write_2DM /\ memory[address_2DM] = data_2DM

CoherenceInv ==
  /\ ClientInv /\ ReadinInv /\ StableVictim /\ FlushInv /\ DirtyInv
  /\ UniqueHolders /\ AnswerInv /\ TransferMatchesMiss /\ CleanLinesMatchMemory

----------------------------------------------------------------------------
(* Steps of the memory service.                                            *)

LEMMA CoherenceInit == Init => CoherenceInv
<1> SUFFICES ASSUME Init PROVE CoherenceInv  OBVIOUS
<1>1. CacheInit /\ clock = "service" /\ request = NoRequest /\ SYS = FALSE
  BY DEF Init
<1>2. ClientInv  BY <1>1 DEF ClientInv
<1>3. ReadinInv /\ StableVictim /\ FlushInv /\ TransferMatchesMiss
  BY <1>1 DEF CacheInit, ReadinInv, StableVictim, FlushInv, TransferMatchesMiss
<1>4. DirtyInv /\ UniqueHolders /\ CleanLinesMatchMemory
  BY <1>1 DEF CacheInit, DirtyInv, UniqueHolders, Occupied, CleanLinesMatchMemory
<1>5. AnswerInv  BY <1>1 DEF AnswerInv
<1> QED  BY <1>2, <1>3, <1>4, <1>5 DEF CoherenceInv

\* A block write stores the contents of the only line that holds its block.
LEMMA WriteKeepsCleanLines ==
  ASSUME TypeOK, CoherenceInv, write_2DM, UNCHANGED cacheVars,
         memory' = [memory EXCEPT ![address_2DM] = data_2DM]
  PROVE  CleanLinesMatchMemory'
<1> SUFFICES ASSUME NEW l \in LineNo, line_is_valid[l], ~line_is_dirty[l]
             PROVE  lines[l] = memory'[LineAddress(l)]
  BY DEF CleanLinesMatchMemory, LineAddress, cacheVars, storeVars
<1>1. line_is_dirty[requested_line] /\ requested_line \in LineNo
      /\ address_2DM = LineAddress(requested_line)
  BY DEF CoherenceInv, TransferMatchesMiss, TypeOK, CacheTypeOK
<1>2. l # requested_line  BY <1>1
<1>3. LineAddress(l) # address_2DM
  BY <1>1, <1>2 DEF CoherenceInv, UniqueHolders, Occupied
<1>4. lines[l] = memory[LineAddress(l)]
  BY DEF CoherenceInv, CleanLinesMatchMemory
<1>5. LineAddress(l) \in Address
  BY LineAddressType DEF TypeOK, CacheTypeOK
<1> QED  BY <1>3, <1>4, <1>5 DEF TypeOK, MemoryTypeOK

\* While SYS is up no transfer is under way and no line is valid.
LEMMA QuietSYS ==
  ASSUME CoherenceInv, SYS
  PROVE  ~read_2DM /\ ~write_2DM /\ Flushed
BY DEF CoherenceInv, ClientInv, TransferMatchesMiss, Flushed

LEMMA ServiceKeepsCoherence ==
  ASSUME TypeOK, CoherenceInv, MemoryService
  PROVE  CoherenceInv'
<1>1. /\ UNCHANGED <<cacheVars, request, SYS>>
      /\ clock = "service" /\ clock' = "fall"
  BY DEF MemoryService
<1>2. ClientInv' /\ ReadinInv' /\ StableVictim' /\ FlushInv' /\ DirtyInv'
      /\ UniqueHolders' /\ TransferMatchesMiss'
  BY <1>1
  DEF CoherenceInv, ClientInv, ReadinInv, StableVictim, FlushInv, DirtyInv,
      UniqueHolders, Occupied, TransferMatchesMiss, Flushed, Hits, FreeWays, ColdWays,
      LineAddress, cacheVars, missVars, storeVars, streamVars, flushVars,
      outVars, busVars
<1>3. CleanLinesMatchMemory'
  <2>1. CASE SYS
    BY <1>1, <2>1, QuietSYS
    DEF CleanLinesMatchMemory, Flushed, LineAddress, cacheVars, storeVars
  <2>2. CASE ~SYS /\ write_2DM
    BY <1>1, <2>2, WriteKeepsCleanLines DEF MemoryService, ServeWrite
  <2>3. CASE ~SYS /\ ~write_2DM
    BY <1>1, <2>3
    DEF MemoryService, ServeWrite, CoherenceInv, CleanLinesMatchMemory,
        LineAddress, cacheVars, storeVars
  <2> QED  BY <2>1, <2>2, <2>3
<1>4. AnswerInv'
  <2>1. UNCHANGED <<read_2DM, write_2DM, address_2DM, data_2DM>>
    BY <1>1 DEF cacheVars, busVars
  <2>2. block_read_valid' => read_2DM /\ block_read' = memory[address_2DM]
    BY DEF MemoryService, ServeRead
  <2>3. read_2DM => ~write_2DM
    BY DEF CoherenceInv, TransferMatchesMiss
  <2>4. read_2DM => memory' = memory
    BY <2>3, QuietSYS DEF MemoryService, ServeWrite
  <2>5. ~SYS /\ block_write_valid' => write_2DM /\ memory'[address_2DM] = data_2DM
    BY DEF MemoryService, ServeWrite, TypeOK, CacheTypeOK, MemoryTypeOK
  <2> QED  BY <1>1, <2>1, <2>2, <2>4, <2>5 DEF AnswerInv
<1> QED  BY <1>2, <1>3, <1>4 DEF CoherenceInv

----------------------------------------------------------------------------
(* Steps of the falling edge.                                              *)

LEMMA ScanOrder ==
  ASSUME NEW l \in LineNo, NEW m \in LineNo
  PROVE  /\ AtOrBefore(l, m) \/ AtOrBefore(m, l)
         /\ AtOrBefore(l, m) /\ AtOrBefore(m, l) => l = m
         /\ AtOrBefore(<<0, 0>>, l)
<1>1. /\ l = <<l[1], l[2]>> /\ m = <<m[1], m[2]>>
      /\ l[1] \in Nat /\ l[2] \in Nat /\ m[1] \in Nat /\ m[2] \in Nat
  BY DEF LineNo, Index, Way
<1>2. AtOrBefore(l, m) \/ AtOrBefore(m, l)  BY <1>1 DEF AtOrBefore
<1>3. AtOrBefore(l, m) /\ AtOrBefore(m, l) => l[1] = m[1] /\ l[2] = m[2]
  BY <1>1 DEF AtOrBefore
<1>4. AtOrBefore(<<0, 0>>, l)  BY <1>1 DEF AtOrBefore
<1> QED  BY <1>1, <1>2, <1>3, <1>4

\* A request that is not being waited for finds the wires idle.
LEMMA NothingNeeded ==
  ASSUME CoherenceInv
  PROVE  /\ request.op = "none" \/ Hits(request) # {}
              => ~need_readin
         /\ request.op # "flush" => ~in_flush
         /\ request.op # "flush" /\ ~need_readin => ~need_writeback
         /\ ~need_readin => ~read_2DM
         /\ ~need_writeback => ~write_2DM
BY DEF CoherenceInv, ReadinInv, FlushInv, TransferMatchesMiss

LEMMA IdleKeepsCoherence ==
  ASSUME TypeOK, CoherenceInv, Fall, Idle(request)
  PROVE  CoherenceInv'
<1>1. ~need_readin /\ ~need_writeback /\ ~in_flush /\ ~read_2DM /\ ~write_2DM
  BY NothingNeeded DEF Idle
<1>2. UNCHANGED <<missVars, storeVars, flushVars, busVars, memory, block_read,
                  block_read_valid, block_write_valid, request, SYS>>
      /\ clock = "fall"
  BY <1>1 DEF Idle, RaiseMemoryRequest, RaiseWriteback, WaitReadin, RaiseReadin,
              missVars, Fall, memoryVars
<1> QED
  BY <1>1, <1>2
  DEF CoherenceInv, ClientInv, ReadinInv, StableVictim, FlushInv, DirtyInv,
      UniqueHolders, Occupied, AnswerInv, TransferMatchesMiss, Flushed,
      CleanLinesMatchMemory, LineAddress, missVars, storeVars, flushVars, busVars

LEMMA HitKeepsCoherence ==
  ASSUME TypeOK, CoherenceInv, Fall,
         HitIncoming(request) \/ HitRead(request) \/ HitWrite(request)
  PROVE  CoherenceInv'
<1> DEFINE line == <<request.index, Scan(Hits(request))>>
<1>1. /\ request.op \in {"read", "write"} /\ Hits(request) # {}
      /\ ~need_readin' /\ ~need_writeback'
  BY DEF HitIncoming, HitRead, HitWrite, Lookup
<1>2. ~need_readin /\ ~need_writeback /\ ~in_flush /\ ~read_2DM /\ ~write_2DM
  BY <1>1, NothingNeeded
<1>3. /\ UNCHANGED <<tags, line_is_valid, in_flush, busVars, memory, block_read,
                     block_read_valid, block_write_valid, request, SYS>>
      /\ clock = "fall"
  BY DEF HitIncoming, HitRead, HitWrite, storeVars, flushVars, Fall, memoryVars
<1>4. line \in LineNo /\ line_is_valid[line]
  <2>1. Hits(request) \subseteq Way /\ request.index \in Index
    BY DEF Hits, TypeOK, Request
  <2>2. Scan(Hits(request)) \in Hits(request)  BY <1>1, <2>1, ScanIsWay
  <2> QED  BY <2>1, <2>2 DEF Hits, LineNo
<1>5. \A l \in LineNo :
        /\ l # line => line_is_dirty'[l] = line_is_dirty[l] /\ lines'[l] = lines[l]
        /\ line_is_dirty[l] => line_is_dirty'[l]
  BY DEF HitIncoming, HitRead, HitWrite, storeVars, TypeOK, CacheTypeOK
<1>6. \/ line_is_dirty'[line]
      \/ line_is_dirty'[line] = line_is_dirty[line] /\ lines'[line] = lines[line]
  BY <1>4 DEF HitIncoming, HitRead, HitWrite, storeVars, TypeOK, CacheTypeOK
<1>7. ~SYS  BY <1>1 DEF CoherenceInv, ClientInv
<1> HIDE DEF line
<1>8. ClientInv'  BY <1>3, <1>7 DEF CoherenceInv, ClientInv
<1>9. ReadinInv' /\ StableVictim' /\ FlushInv' /\ TransferMatchesMiss'
  BY <1>1, <1>2, <1>3
  DEF ReadinInv, StableVictim, FlushInv, TransferMatchesMiss, busVars
<1>10. DirtyInv'
  BY <1>1, <1>2, <1>3, <1>4, <1>5 DEF CoherenceInv, DirtyInv
<1>11. UniqueHolders'
  <2>1. \A l \in LineNo : Occupied(l)' => Occupied(l)
    BY <1>3, <1>4, <1>5 DEF Occupied
  <2> QED  BY <1>3, <2>1 DEF CoherenceInv, UniqueHolders, LineAddress
<1>12. CleanLinesMatchMemory'
  BY <1>3, <1>4, <1>5, <1>6
  DEF CoherenceInv, CleanLinesMatchMemory, LineAddress
<1>13. AnswerInv'
  BY <1>2, <1>3 DEF CoherenceInv, AnswerInv, busVars
<1> QED
  BY <1>8, <1>9, <1>10, <1>11, <1>12, <1>13 DEF CoherenceInv

\* What a miss chooses: a line that can be replaced at once, or one that is
\* dirty and is written back first.
LEMMA MissChoice ==
  ASSUME TypeOK, AgesDistinct, CoherenceInv, Miss(request)
  PROVE  /\ requested_line' \in LineNo /\ requested_line'[1] = request.index
         /\ need_writeback' => /\ line_is_dirty[requested_line']
                               /\ line_is_valid[requested_line']
                               /\ FreeWays(request.index) = {}
                               /\ requested_line' =
                                    <<request.index, Scan(ColdWays(request.index))>>
         /\ ~need_writeback' => /\ ~line_is_dirty[requested_line']
                                /\ FreeWays(request.index) # {}
<1> DEFINE i == request.index
<1>1. i \in Index  BY DEF TypeOK, Request
<1>2. FreeWays(i) \subseteq Way /\ ColdWays(i) \subseteq Way
  BY DEF FreeWays, ColdWays
<1>3. ~need_writeback \/ need_readin
  BY DEF Miss, CoherenceInv, FlushInv
<1>4. CASE FreeWays(i) # {}
  <2>1. Scan(FreeWays(i)) \in FreeWays(i)  BY <1>2, <1>4, ScanIsWay
  <2>2. requested_line' = <<i, Scan(FreeWays(i))>> /\ ~need_writeback'
    BY <1>4 DEF Miss
  <2>3. requested_line' \in LineNo  BY <1>1, <1>2, <2>1, <2>2 DEF LineNo
  <2>4. line_is_dirty[requested_line'] => line_is_valid[requested_line']
    BY <1>3, <2>3 DEF CoherenceInv, DirtyInv
  <2>5. ~line_is_dirty[requested_line']
    BY <2>1, <2>2, <2>4 DEF FreeWays
  <2> QED  BY <1>4, <2>2, <2>3, <2>5
<1>5. CASE FreeWays(i) = {}
  <2>1. Scan(ColdWays(i)) \in ColdWays(i)
    BY <1>1, <1>2, SomeWayIsCold, ScanIsWay
  <2>2. requested_line' = <<i, Scan(ColdWays(i))>> /\ need_writeback'
    BY <1>5 DEF Miss
  <2>3. requested_line' \in LineNo  BY <1>1, <1>2, <2>1, <2>2 DEF LineNo
  <2>4. line_is_dirty[requested_line'] /\ line_is_valid[requested_line']
    BY <1>5, <2>1, <2>2 DEF FreeWays, ColdWays
  <2> QED  BY <1>5, <2>2, <2>3, <2>4
<1> QED  BY <1>4, <1>5

LEMMA MissKeepsTransfer ==
  ASSUME TypeOK, AgesDistinct, CoherenceInv, Fall, Miss(request)
  PROVE  /\ TransferMatchesMiss'
         /\ read_2DM => read_2DM' /\ address_2DM' = address_2DM
         /\ write_2DM => /\ write_2DM' /\ address_2DM' = address_2DM
                         /\ data_2DM' = data_2DM
<1>1. UNCHANGED <<lines, tags, line_is_dirty>>
      /\ need_readin' /\ requested_tag' = request.tag
      /\ requested_index' = request.index
  BY DEF Miss, storeVars
<1>2. read_2DM => /\ need_readin /\ ~need_writeback /\ ~need_writeback'
                  /\ address_2DM = <<request.tag, request.index>>
  BY MissChoice
  DEF CoherenceInv, TransferMatchesMiss, StableVictim, ReadinInv
<1>3. write_2DM => /\ need_writeback /\ need_readin /\ need_writeback'
                   /\ requested_line' = requested_line
                   /\ address_2DM = LineAddress(requested_line)
                   /\ data_2DM = lines[requested_line]
  BY MissChoice
  DEF Miss, CoherenceInv, TransferMatchesMiss, StableVictim, FlushInv
<1>4. need_writeback' => line_is_dirty[requested_line']  BY MissChoice
<1>5. CASE RaiseWriteback
  BY <1>1, <1>2, <1>3, <1>4, <1>5
  DEF RaiseWriteback, TransferMatchesMiss, LineAddress
<1>6. CASE WaitReadin
  BY <1>1, <1>2, <1>3, <1>6 DEF WaitReadin, TransferMatchesMiss
<1>7. CASE RaiseReadin
  BY <1>1, <1>2, <1>3, <1>7 DEF RaiseReadin, TransferMatchesMiss
<1>8. CASE UNCHANGED busVars
  BY <1>1, <1>2, <1>3, <1>4, <1>8 DEF busVars, TransferMatchesMiss, LineAddress
<1> QED  BY <1>5, <1>6, <1>7, <1>8 DEF Miss, RaiseMemoryRequest

LEMMA MissKeepsCoherence ==
  ASSUME TypeOK, AgesDistinct, CoherenceInv, Fall, Miss(request)
  PROVE  CoherenceInv'
<1>1. /\ UNCHANGED <<storeVars, flushVars, memory, block_read, block_read_valid,
                     block_write_valid, request, SYS>>
      /\ need_readin' /\ ~OperationAccepted1' /\ clock = "fall"
      /\ requested_tag' = request.tag /\ requested_index' = request.index
      /\ request.op \in {"read", "write"} /\ Hits(request) = {}
  BY DEF Miss, Fall, memoryVars
<1>2. ~SYS /\ ~in_flush
  BY <1>1, NothingNeeded DEF CoherenceInv, ClientInv
<1>3. ClientInv'  BY <1>1, <1>2 DEF CoherenceInv, ClientInv
<1>4. ReadinInv'
  BY <1>1, MissChoice DEF ReadinInv, Hits, storeVars
<1>5. FlushInv'  BY <1>1, <1>2 DEF FlushInv, flushVars
<1>6. need_writeback => need_readin
  BY <1>2 DEF CoherenceInv, FlushInv
<1>7. DirtyInv'
  BY <1>1, <1>6, MissChoice DEF CoherenceInv, DirtyInv, storeVars
<1>8. UniqueHolders' /\ CleanLinesMatchMemory'
  BY <1>1 DEF CoherenceInv, UniqueHolders, Occupied, CleanLinesMatchMemory,
              LineAddress, storeVars
<1>9. TransferMatchesMiss'  BY MissKeepsTransfer
<1>10. StableVictim'
  <2>1. need_writeback' =>
          /\ FreeWays(request.index)' = {}
          /\ requested_line' = <<request.index, Scan(ColdWays(request.index))>>'
    BY <1>1, MissChoice DEF FreeWays, ColdWays, Scan, Least, storeVars
  <2>2. read_2DM' => FreeWays(request.index)' # {}
    BY <1>1, <1>9, MissChoice DEF FreeWays, storeVars, TransferMatchesMiss
  <2> QED  BY <2>1, <2>2 DEF StableVictim
<1>11. AnswerInv'
  BY <1>1, MissKeepsTransfer DEF CoherenceInv, AnswerInv
<1> QED
  BY <1>3, <1>4, <1>5, <1>7, <1>8, <1>9, <1>10, <1>11 DEF CoherenceInv

----------------------------------------------------------------------------
(* The flush.                                                              *)

\* The scan is at a line, or starts at the first; nothing before it is left.
LEMMA FlushPassed ==
  ASSUME TypeOK, CoherenceInv, Flush(request)
  PROVE  /\ FlushStart = <<0, 0>> \/ FlushStart \in LineNo
         /\ \A l \in LineNo : ~AtOrBefore(FlushStart, l)
                                => ~line_is_valid[l] /\ ~line_is_dirty[l]
         /\ ~need_readin /\ ~read_2DM /\ ~SYS
         /\ need_writeback => requested_line = FlushStart
<1>1. ~need_readin /\ ~SYS
  BY DEF Flush, CoherenceInv, ReadinInv, ClientInv
<1>2. need_writeback => in_flush /\ flush_position = requested_line
  BY <1>1 DEF CoherenceInv, FlushInv
<1>3. CASE in_flush
  BY <1>1, <1>2, <1>3, NothingNeeded
  DEF FlushStart, CoherenceInv, FlushInv
<1>4. CASE ~in_flush
  BY <1>1, <1>2, <1>4, NothingNeeded, ScanOrder DEF FlushStart
<1> QED  BY <1>3, <1>4

\* Where one falling edge of a flush stops.
LEMMA FlushStops ==
  ASSUME TypeOK, CoherenceInv, Flush(request)
  PROVE  /\ need_writeback' =>
              /\ requested_line' \in LineNo /\ flush_position' = requested_line'
              /\ line_is_dirty[requested_line']
              /\ AtOrBefore(FlushStart, requested_line')
              /\ \A l \in LineNo : line_is_dirty[l] => AtOrBefore(requested_line', l)
              /\ \A l \in LineNo :
                   line_is_valid'[l] <=>
                     /\ line_is_valid[l]
                     /\ ~(AtOrBefore(FlushStart, l) /\ AtOrBefore(l, requested_line'))
         /\ ~need_writeback' =>
              \A l \in LineNo : ~line_is_dirty[l] /\ ~line_is_valid'[l]
         /\ in_flush' = need_writeback' /\ OperationAccepted1' = ~need_writeback'
         /\ ~need_readin'
         /\ need_writeback => need_writeback' /\ requested_line' = requested_line
<1> DEFINE dirty == {l \in LineNo : AtOrBefore(FlushStart, l) /\ line_is_dirty[l]}
<1>1. /\ need_writeback' = (dirty # {})
      /\ in_flush' = (dirty # {}) /\ OperationAccepted1' = (dirty = {})
      /\ need_readin' = need_readin
      /\ flush_position' = IF dirty = {} THEN FlushDone ELSE FirstLine(dirty)
      /\ dirty # {} => requested_line' = FirstLine(dirty)
      /\ \A l \in LineNo :
           line_is_valid'[l] <=>
             /\ line_is_valid[l]
             /\ ~(AtOrBefore(FlushStart, l) /\ AtOrBefore(l, flush_position'))
  BY DEF Flush
<1>2. \A l \in LineNo : line_is_dirty[l] <=> l \in dirty
  BY FlushPassed
<1>3. CASE dirty # {}
  <2>1. FirstLine(dirty) \in dirty /\ \A l \in dirty : AtOrBefore(FirstLine(dirty), l)
    BY <1>3, FirstLineIsFirst
  <2>2. need_writeback => requested_line' = requested_line
    <3> SUFFICES ASSUME need_writeback PROVE requested_line' = requested_line
      OBVIOUS
    <3>1. requested_line = FlushStart /\ requested_line \in LineNo
          /\ line_is_dirty[requested_line]
      BY FlushPassed DEF CoherenceInv, DirtyInv, TypeOK, CacheTypeOK
    <3>2. requested_line \in dirty  BY <1>2, <3>1
    <3>3. AtOrBefore(FirstLine(dirty), requested_line)  BY <2>1, <3>2
    <3>4. AtOrBefore(requested_line, FirstLine(dirty))  BY <2>1, <3>1
    <3> QED  BY <1>1, <1>3, <2>1, <3>1, <3>3, <3>4, ScanOrder
  <2> HIDE DEF dirty
  <2>3. FirstLine(dirty) \in LineNo /\ AtOrBefore(FlushStart, FirstLine(dirty))
    BY <2>1 DEF dirty
  <2> QED  BY <1>1, <1>2, <1>3, <2>1, <2>2, <2>3, FlushPassed
<1>4. CASE dirty = {}
  <2>1. \A l \in LineNo : ~line_is_dirty[l]  BY <1>2, <1>4
  <2>2. \A l \in LineNo : AtOrBefore(l, FlushDone)
    BY GeometryAssumption DEF LineNo, Index, Way, AtOrBefore, FlushDone
  <2>3. \A l \in LineNo : ~line_is_valid'[l]
    BY <1>1, <1>4, <2>2, FlushPassed
  <2>4. ~need_writeback
    BY <2>1 DEF CoherenceInv, DirtyInv, TypeOK, CacheTypeOK
  <2> HIDE DEF dirty
  <2> QED  BY <1>1, <1>4, <2>1, <2>3, <2>4, FlushPassed
<1> QED  BY <1>3, <1>4

LEMMA FlushKeepsTransfer ==
  ASSUME TypeOK, CoherenceInv, Fall, Flush(request)
  PROVE  /\ TransferMatchesMiss' /\ ~read_2DM'
         /\ write_2DM => /\ write_2DM' /\ address_2DM' = address_2DM
                         /\ data_2DM' = data_2DM
<1>1. /\ UNCHANGED <<lines, tags, line_is_dirty>>
      /\ ~line_incoming'[incoming_line]
  BY DEF Flush, TypeOK, CacheTypeOK
<1>2. ~read_2DM /\ ~need_readin'  BY FlushPassed, FlushStops
<1>3. CASE need_writeback'
  <2>1. RaiseWriteback  BY <1>1, <1>3 DEF Flush, RaiseMemoryRequest,
                                        WaitReadin, RaiseReadin
  <2>2. line_is_dirty[requested_line']  BY <1>3, FlushStops
  <2>3. write_2DM => /\ requested_line' = requested_line
                     /\ address_2DM = LineAddress(requested_line)
                     /\ data_2DM = lines[requested_line]
    BY FlushStops DEF CoherenceInv, TransferMatchesMiss
  <2> QED
    BY <1>1, <1>2, <1>3, <2>1, <2>2, <2>3
    DEF RaiseWriteback, TransferMatchesMiss, LineAddress
<1>4. CASE ~need_writeback'
  <2>1. ~write_2DM
    BY <1>4, FlushStops DEF CoherenceInv, TransferMatchesMiss
  <2>2. UNCHANGED busVars
    BY <1>2, <1>4 DEF Flush, RaiseMemoryRequest, RaiseWriteback, WaitReadin,
                      RaiseReadin
  <2> QED  BY <1>2, <1>4, <2>1, <2>2 DEF TransferMatchesMiss, busVars
<1> QED  BY <1>3, <1>4

LEMMA FlushKeepsCoherence ==
  ASSUME TypeOK, CoherenceInv, Fall, Flush(request)
  PROVE  CoherenceInv'
<1>1. /\ UNCHANGED <<lines, tags, line_is_dirty, memory, block_read,
                     block_read_valid, block_write_valid, request, SYS>>
      /\ request.op = "flush" /\ clock = "fall"
  BY DEF Flush, Fall, memoryVars
<1>2. ~SYS /\ ~need_readin /\ ~need_readin' /\ ~read_2DM
  BY FlushPassed, FlushStops
<1>3. \A l \in LineNo : line_is_valid'[l] => line_is_valid[l]
  BY DEF Flush
<1>4. ClientInv'  BY <1>1, <1>2 DEF CoherenceInv, ClientInv
<1>5. ReadinInv'  BY <1>2 DEF ReadinInv
<1>6. TransferMatchesMiss' /\ StableVictim'
  BY <1>2, FlushKeepsTransfer DEF StableVictim
<1>7. FlushInv'
  <2> SUFFICES ASSUME need_writeback' PROVE FlushInv'
    BY FlushStops DEF FlushInv
  <2>1. requested_line' \in LineNo /\ flush_position' = requested_line'
        /\ in_flush' /\ ~OperationAccepted1'
    BY FlushStops
  <2>2. ASSUME NEW l \in LineNo, ~AtOrBefore(requested_line', l)
        PROVE  ~line_is_valid'[l] /\ ~line_is_dirty[l]
    <3>1. ~line_is_dirty[l]  BY <2>2, FlushStops
    <3>2. AtOrBefore(l, requested_line')  BY <2>1, <2>2, ScanOrder
    <3>3. CASE AtOrBefore(FlushStart, l)  BY <3>1, <3>2, <3>3, FlushStops
    <3>4. CASE ~AtOrBefore(FlushStart, l)  BY <1>3, <3>1, <3>4, FlushPassed
    <3> QED  BY <3>3, <3>4
  <2> QED  BY <1>1, <2>1, <2>2 DEF FlushInv
<1>8. DirtyInv'
  <2>1. need_writeback' => line_is_dirty'[requested_line']
    BY <1>1, FlushStops
  <2>2. ASSUME NEW l \in LineNo, line_is_dirty[l], ~line_is_valid'[l]
        PROVE  need_writeback' /\ l = requested_line'
    <3>1. need_writeback' /\ requested_line' \in LineNo
          /\ AtOrBefore(requested_line', l)
      BY <2>2, FlushStops
    <3>2. CASE line_is_valid[l]
      <4>1. AtOrBefore(l, requested_line')  BY <2>2, <3>1, <3>2, FlushStops
      <4> QED  BY <3>1, <4>1, ScanOrder
    <3>3. CASE ~line_is_valid[l]
      <4>1. need_writeback /\ l = requested_line
        BY <2>2, <3>3 DEF CoherenceInv, DirtyInv
      <4> QED  BY <3>1, <4>1, FlushStops
    <3> QED  BY <3>2, <3>3
  <2> QED  BY <1>1, <1>2, <2>1, <2>2 DEF DirtyInv
<1>9. UniqueHolders'
  BY <1>1, <1>3 DEF CoherenceInv, UniqueHolders, Occupied, LineAddress
<1>10. CleanLinesMatchMemory'
  BY <1>1, <1>3 DEF CoherenceInv, CleanLinesMatchMemory, LineAddress
<1>11. AnswerInv'
  BY <1>1, <1>2, FlushKeepsTransfer DEF CoherenceInv, AnswerInv
<1> QED
  BY <1>4, <1>5, <1>6, <1>7, <1>8, <1>9, <1>10, <1>11 DEF CoherenceInv

LEMMA FallKeepsCoherence ==
  ASSUME TypeOK, AgesDistinct, CoherenceInv, Fall
  PROVE  CoherenceInv'
BY IdleKeepsCoherence, HitKeepsCoherence, MissKeepsCoherence, FlushKeepsCoherence
DEF Fall, NegEdge

----------------------------------------------------------------------------
(* Steps of the rising edge.                                               *)

\* A client that keeps its requests does so while one is being served.
LEMMA RequestKept ==
  ASSUME HOLDS, TypeOK, CoherenceInv, Rise
  PROVE  /\ need_readin \/ need_writeback \/ in_flush
              => request' = request /\ OperationAccepted1' = OperationAccepted1
                 /\ ~OperationAccepted1 /\ request.op # "none"
         /\ request' \in Requests \cup {NoRequest}
         /\ SYS' => request'.op = "none" /\ Flushed
         /\ clock' = "service"
<1>1. need_readin \/ need_writeback \/ in_flush
        => request.op # "none" /\ ~OperationAccepted1
  BY DEF CoherenceInv, ReadinInv, FlushInv
<1>2. OperationAccepted1' = OperationAccepted1
  BY DEF Rise, PosEdge, WritebackDone, ReadinDone, NoAnswer, outVars
<1>3. request' \in Requests \cup {NoRequest}
  BY DEF Rise, ChangeRequest, CoherenceInv, ClientInv
<1>4. SYS' => request'.op = "none" /\ Flushed
  BY DEF Rise, RaiseSYS
<1> QED  BY <1>1, <1>2, <1>3, <1>4 DEF Rise, ChangeRequest

\* With no answer nothing that the invariant speaks of changes.
LEMMA NoAnswerKeepsCoherence ==
  ASSUME HOLDS, TypeOK, CoherenceInv, Rise, NoAnswer(dm_operation_accepted)
  PROVE  CoherenceInv'
<1>1. UNCHANGED <<missVars, storeVars, flushVars, read_2DM, write_2DM, address_2DM,
                  data_2DM, memory>>
  BY DEF NoAnswer, Rise, memoryVars
<1>2. ClientInv'
  BY <1>1, RequestKept DEF ClientInv, Flushed, missVars, storeVars
<1>3. ReadinInv' /\ StableVictim' /\ FlushInv'
  <2>1. UNCHANGED <<need_readin, need_writeback, requested_tag, requested_index,
                     requested_line, tags, last_used_line, line_is_valid,
                     line_is_dirty, in_flush, flush_position, read_2DM>>
    BY <1>1 DEF missVars, storeVars, flushVars
  <2>2. read_2DM => need_readin  BY DEF CoherenceInv, TransferMatchesMiss
  <2>3. CASE need_readin \/ in_flush
    <3>1. request' = request /\ OperationAccepted1' = OperationAccepted1
      BY <2>3, RequestKept
    <3> QED
      BY <2>1, <3>1
      DEF CoherenceInv, ReadinInv, StableVictim, FlushInv, Hits, FreeWays, ColdWays
  <2>4. CASE ~need_readin /\ ~in_flush
    BY <2>1, <2>2, <2>4 DEF CoherenceInv, ReadinInv, StableVictim, FlushInv
  <2> QED  BY <2>3, <2>4
<1>4. DirtyInv' /\ UniqueHolders' /\ TransferMatchesMiss' /\ CleanLinesMatchMemory'
  BY <1>1
  DEF CoherenceInv, DirtyInv, UniqueHolders, Occupied, TransferMatchesMiss,
      CleanLinesMatchMemory, LineAddress, missVars, storeVars
<1>5. AnswerInv'  BY RequestKept DEF AnswerInv
<1> QED  BY <1>2, <1>3, <1>4, <1>5 DEF CoherenceInv

\* Memory has the line whose writeback it accepts.
LEMMA WritebackStored ==
  ASSUME CoherenceInv, Rise, WritebackDone(dm_operation_accepted)
  PROVE  memory[LineAddress(requested_line)] = lines[requested_line]
BY QuietSYS
DEF Rise, WritebackDone, AwaitsWriteback, dm_operation_accepted, CoherenceInv,
    AnswerInv, TransferMatchesMiss

LEMMA WritebackKeepsCoherence ==
  ASSUME HOLDS, TypeOK, CoherenceInv, Rise, WritebackDone(dm_operation_accepted)
  PROVE  CoherenceInv'
<1>1. /\ UNCHANGED <<need_readin, requested_tag, requested_index, requested_line,
                     lines, tags, line_is_valid, last_used_line, in_flush,
                     flush_position, read_2DM, memory>>
      /\ need_writeback /\ ~need_writeback' /\ ~write_2DM'
  BY DEF WritebackDone, AwaitsWriteback, flushVars, Rise, memoryVars
<1>2. \A l \in LineNo : line_is_dirty'[l] <=> line_is_dirty[l] /\ l # requested_line
  BY DEF WritebackDone, TypeOK, CacheTypeOK
<1>3. requested_line \in LineNo /\ line_is_dirty[requested_line] /\ ~read_2DM
  BY <1>1 DEF TypeOK, CacheTypeOK, CoherenceInv, DirtyInv, TransferMatchesMiss
<1>4. request' = request /\ ~OperationAccepted1' /\ ~SYS'
  BY <1>1, RequestKept
<1>5. ClientInv'  BY <1>4, RequestKept DEF ClientInv
<1>6. ReadinInv'
  BY <1>1, <1>2, <1>3, <1>4 DEF CoherenceInv, ReadinInv, Hits
<1>7. StableVictim' /\ TransferMatchesMiss'
  BY <1>1, <1>3 DEF StableVictim, TransferMatchesMiss
<1>8. FlushInv'
  BY <1>1, <1>2, <1>4 DEF CoherenceInv, FlushInv
<1>9. DirtyInv'
  BY <1>1, <1>2 DEF CoherenceInv, DirtyInv
<1>10. UniqueHolders'
  BY <1>1, <1>2 DEF CoherenceInv, UniqueHolders, Occupied, LineAddress
<1>11. CleanLinesMatchMemory'
  BY <1>1, <1>2, WritebackStored
  DEF CoherenceInv, CleanLinesMatchMemory, LineAddress
<1>12. AnswerInv'  BY RequestKept DEF AnswerInv
<1> QED
  BY <1>5, <1>6, <1>7, <1>8, <1>9, <1>10, <1>11, <1>12 DEF CoherenceInv

\* The block that memory answers with is the requested one, as it is now.
LEMMA ReadinRead ==
  ASSUME CoherenceInv, Rise, ReadinDone(dm_operation_accepted, block_read)
  PROVE  /\ block_read = memory[<<requested_tag, requested_index>>]
         /\ read_2DM /\ ~write_2DM /\ need_readin /\ ~need_writeback
BY DEF Rise, ReadinDone, AwaitsReadin, dm_operation_accepted, CoherenceInv,
       AnswerInv, TransferMatchesMiss

\* It is held by no line, and it replaces a clean one.
LEMMA ReadinPlace ==
  ASSUME TypeOK, CoherenceInv, need_readin, ~need_writeback
  PROVE  /\ requested_line \in LineNo /\ requested_line[1] = requested_index
         /\ ~line_is_dirty[requested_line]
         /\ \A l \in LineNo : Occupied(l)
              => line_is_valid[l] /\ LineAddress(l) # <<requested_tag, requested_index>>
<1>1. \A l \in LineNo : Occupied(l) => line_is_valid[l]
  BY DEF CoherenceInv, DirtyInv, Occupied
<1>2. /\ requested_tag = request.tag /\ requested_index = request.index
      /\ Hits(request) = {}
  BY DEF CoherenceInv, ReadinInv
<1>3. ASSUME NEW l \in LineNo, line_is_valid[l],
             LineAddress(l) = <<requested_tag, requested_index>>
      PROVE  FALSE
  <2>1. l = <<request.index, l[2]>> /\ l[2] \in Way /\ tags[l] = request.tag
    BY <1>2, <1>3 DEF LineAddress, LineNo
  <2>2. l[2] \in Hits(request)  BY <1>3, <2>1 DEF Hits
  <2> QED  BY <1>2, <2>2
<1> QED
  BY <1>1, <1>3 DEF CoherenceInv, ReadinInv, TypeOK, CacheTypeOK

LEMMA ReadinKeepsCoherence ==
  ASSUME HOLDS, TypeOK, CoherenceInv, Rise,
         ReadinDone(dm_operation_accepted, block_read)
  PROVE  CoherenceInv'
<1>1. /\ UNCHANGED <<line_is_dirty, in_flush, flush_position, write_2DM, memory>>
      /\ ~need_writeback' /\ ~need_readin' /\ ~read_2DM' /\ ~write_2DM'
  BY ReadinRead DEF ReadinDone, flushVars, Rise, memoryVars
<1>2. \A l \in LineNo :
        /\ l # requested_line
             => /\ lines'[l] = lines[l] /\ tags'[l] = tags[l]
                /\ line_is_valid'[l] = line_is_valid[l]
        /\ l = requested_line
             => /\ lines'[l] = block_read /\ tags'[l] = requested_tag
                /\ line_is_valid'[l]
  BY DEF ReadinDone, TypeOK, CacheTypeOK
<1>3. request' = request /\ ~OperationAccepted1' /\ ~SYS' /\ ~in_flush
  BY ReadinRead, RequestKept, NothingNeeded DEF CoherenceInv, ReadinInv
<1>4. \A l \in LineNo :
        /\ l # requested_line => LineAddress(l)' = LineAddress(l)
        /\ l = requested_line => LineAddress(l)' = <<requested_tag, requested_index>>
  BY <1>2, ReadinRead, ReadinPlace DEF LineAddress
<1>5. ClientInv'  BY <1>3, RequestKept DEF ClientInv
<1>6. ReadinInv' /\ StableVictim' /\ FlushInv' /\ TransferMatchesMiss'
  BY <1>1, <1>3 DEF ReadinInv, StableVictim, FlushInv, TransferMatchesMiss
<1>7. DirtyInv'
  BY <1>1, <1>2, ReadinRead, ReadinPlace DEF CoherenceInv, DirtyInv, Occupied
<1>8. UniqueHolders'
  <2>1. \A l \in LineNo : l # requested_line /\ Occupied(l)'
          => Occupied(l) /\ LineAddress(l)' # <<requested_tag, requested_index>>
    BY <1>1, <1>2, <1>4, ReadinRead, ReadinPlace DEF Occupied
  <2> QED  BY <1>4, <2>1 DEF CoherenceInv, UniqueHolders
<1>9. CleanLinesMatchMemory'
  BY <1>1, <1>2, <1>4, ReadinRead DEF CoherenceInv, CleanLinesMatchMemory
<1>10. AnswerInv'  BY RequestKept DEF AnswerInv
<1> QED
  BY <1>5, <1>6, <1>7, <1>8, <1>9, <1>10 DEF CoherenceInv

\* The wires to memory always carry what the current request needs, a clean
\* line always equals its block of memory, and the rest of the invariant.
THEOREM Coherence == HOLDS => (Spec => []CoherenceInv)
<1> SUFFICES ASSUME HOLDS PROVE Spec => []CoherenceInv  OBVIOUS
<1>1. Init => CoherenceInv  BY CoherenceInit
<1>2. TypeOK /\ AgesDistinct /\ CoherenceInv /\ [Next]_vars => CoherenceInv'
  <2> SUFFICES ASSUME TypeOK, AgesDistinct, CoherenceInv, [Next]_vars
               PROVE  CoherenceInv'
    OBVIOUS
  <2>1. CASE MemoryService  BY <2>1, ServiceKeepsCoherence
  <2>2. CASE Fall  BY <2>2, FallKeepsCoherence
  <2>3. CASE Rise
    BY <2>3, NoAnswerKeepsCoherence, WritebackKeepsCoherence, ReadinKeepsCoherence
    DEF Rise, PosEdge
  <2>4. CASE UNCHANGED vars
    BY <2>4
    DEF vars, cacheVars, missVars, storeVars, streamVars, flushVars, outVars,
        busVars, memoryVars, CoherenceInv, ClientInv, ReadinInv, StableVictim,
        FlushInv, DirtyInv, UniqueHolders, Occupied, AnswerInv,
        TransferMatchesMiss, CleanLinesMatchMemory, Flushed, Hits, FreeWays,
        ColdWays, LineAddress
  <2> QED  BY <2>1, <2>2, <2>3, <2>4 DEF Next
<1> QED  BY <1>1, <1>2, TypeCorrect, AgesDistinctHolds, PTL DEF Spec

\* The wires to memory carry what the current miss needs.
THEOREM TransferMatchesMissHolds == HOLDS => (Spec => []TransferMatchesMiss)
BY Coherence, PTL DEF CoherenceInv

\* A valid line that was not stored into equals its block of memory.
THEOREM CleanLinesMatchMemoryHolds == HOLDS => (Spec => []CleanLinesMatchMemory)
BY Coherence, PTL DEF CoherenceInv

=============================================================================
