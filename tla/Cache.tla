------------------------------- MODULE Cache -------------------------------
(***************************************************************************)
(* ece401-project3/verilog/Cache.v: a set-associative write-back cache that *)
(* works on both clock edges.  At the falling edge it looks the request up *)
(* and raises a request to memory if it needs one (NegEdge); at the rising *)
(* edge it takes memory's answer (PosEdge).  The instruction cache and the *)
(* data cache of MIPS.v are two instances of this module.                  *)
(*                                                                         *)
(* Within one edge Verilog's blocking assignments (=) are visible at once  *)
(* and non-blocking ones (<=) only after it.  Primed variables read below  *)
(* are the ones the code assigns with =.                                   *)
(***************************************************************************)
EXTENDS CacheGeometry

VARIABLES
  need_writeback, need_readin,               \* what the current miss still needs
  requested_tag, requested_index, requested_line,
  temp_address,
  lines, tags, last_used_line,               \* the line store
  line_is_dirty, line_is_valid, line_incoming,
  incoming_line, line_fetch_counter,         \* the line being streamed in
  in_flush, flush_position,                  \* the flush scan
  readin_no_wait,
  ReadData1, OperationAccepted1, ReadData2, DataValid2,   \* to the pipeline
  read_2DM, write_2DM, address_2DM, data_2DM              \* to memory

missVars   == <<need_writeback, need_readin, requested_tag, requested_index,
                requested_line>>
storeVars  == <<lines, tags, line_is_dirty, line_is_valid, last_used_line>>
streamVars == <<line_incoming, incoming_line, line_fetch_counter>>
flushVars  == <<in_flush, flush_position>>
outVars    == <<ReadData1, OperationAccepted1, ReadData2, DataValid2>>
busVars    == <<read_2DM, write_2DM, address_2DM, data_2DM, readin_no_wait,
                temp_address>>
cacheVars  == <<missVars, storeVars, streamVars, flushVars, outVars, busVars>>

----------------------------------------------------------------------------
(* The reset values.                                                       *)

CacheInit ==
  /\ need_writeback = FALSE /\ need_readin = FALSE
  /\ requested_tag = 0 /\ requested_index = 0 /\ requested_line = <<0, 0>>
  /\ temp_address = <<0, 0>>
  /\ lines = [l \in LineNo |-> ZeroLine]
  /\ tags = [l \in LineNo |-> 0]
  /\ last_used_line = [l \in LineNo |-> 0]
  /\ line_is_dirty = [l \in LineNo |-> FALSE]
  /\ line_is_valid = [l \in LineNo |-> FALSE]
  /\ line_incoming = [l \in LineNo |-> FALSE]
  /\ incoming_line = <<0, 0>> /\ line_fetch_counter = 0
  /\ in_flush = FALSE /\ flush_position = <<0, 0>>
  /\ readin_no_wait = TRUE
  /\ ReadData1 = ZeroWord /\ OperationAccepted1 = FALSE
  /\ ReadData2 = ZeroWord /\ DataValid2 = FALSE
  /\ read_2DM = FALSE /\ write_2DM = FALSE
  /\ address_2DM = <<0, 0>> /\ data_2DM = ZeroLine

----------------------------------------------------------------------------
(* The set scans of the falling edge.                                      *)

Least(S) == CHOOSE n \in S : \A m \in S : n <= m

\* Where a `for (way; way < WAYS && !found)' loop leaves the way.
Scan(S) == IF S = {} THEN WAYS - 1 ELSE Least(S)

Hits(r) == {w \in Way : /\ tags[<<r.index, w>>] = r.tag
                        /\ line_is_valid[<<r.index, w>>]}

\* A first victim scan that ignores the ages.
CleanWays(i) == {w \in Way : ~line_is_valid[<<i, w>>] \/ ~line_is_dirty[<<i, w>>]}

\* Ways that can be replaced without a writeback.
FreeWays(i) == {w \in Way : \/ ~line_is_valid[<<i, w>>]
                            \/ /\ last_used_line[<<i, w>>] = 0
                               /\ ~line_is_dirty[<<i, w>>]}

\* Ways that are not recently used.
ColdWays(i) == {w \in Way : last_used_line[<<i, w>>] = 0}

LineAddress(l) == <<tags[l], l[1]>>

\* Without ageing, the ways of a set that were ever used stay protected.
TouchOnly(l) == [last_used_line EXCEPT ![l] = WAYS - 1]

\* The way just used becomes the youngest; the others age towards 0.
Touch(l) ==
  [m \in LineNo |->
     IF m = l THEN WAYS - 1
     ELSE IF m[1] = l[1] /\ last_used_line[m] # 0 THEN last_used_line[m] - 1
     ELSE last_used_line[m]]

\* A merge that forgets WriteSize1 and stores the whole of WriteData1.
MergeWholeWord(line, r) == [line EXCEPT ![r.word] = r.data]

(***************************************************************************)
(* The line after write r: tWriteData1 and WriteBits1 hold the low-order   *)
(* bytes of WriteData1 left-justified in a line, shifted right to the      *)
(* requested byte; bytes shifted past the end of the line are lost.        *)
(***************************************************************************)

MergeWrite(line, r) ==
  [w \in WordNo |-> [k \in Lane |->
     LET offset == (w - r.word) * WORDBYTES + k - r.lane IN
     IF offset \in 0 .. r.size - 1 THEN r.data[WORDBYTES - r.size + offset]
                                   ELSE line[w][k]]]

----------------------------------------------------------------------------
(* The last part of the falling edge: put what the miss (or the flush)     *)
(* needs on the memory wires, unless a line is still streaming in.         *)

RaiseWriteback ==
  /\ need_writeback'
  /\ temp_address' = LineAddress(requested_line')
  /\ write_2DM' = TRUE
  /\ address_2DM' = LineAddress(requested_line')
  /\ data_2DM' = lines[requested_line']
  /\ readin_no_wait' = FALSE
  /\ UNCHANGED read_2DM

\* One idle edge between a writeback and the read that follows it.
WaitReadin ==
  /\ ~need_writeback' /\ need_readin' /\ ~readin_no_wait
  /\ readin_no_wait' = TRUE
  /\ UNCHANGED <<read_2DM, write_2DM, address_2DM, data_2DM, temp_address>>

RaiseReadin ==
  /\ ~need_writeback' /\ need_readin' /\ readin_no_wait
  /\ temp_address' = <<requested_tag', requested_index'>>
  /\ read_2DM' = TRUE
  /\ address_2DM' = <<requested_tag', requested_index'>>
  /\ UNCHANGED <<write_2DM, data_2DM, readin_no_wait>>

RaiseMemoryRequest ==
  \/ ~line_incoming'[incoming_line] /\ RaiseWriteback
  \/ ~line_incoming'[incoming_line] /\ WaitReadin
  \/ ~line_incoming'[incoming_line] /\ RaiseReadin
  \/ /\ \/ line_incoming'[incoming_line]
        \/ ~need_writeback' /\ ~need_readin'
     /\ UNCHANGED busVars

----------------------------------------------------------------------------
(* The falling edge, one operator for each branch of the lookup.           *)

\* A scan order that never leaves a set.
InSetBefore(l, m) == l[1] = m[1] /\ l[2] <= m[2]

\* Line numbers in the order of the flush scan; FlushDone is LINECOUNT.
AtOrBefore(l, m) == l[1] < m[1] \/ (l[1] = m[1] /\ l[2] <= m[2])

FlushDone == <<SETS, 0>>
LastLine  == <<SETS - 1, WAYS - 1>>

FirstLine(S) ==
  LET i == Least({l[1] : l \in S}) IN
  <<i, Least({l[2] : l \in {m \in S : m[1] = i}})>>

\* A lookup that replaces the first cold way even when it is dirty, without
\* asking for the writeback.
MissNoWriteback(r) ==
  /\ r.op \in {"read", "write"} /\ Hits(r) = {}
  /\ need_readin' = TRUE /\ need_writeback' = FALSE
  /\ requested_tag' = r.tag /\ requested_index' = r.index
  /\ requested_line' = <<r.index, Scan(ColdWays(r.index))>>
  /\ OperationAccepted1' = FALSE /\ DataValid2' = FALSE
  /\ UNCHANGED <<storeVars, streamVars, flushVars, ReadData1, ReadData2>>
  /\ RaiseMemoryRequest

Miss(r) ==
  /\ r.op \in {"read", "write"} /\ Hits(r) = {}
  /\ need_readin' = TRUE
  /\ need_writeback' = (FreeWays(r.index) = {})
  /\ requested_tag' = r.tag /\ requested_index' = r.index
  /\ requested_line' =
       <<r.index, Scan(IF FreeWays(r.index) # {} THEN FreeWays(r.index)
                                                 ELSE ColdWays(r.index))>>
  /\ OperationAccepted1' = FALSE /\ DataValid2' = FALSE
  /\ UNCHANGED <<storeVars, streamVars, flushVars, ReadData1, ReadData2>>
  /\ RaiseMemoryRequest

Lookup(r) ==
  /\ requested_tag' = r.tag /\ requested_index' = r.index
  /\ requested_line' = <<r.index, Scan(Hits(r))>>
  /\ need_readin' = FALSE /\ need_writeback' = FALSE

\* The line is present but its words are still arriving.
HitIncoming(r) ==
  /\ r.op \in {"read", "write"} /\ Hits(r) # {}
  /\ line_incoming[<<r.index, Scan(Hits(r))>>]
  /\ Lookup(r)
  /\ OperationAccepted1' = FALSE /\ DataValid2' = FALSE
  /\ UNCHANGED <<storeVars, streamVars, flushVars, ReadData1, ReadData2, busVars>>

HitRead(r) ==
  LET line == <<r.index, Scan(Hits(r))>> IN
  /\ r.op = "read" /\ Hits(r) # {} /\ ~line_incoming[line]
  /\ Lookup(r)
  /\ OperationAccepted1' = TRUE
  /\ DataValid2' = (r.word < LINEWORDS - 1)
  /\ ReadData1' = lines[line][r.word]
  /\ ReadData2' = IF r.word < LINEWORDS - 1 THEN lines[line][r.word + 1]
                                            ELSE ReadData2
  /\ last_used_line' = Touch(line)
  /\ UNCHANGED <<lines, tags, line_is_dirty, line_is_valid,
                 streamVars, flushVars, busVars>>

\* A store that does not mark its line dirty.
HitWriteClean(r) ==
  LET line == <<r.index, Scan(Hits(r))>> IN
  /\ r.op = "write" /\ Hits(r) # {} /\ ~line_incoming[line]
  /\ Lookup(r)
  /\ OperationAccepted1' = TRUE
  /\ DataValid2' = (r.word < LINEWORDS - 1)
  /\ lines' = [lines EXCEPT ![line] = MergeWrite(@, r)]
  /\ last_used_line' = Touch(line)
  /\ UNCHANGED <<tags, line_is_dirty, line_is_valid, ReadData1, ReadData2,
                 streamVars, flushVars, busVars>>

HitWrite(r) ==
  LET line == <<r.index, Scan(Hits(r))>> IN
  /\ r.op = "write" /\ Hits(r) # {} /\ ~line_incoming[line]
  /\ Lookup(r)
  /\ OperationAccepted1' = TRUE
  /\ DataValid2' = (r.word < LINEWORDS - 1)
  /\ lines' = [lines EXCEPT ![line] = MergeWrite(@, r)]
  /\ line_is_dirty' = [line_is_dirty EXCEPT ![line] = TRUE]
  /\ last_used_line' = Touch(line)
  /\ UNCHANGED <<tags, line_is_valid, ReadData1, ReadData2,
                 streamVars, flushVars, busVars>>

\* A flush that goes on where the last one ended.
FlushResumed == flush_position

FlushStart == IF in_flush THEN flush_position ELSE <<0, 0>>

\* Invalidate lines from the scan position on, up to and including the first
\* dirty one, which is written back before the scan goes on.

Flush(r) ==
  LET start == FlushStart
      dirty == {l \in LineNo : AtOrBefore(start, l) /\ line_is_dirty[l]}
      stop  == IF dirty = {} THEN FlushDone ELSE FirstLine(dirty)
  IN
  /\ r.op = "flush"
  /\ need_writeback' = (dirty # {})
  /\ flush_position' = stop
  /\ requested_line' = IF dirty # {} THEN stop
                       ELSE IF start = FlushDone THEN requested_line
                       ELSE LastLine
  /\ line_is_valid' =
       [l \in LineNo |-> /\ line_is_valid[l]
                         /\ ~(AtOrBefore(start, l) /\ AtOrBefore(l, stop))]
  /\ line_incoming' = [line_incoming EXCEPT ![incoming_line] = FALSE]
  /\ line_fetch_counter' =
       IF line_incoming[incoming_line] THEN 0 ELSE line_fetch_counter
  /\ OperationAccepted1' = (dirty = {})
  /\ in_flush' = (dirty # {})
  /\ UNCHANGED <<need_readin, requested_tag, requested_index, incoming_line,
                 lines, tags, line_is_dirty, last_used_line,
                 ReadData1, ReadData2, DataValid2>>
  /\ RaiseMemoryRequest

\* No request: an unfinished miss keeps asking memory for what it needs.
Idle(r) ==
  /\ r.op = "none"
  /\ OperationAccepted1' = FALSE
  /\ UNCHANGED <<missVars, storeVars, streamVars, flushVars,
                 ReadData1, ReadData2, DataValid2>>
  /\ RaiseMemoryRequest

NegEdge(r) ==
  Idle(r) \/ Flush(r) \/ Miss(r) \/ HitIncoming(r) \/ HitRead(r) \/ HitWrite(r)

----------------------------------------------------------------------------
(* The rising edge: memory's answer, and the countdown of the line that is  *)
(* streaming in.                                                           *)

\* A countdown in a counter wider than LINEWORDBITS.
CountDownPastZero ==
  /\ line_fetch_counter' =
       IF line_incoming[incoming_line]
       THEN line_fetch_counter - 1 ELSE line_fetch_counter
  /\ line_incoming' =
       IF line_fetch_counter = 0
       THEN [line_incoming EXCEPT ![incoming_line] = FALSE] ELSE line_incoming
  /\ UNCHANGED incoming_line

CountDown ==
  /\ line_fetch_counter' =
       IF line_incoming[incoming_line]
       THEN (line_fetch_counter - 1) % LINEWORDS ELSE line_fetch_counter
  /\ line_incoming' =
       IF line_fetch_counter = 0
       THEN [line_incoming EXCEPT ![incoming_line] = FALSE] ELSE line_incoming
  /\ UNCHANGED incoming_line

AwaitsWriteback ==
  need_writeback /\ write_2DM /\ address_2DM = LineAddress(requested_line)

AwaitsReadin ==
  ~need_writeback /\ need_readin /\ read_2DM /\ address_2DM = temp_address

\* A writeback that leaves write_2DM high.
WritebackKeepsWire(accepted) ==
  /\ AwaitsWriteback /\ accepted
  /\ need_writeback' = FALSE
  /\ temp_address' = LineAddress(requested_line)
  /\ line_is_dirty' = [line_is_dirty EXCEPT ![requested_line] = FALSE]
  /\ CountDown
  /\ UNCHANGED <<need_readin, requested_tag, requested_index, requested_line,
                 lines, tags, last_used_line, line_is_valid, flushVars, outVars,
                 read_2DM, write_2DM, address_2DM, data_2DM, readin_no_wait>>

WritebackDone(accepted) ==
  /\ AwaitsWriteback /\ accepted
  /\ write_2DM' = FALSE /\ need_writeback' = FALSE
  /\ temp_address' = LineAddress(requested_line)
  /\ line_is_dirty' = [line_is_dirty EXCEPT ![requested_line] = FALSE]
  /\ CountDown
  /\ UNCHANGED <<need_readin, requested_tag, requested_index, requested_line,
                 lines, tags, last_used_line, line_is_valid, flushVars, outVars,
                 read_2DM, address_2DM, data_2DM, readin_no_wait>>

\* A fill that does not record which line is streaming in.
ReadinForgetsLine(accepted, data_fDM) ==
  /\ AwaitsReadin /\ accepted
  /\ temp_address' = <<requested_tag, requested_index>>
  /\ read_2DM' = FALSE /\ need_readin' = FALSE
  /\ tags' = [tags EXCEPT ![requested_line] = requested_tag]
  /\ lines' = [lines EXCEPT ![requested_line] = data_fDM]
  /\ line_incoming' = [line_incoming EXCEPT ![requested_line] = TRUE]
  /\ line_is_valid' = [line_is_valid EXCEPT ![requested_line] = TRUE]
  /\ line_fetch_counter' = LINEWORDS - 1
  /\ UNCHANGED <<incoming_line, need_writeback, requested_tag, requested_index,
                 requested_line, line_is_dirty, last_used_line, flushVars, outVars,
                 write_2DM, address_2DM, data_2DM, readin_no_wait>>

\* A fill that leaves the tag of the line's last block.
ReadinKeepsTag(accepted, data_fDM) ==
  /\ AwaitsReadin /\ accepted
  /\ temp_address' = <<requested_tag, requested_index>>
  /\ read_2DM' = FALSE /\ need_readin' = FALSE
  /\ lines' = [lines EXCEPT ![requested_line] = data_fDM]
  /\ line_incoming' = [line_incoming EXCEPT ![requested_line] = TRUE]
  /\ line_is_valid' = [line_is_valid EXCEPT ![requested_line] = TRUE]
  /\ line_fetch_counter' = LINEWORDS - 1
  /\ incoming_line' = requested_line
  /\ UNCHANGED <<need_writeback, requested_tag, requested_index, requested_line,
                 tags, line_is_dirty, last_used_line, flushVars, outVars,
                 write_2DM, address_2DM, data_2DM, readin_no_wait>>

ReadinDone(accepted, data_fDM) ==
  /\ AwaitsReadin /\ accepted
  /\ temp_address' = <<requested_tag, requested_index>>
  /\ read_2DM' = FALSE /\ need_readin' = FALSE
  /\ tags' = [tags EXCEPT ![requested_line] = requested_tag]
  /\ lines' = [lines EXCEPT ![requested_line] = data_fDM]
  /\ line_incoming' = [line_incoming EXCEPT ![requested_line] = TRUE]
  /\ line_is_valid' = [line_is_valid EXCEPT ![requested_line] = TRUE]
  /\ line_fetch_counter' = LINEWORDS - 1
  /\ incoming_line' = requested_line
  /\ UNCHANGED <<need_writeback, requested_tag, requested_index, requested_line,
                 line_is_dirty, last_used_line, flushVars, outVars,
                 write_2DM, address_2DM, data_2DM, readin_no_wait>>

NoAnswer(accepted) ==
  /\ ~(accepted /\ (AwaitsWriteback \/ AwaitsReadin))
  /\ temp_address' = IF need_writeback THEN LineAddress(requested_line)
                                       ELSE temp_address
  /\ CountDown
  /\ UNCHANGED <<missVars, storeVars, flushVars, outVars,
                 read_2DM, write_2DM, address_2DM, data_2DM, readin_no_wait>>

PosEdge(accepted, data_fDM) ==
  \/ WritebackDone(accepted)
  \/ ReadinDone(accepted, data_fDM)
  \/ NoAnswer(accepted)

----------------------------------------------------------------------------

CacheTypeOK ==
  /\ need_writeback \in BOOLEAN /\ need_readin \in BOOLEAN
  /\ requested_tag \in Tag /\ requested_index \in Index
  /\ requested_line \in LineNo /\ temp_address \in Address
  /\ lines \in [LineNo -> Line] /\ tags \in [LineNo -> Tag]
  /\ last_used_line \in [LineNo -> Way]
  /\ line_is_dirty \in [LineNo -> BOOLEAN]
  /\ line_is_valid \in [LineNo -> BOOLEAN]
  /\ line_incoming \in [LineNo -> BOOLEAN]
  /\ incoming_line \in LineNo /\ line_fetch_counter \in 0 .. LINEWORDS - 1
  /\ in_flush \in BOOLEAN /\ flush_position \in LineNo \cup {FlushDone}
  /\ readin_no_wait \in BOOLEAN
  /\ ReadData1 \in Word /\ OperationAccepted1 \in BOOLEAN
  /\ ReadData2 \in Word /\ DataValid2 \in BOOLEAN
  /\ read_2DM \in BOOLEAN /\ write_2DM \in BOOLEAN
  /\ address_2DM \in Address /\ data_2DM \in Line

=============================================================================
