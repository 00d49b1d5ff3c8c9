---------------------------- MODULE CacheSystem ----------------------------
(***************************************************************************)
(* A cache of ece401-project3 between the pipeline and sim_main's memory.  *)
(* One turn of the simulator's loop is three steps:                        *)
(*   MemoryService  the block transfers, before the falling edge;          *)
(*   Fall           the cache's falling edge;                              *)
(*   Rise           its rising edge, at which the pipeline also reads the  *)
(*                  cache's answer and changes its request.                *)
(***************************************************************************)
EXTENDS Cache, BlockMemory

CONSTANT HOLDS   \* whether the client keeps a request until it is accepted

ASSUME HoldsAssumption == HOLDS \in BOOLEAN

VARIABLES
  clock,     \* which of the three steps comes next
  request,   \* the request on the cache's input wires
  SYS        \* MIPS.v's SYS output

vars == <<cacheVars, memoryVars, clock, request, SYS>>

Init ==
  /\ CacheInit /\ MemoryInit
  /\ clock = "service" /\ request = NoRequest /\ SYS = FALSE

MemoryService ==
  /\ clock = "service" /\ clock' = "fall"
  /\ ServeRead(read_2DM, address_2DM)
  /\ IF SYS THEN ServeSyscall ELSE ServeWrite(write_2DM, address_2DM, data_2DM)
  /\ UNCHANGED <<cacheVars, request, SYS>>

Fall ==
  /\ clock = "fall" /\ clock' = "rise"
  /\ NegEdge(request)
  /\ UNCHANGED <<memoryVars, request, SYS>>

dm_operation_accepted ==
  (read_2DM /\ block_read_valid) \/ (write_2DM /\ block_write_valid)

\* MEM keeps its request while Mem_Needs_Stall; IF keeps Instr_PC_Plus4 while
\* the fetch is not valid, but a redirect changes the address at once.
ChangeRequest ==
  request' \in IF HOLDS /\ request.op # "none" /\ ~OperationAccepted1
               THEN {request} ELSE Requests

\* SYS promises that all cache lines are flushed and invalidated; the
\* pipeline has nothing else in flight.
Flushed ==
  /\ \A l \in LineNo : ~line_is_valid[l] /\ ~line_is_dirty[l]
  /\ ~need_readin /\ ~need_writeback

RaiseSYS ==
  SYS' \in IF Flushed /\ request'.op = "none" THEN BOOLEAN ELSE {FALSE}

Rise ==
  /\ clock = "rise" /\ clock' = "service"
  /\ PosEdge(dm_operation_accepted, block_read)
  /\ ChangeRequest /\ RaiseSYS
  /\ UNCHANGED memoryVars

Next == MemoryService \/ Fall \/ Rise

Spec == Init /\ [][Next]_vars

\* sim_main's loop keeps the clock running.
FairSpec == Spec /\ WF_vars(Next)

----------------------------------------------------------------------------
(* Invariants.                                                             *)

TypeOK ==
  /\ CacheTypeOK /\ MemoryTypeOK
  /\ clock \in {"service", "fall", "rise"}
  /\ request \in Request /\ SYS \in BOOLEAN

\* No block is in two lines of its set, so a lookup can match only one: a
\* line is filled with a tag only while no other valid line has it (the
\* request that missed is looked up again before memory's answer arrives).
UniqueTags ==
  \A i \in Index, v, w \in Way :
    /\ line_is_valid[<<i, v>>] /\ line_is_valid[<<i, w>>]
    /\ tags[<<i, v>>] = tags[<<i, w>>]
    => v = w

\* The ages of a set's recently used lines are all different.  There are
\* fewer ages than ways, so a set always has a line that is not recently
\* used and the second victim scan (lines 203-212) finds one.
AgesDistinct ==
  \A i \in Index, v, w \in Way :
    last_used_line[<<i, v>>] = last_used_line[<<i, w>>]
    => v = w \/ last_used_line[<<i, v>>] = 0

\* A valid line that is replaced was not recently used, whatever the edges
\* (a writeback, the wait, the read) between the choice of the victim and
\* the fill, and whichever ways are dirty.
OnlyColdLinesReplaced ==
  [][\A l \in LineNo : line_is_valid[l] /\ tags'[l] # tags[l]
                          => last_used_line[l] = 0]_vars

\* Only one line is ever streaming in, the one incoming_line names: the
\* countdown clears no other line's flag, which would stay set for good.
OneIncoming == \A l \in LineNo : line_incoming[l] => l = incoming_line

\* A valid line that was not stored into equals its block of memory, so it
\* can be replaced without a writeback.
CleanLinesMatchMemory ==
  \A l \in LineNo :
    line_is_valid[l] /\ ~line_is_dirty[l] => lines[l] = memory[LineAddress(l)]

\* When a flush is accepted no line is valid or dirty: every stored word is
\* in memory when SYS hands it to the simulator.
FlushLeavesNothing ==
  clock = "rise" /\ OperationAccepted1 /\ request.op = "flush" => Flushed

\* The wires to memory carry what the current miss needs, never a request
\* left over from an earlier one: one transfer at a time, a writeback with
\* the victim's own address and contents, a read of the block requested.
TransferMatchesMiss ==
  /\ write_2DM => /\ need_writeback /\ line_is_dirty[requested_line]
                  /\ address_2DM = LineAddress(requested_line)
                  /\ data_2DM = lines[requested_line]
  /\ read_2DM => /\ need_readin /\ ~need_writeback
                 /\ address_2DM = <<requested_tag, requested_index>>

----------------------------------------------------------------------------
(* The cache and its memory implement one sequential memory.               *)

\* A line holds a block while it is valid and, during a flush, while its
\* writeback is still to come.
Holders(a) == {l \in LineNo : /\ LineAddress(l) = a
                              /\ line_is_valid[l] \/ line_is_dirty[l]}

LogicalStore ==
  [a \in Address |->
     IF Holders(a) = {} THEN memory[a] ELSE lines[CHOOSE l \in Holders(a) : TRUE]]

Answered == clock = "rise" /\ OperationAccepted1

AnsweredWords ==
  IF ~Answered \/ request.op # "read" THEN <<>>
  ELSE IF DataValid2 THEN <<ReadData1, ReadData2>> ELSE <<ReadData1>>

Abstract == INSTANCE SequentialMemory WITH
  store    <- LogicalStore,
  backing  <- memory,
  turn     <- IF clock = "rise" THEN "client" ELSE "cache",
  accepted <- Answered,
  words    <- AnsweredWords

\* Every accepted read returns what the last accepted write left, eviction,
\* refill and flush change nothing the program sees, and only current data
\* is written back.
ImplementsSequentialMemory == Abstract!Spec

----------------------------------------------------------------------------
(* Liveness.                                                               *)

\* A request that its client keeps up is accepted: misses, writebacks, the
\* wait between them, the stream-in countdown and memory's recovery all end.
RequestServed ==
  clock = "fall" /\ request.op # "none" ~> clock = "rise" /\ OperationAccepted1

=============================================================================
