--------------------------- MODULE CacheGeometry ---------------------------
(***************************************************************************)
(* The vocabulary shared by the caches of ece401-project3 and the memory   *)
(* behind them: addresses split into tag, index, word and byte lane (the   *)
(* bit fields of Cache.v), lines of words of bytes, and the requests a     *)
(* pipeline stage can put on a cache's input wires.                        *)
(***************************************************************************)
EXTENDS Integers

CONSTANTS
  WAYS,       \* lines per set
  SETS,       \* sets
  TAGS,       \* number of tags memory has blocks for
  LINEWORDS,  \* words per line
  WORDBYTES,  \* bytes per word
  BYTES,      \* number of byte values
  Requests,   \* the inputs the pipeline may apply
  Images      \* what the loader may leave in memory

ASSUME GeometryAssumption ==
  /\ WAYS \in Nat /\ WAYS >= 2
  /\ SETS \in Nat /\ SETS >= 1
  /\ TAGS \in Nat /\ TAGS >= 1
  /\ LINEWORDS \in Nat /\ LINEWORDS >= 2
  /\ WORDBYTES \in Nat /\ WORDBYTES >= 1
  /\ BYTES \in Nat /\ BYTES >= 1

Way   == 0 .. WAYS - 1
Index == 0 .. SETS - 1
Tag   == 0 .. TAGS - 1
Lane  == 0 .. WORDBYTES - 1
WordNo == 0 .. LINEWORDS - 1

\* A cache line's number is the concatenation {index, way}.
LineNo == Index \X Way

\* A line-aligned address is the concatenation {tag, index, 0}.
Address == Tag \X Index

Byte == 0 .. BYTES - 1
Word == [Lane -> Byte]          \* lane 0 is the most significant byte
Line == [WordNo -> Word]

ZeroWord == [k \in Lane |-> 0]
ZeroLine == [w \in WordNo |-> ZeroWord]

(***************************************************************************)
(* The input wires of one cycle: at most one of Read1, Write1 and Flush1   *)
(* ("none" when all are low), the address fields, and for a write its size *)
(* in bytes (WriteSize1, where 0 stands for a whole word) and WriteData1,  *)
(* whose low-order `size' bytes are stored.                                *)
(***************************************************************************)
Op == {"none", "read", "write", "flush"}

Request == [op : Op, tag : Tag, index : Index, word : WordNo, lane : Lane,
            size : 1 .. WORDBYTES, data : Word]

\* MEM.v cuts an unaligned store at the end of its word (swl, swr), and the
\* other stores are aligned.
ASSUME RequestAssumption ==
  /\ Requests \subseteq Request
  /\ \A r \in Requests : r.lane + r.size <= WORDBYTES

ASSUME ImageAssumption == Images \subseteq [Address -> Line]

BlockOf(r) == <<r.tag, r.index>>

\* Every wire low: Read1 = Write1 = Flush1 = 0 and a zero address.
NoRequest == [op |-> "none", tag |-> 0, index |-> 0, word |-> 0, lane |-> 0,
              size |-> WORDBYTES, data |-> ZeroWord]

(***************************************************************************)
(* What a store means: the low-order `size' bytes of the data replace the  *)
(* bytes of the word from the addressed lane on.                           *)
(***************************************************************************)
Stored(line, r) ==
  [line EXCEPT ![r.word] =
     [k \in Lane |-> IF r.lane <= k /\ k < r.lane + r.size
                     THEN r.data[WORDBYTES - r.size + k - r.lane] ELSE @[k]]]

=============================================================================
