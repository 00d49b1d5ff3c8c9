------------------------------ MODULE MCCache ------------------------------
(***************************************************************************)
(* Small instances of CacheSystem for TLC.                                 *)
(***************************************************************************)
EXTENDS CacheSystem

MCRead(t, i, w) == [NoRequest EXCEPT !.op = "read", !.tag = t, !.index = i, !.word = w]

MCWrite(t, i, w, d) ==
  [MCRead(t, i, w) EXCEPT !.op = "write", !.data = [k \in Lane |-> d]]

MCFlush == [NoRequest EXCEPT !.op = "flush"]

\* Only word 0 is stored to; word 1 of every block keeps the block's tag, so
\* that a line filled from or written back to a wrong address, or a wrong
\* word of it, is noticed.
MCImages == {[a \in Address |-> [w \in WordNo |->
                [k \in Lane |-> IF w = 1 THEN a[1] ELSE 0]]]}

\* What MEM sends to the data cache: three blocks compete for the two ways of
\* a set, two of them stored to, while the other set holds a stored line too;
\* the byte store leaves the other lane of its word alone.
DataRequests ==
  {NoRequest, MCFlush, MCWrite(0, 0, 0, 1), MCWrite(1, 0, 0, 1),
   [MCWrite(1, 1, 0, 1) EXCEPT !.lane = 1, !.size = 1]}
     \cup {MCRead(t, 0, 0) : t \in {1, 2}}

\* Five blocks compete for the four ways of a set, one of them stored to, so
\* victims are clean or dirty and lines age through several values before
\* they are cold.
VictimRequests == {MCWrite(0, 0, 0, 1)} \cup {MCRead(t, 0, 0) : t \in 1 .. 4}

=============================================================================
