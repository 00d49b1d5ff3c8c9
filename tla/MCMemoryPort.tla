---------------------------- MODULE MCMemoryPort ----------------------------
(***************************************************************************)
(* A small memory for MemoryPort whose bytes all differ.                   *)
(***************************************************************************)
EXTENDS MemoryPort

\* 1, 2 .. 7, 9: with 16 values a byte, the last is negative.
MCImages == {[a \in Address |-> IF a = SIZE - 1 THEN 9 ELSE a + 1]}

\* Four bytes that differ from memory's and from each other.
MCValues == {((10 * BYTE + 11) * BYTE + 12) * BYTE + 13}

=============================================================================
