------------------------------ MODULE MCFetch ------------------------------
(***************************************************************************)
(* A small instance of Fetch for TLC: every word of memory is its own      *)
(* address, so that a word of another block is recognised.                 *)
(***************************************************************************)
EXTENDS Fetch

MCReads == {ReadOf(pc) : pc \in PCs}

MCImages ==
  {[a \in Address |-> [w \in WordNo |->
      [k \in Lane |-> (a[1] * SETS + a[2]) * LINEWORDS + w]]]}

=============================================================================
