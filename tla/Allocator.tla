----------------------------- MODULE Allocator -----------------------------
(***************************************************************************)
(* What sim_main's allocator promises the simulated program, with nothing  *)
(* of how it searches or what it remembers: an allocation returns an       *)
(* aligned address whose block overlaps no other, or 0, and a release      *)
(* gives back exactly the part of one block from the address on.           *)
(***************************************************************************)
EXTENDS Integers

CONSTANTS
  Addresses,     \* the addresses that may be handed out
  Sizes          \* the sizes that may be asked for

VARIABLES
  blocks,        \* the blocks handed out, each the set of its addresses
  result         \* register 2 of the program, where a call leaves its answer

vars == <<blocks, result>>

Init == blocks = {} /\ result = 0

Allocate ==
  \E start \in {a \in Addresses : a % 4 = 0}, size \in Sizes :
    LET block == start .. start + size - 1 IN
    /\ block \subseteq Addresses
    /\ block \cap UNION blocks = {}
    /\ blocks' = blocks \cup {block}
    /\ result' = start

Refuse == result' = 0 /\ UNCHANGED blocks

Release ==
  \E block \in blocks : \E addr \in block :
    /\ blocks' = (blocks \ {block}) \cup ({{a \in block : a < addr}} \ {{}})
    /\ UNCHANGED result

SetBreak == result' \notin Addresses /\ UNCHANGED blocks

Next == Allocate \/ Refuse \/ Release \/ SetBreak

Spec == Init /\ [][Next]_vars

=============================================================================
