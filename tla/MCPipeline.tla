----------------------------- MODULE MCPipeline -----------------------------
(***************************************************************************)
(* A program for Forwarding and Pipeline with a branch on a loaded value,  *)
(* system calls after a memory instruction, in a delay slot, one after     *)
(* another and before a jump, and a memory instruction in a delay slot.    *)
(* A result is used by the next instruction, the one after it and later,   *)
(* as an operand, by a branch and by a store, with and without another     *)
(* result for the same register in between; a load is followed by another  *)
(* that keeps a part of it, and by a store of it.                          *)
(***************************************************************************)
EXTENDS Forwarding, TLC

None            == [a |-> 0, b |-> 0, w |-> 0, writes |-> FALSE]
Sets(w, a, b)   == [a |-> a, b |-> b, w |-> w, writes |-> TRUE]
Uses(a, b)      == [None EXCEPT !.a = a, !.b = b]
Stores(w, a)    == [None EXCEPT !.w = w, !.a = a]

Simple(kind, regs)     == [kind |-> kind, target |-> 0, regs |-> regs]
To(kind, target, regs) == [kind |-> kind, target |-> target, regs |-> regs]

\* Registers: 2 for calls, 8 and 31.
MCRegisters == {0, 2, 8, 31}

MCProgram ==
  0 :> Simple("alu", Sets(0, 0, 0))
  @@ 1 :> Simple("memory", Sets(8, 0, 0)) @@ 2 :> Simple("memory", Sets(8, 31, 0))
  @@ 3 :> Simple("alu", Sets(2, 2, 0)) @@ 4 :> To("branch", 8, Uses(8, 2))
  @@ 5 :> Simple("syscall", None)
  @@ 6 :> Simple("memory", Stores(2, 8)) @@ 7 :> Simple("alu", Sets(8, 2, 8))
  @@ 8 :> Simple("syscall", None) @@ 9 :> Simple("syscall", None)
  @@ 10 :> To("jump", 12, Sets(31, 0, 0)) @@ 11 :> Simple("memory", Sets(2, 31, 0))
  @@ 12 :> Simple("memory", Stores(2, 8)) @@ 13 :> Simple("alu", Sets(8, 31, 8))
  @@ 14 :> Simple("alu", Sets(8, 8, 2)) @@ 15 :> Simple("memory", Stores(8, 8))
  @@ 16 :> Simple("llsc", Sets(8, 8, 0)) @@ 17 :> To("jump", 1, Uses(31, 0))
  @@ 18 :> Simple("alu", Sets(2, 8, 2))

\* A word is loaded, counted up and stored by ll and sc, as in
\* tests/asm/sys_ll_sc.s.
MCLinkedProgram ==
  0 :> Simple("alu", None) @@ 1 :> Simple("llsc", Sets(8, 31, 0))
  @@ 2 :> Simple("alu", Sets(8, 8, 0)) @@ 3 :> Simple("llsc", Sets(8, 31, 0))
  @@ 4 :> To("jump", 1, None) @@ 5 :> Simple("alu", None)

\* The end of tests/asm/mem_stall_test.s: a load in the delay slot, the number
\* of the call, the call; then once more.
MCStallProgram ==
  0 :> Simple("alu", None) @@ 1 :> To("jump", 3, None)
  @@ 2 :> Simple("memory", Sets(8, 0, 0)) @@ 3 :> Simple("alu", Sets(2, 0, 0))
  @@ 4 :> Simple("syscall", None) @@ 5 :> To("jump", 1, None) @@ 6 :> Simple("alu", None)

=============================================================================
