---------------------------- MODULE ProgramOrder ----------------------------
(***************************************************************************)
(* What a pipeline promises its program: instructions are decoded in the   *)
(* order of the program, the one after a jump before the jump's target,    *)
(* and all but system calls are executed and finished in that order, each  *)
(* once.  Skip and Lose are steps that break the promise.                  *)
(***************************************************************************)
EXTENDS Integers, Sequences

CONSTANTS WORDS, Program, RESET_PC

VARIABLES
  pc, npc,       \* of the instruction being decoded, and of the one after it
  instruction,   \* being decoded
  inflight       \* addresses of the instructions handed on and not finished

vars == <<pc, npc, instruction, inflight>>

Jumps == CASE instruction.kind = "jump"   -> {TRUE}
           [] instruction.kind = "branch" -> BOOLEAN
           [] OTHER                       -> {FALSE}

\* System calls end when they are decoded.
Executed == instruction.kind # "syscall"

Decode ==
  /\ pc' = npc
  /\ instruction' = Program[npc]
  /\ \E jump \in Jumps : npc' = IF jump THEN instruction.target ELSE (npc + 1) % WORDS

Init ==
  /\ pc = 0 /\ npc = RESET_PC
  /\ instruction = Program[0] /\ inflight = <<>>

\* The oldest instruction in flight may finish, the one being decoded may be
\* handed on.
Flow(finish, handOn) ==
  /\ finish => inflight # <<>>
  /\ inflight' = (IF finish THEN Tail(inflight) ELSE inflight)
                   \o (IF handOn THEN <<pc>> ELSE <<>>)

Next ==
  \E finish, decode \in BOOLEAN :
    /\ Flow(finish, decode /\ Executed)
    /\ IF decode THEN Decode ELSE UNCHANGED <<pc, npc, instruction>>

Spec == Init /\ [][Next]_vars

\* An instruction is decoded and not executed.
Skip == Decode /\ \E finish \in BOOLEAN : Flow(finish, FALSE)

\* The instruction that was handed on last, from address a, is lost.
Lose(a) == inflight = Append(inflight', a) /\ UNCHANGED <<pc, npc, instruction>>

=============================================================================
