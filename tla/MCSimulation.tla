---------------------------- MODULE MCSimulation ----------------------------
(***************************************************************************)
(* Short sessions of Simulation: a program that opens, writes, reads and   *)
(* closes one file and the terminal, and makes every other kind of call.   *)
(***************************************************************************)
EXTENDS Simulation

\* Addresses of instructions: 0 is near 0, 2 in the boot page, 3 and 4 are
\* the program's, 6 and 8 have an illegal word at or after them.
MCWord == [a \in 0 .. 9 |-> IF a = 7 THEN "mfcz" ELSE IF a = 8 THEN "lwcz" ELSE "legal"]
MCBootPage == {2}

F == <<"f", "program">>
MCCommandLines ==
  {[options |-> o, operands |-> <<>>] :
     o \in {<<F>>, <<F, <<"d", 3>>, <<"b", 4>> >>, <<F, <<"q", 0>>, <<"q", 1>> >>,
            <<<<"d", 3>> >>, << <<"h", 0>>, F>>, <<F, <<"d", 5>>, <<"b", 3>>, <<"b", 0>> >>} }
    \cup {[options |-> <<>>, operands |-> o] : o \in {<<"program", 2>>, <<"broken">>, <<>>}}

\* Memory: the name <<65>>, its NUL, the empty string, "x", a line end, "y",
\* a NUL, and a buffer.
MCAddresses == 0 .. 15
MCImages == {[a \in Addresses |-> CASE a = 0 -> 65 [] a = 2 -> 120 [] a = 3 -> NEWLINE
                                  [] a = 4 -> 121 [] OTHER -> NUL]}

\* The registers of a call.
Arguments(number, r4, r5, r6) ==
  [r \in Architectural |-> CASE r = 2 -> number [] r = 4 -> r4 [] r = 5 -> r5 [] r = 6 -> r6
                             [] r = 28 -> 1]
Calls ==
  {Arguments(4005, 0, 0, 0), Arguments(4005, 1, 0, 0), Arguments(4003, 0, 6, 0),
   Arguments(4003, 3, 6, 0), Arguments(4004, 3, 2, 3), Arguments(4004, 1, 2, 2),
   Arguments(4004, 2, 2, 0), Arguments(4006, 3, 0, 0), Arguments(4018, 0, 2, 5),
   Arguments(4018, 0, 9, 5), Arguments(4028, 3, 9, 5), Arguments(4122, 0, 0, 0),
   Arguments(4045, 1, 0, 0), Arguments(4091, 1, 0, 0), Arguments(4091, 0, 0, 0),
   Arguments(4001, 0, 0, 0),
   Arguments(4999, 0, 0, 0)}

Identity == [r \in Architectural |-> r]
Renamed  == [r \in Architectural |-> CASE r = 2 -> 4 [] r = 4 -> 1 [] OTHER -> r]
MCRenamings == {Identity, Renamed}

MCCycles ==
  {[address |-> 3, SYS |-> 1, Reg |-> c, RRAT |-> IF c[2] > 4003 THEN Renamed ELSE Identity] : c \in Calls}
    \cup {[address |-> a, SYS |-> 0, Reg |-> Arguments(0, 0, 0, 0), RRAT |-> Identity] :
            a \in {0, 2, 4, 6, 8}}
    \cup {[address |-> a, SYS |-> 0, Reg |-> [Arguments(0, 0, 0, 0) EXCEPT ![28] = 0], RRAT |-> Renamed] :
            a \in {2, 3}}

\* Words: "q", and two numbers of which one is the address 4.
MCTerminals == { << <<>>, << <<52>>, <<51>> >>, << <<113>> >> >>, << << <<51>>, <<113>> >> >> }
MCNumber(line) == IF line = <<>> THEN 0 ELSE Head(Head(line)) - 48
MCQuits == { << <<113>> >> }
MCCreatable(name) == name # <<>>

=============================================================================
