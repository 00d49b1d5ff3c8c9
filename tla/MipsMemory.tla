----------------------------- MODULE MipsMemory -----------------------------
(***************************************************************************)
(* What the loads and stores of a big-endian MIPS mean to the program, a   *)
(* byte at a time and with no word, port or clock in sight.  A register is *)
(* a sequence of four bytes, the most significant first.                   *)
(***************************************************************************)
EXTENDS Integers, Sequences

CONSTANTS
  Bytes,       \* 0 .. some power of two - 1
  Addresses,   \* the addresses of memory
  Operations,  \* the loads and stores the program may do: [op, address]
  NoOperation, \* any other instruction
  HostValues   \* the values system calls store, as registers

VARIABLES
  bytes, register,
  operation        \* that the program is at

vars == <<bytes, register, operation>>

Register == [1 .. 4 -> Bytes]

Sign(b) == IF 2 * b \in Bytes THEN 0 ELSE CHOOSE top \in Bytes : \A c \in Bytes : c <= top

\* What a load leaves in the register: a whole word; a byte or halfword
\* extended by its sign or by zeros; the bytes from the address to the end of
\* its word on the left (lwl), or from the start of the word to the address
\* on the right (lwr), beside what the register held.
Loaded(op, a) ==
  [i \in 1 .. 4 |->
     CASE op = "LW"  -> bytes[a + i - 1]
       [] op = "LB"  -> IF i = 4 THEN bytes[a] ELSE Sign(bytes[a])
       [] op = "LBU" -> IF i = 4 THEN bytes[a] ELSE 0
       [] op = "LH"  -> IF i > 2 THEN bytes[a + i - 3] ELSE Sign(bytes[a])
       [] op = "LHU" -> IF i > 2 THEN bytes[a + i - 3] ELSE 0
       [] op = "LWL" -> IF i <= 4 - (a % 4) THEN bytes[a + i - 1] ELSE register[i]
       [] op = "LWR" -> IF i >= 4 - (a % 4) THEN bytes[a + i - 4] ELSE register[i]]

\* The address each byte of the register is stored to, by its position.
Stores(op, a) ==
  CASE op = "SW"  -> [i \in 1 .. 4 |-> a + i - 1]
    [] op = "SH"  -> [i \in 3 .. 4 |-> a + i - 3]
    [] op = "SB"  -> [i \in {4} |-> a]
    [] op = "SWL" -> [i \in 1 .. 4 - (a % 4) |-> a + i - 1]
    [] op = "SWR" -> [i \in 4 - (a % 4) .. 4 |-> a + i - 4]

Loads    == operation.op \in {"LW", "LB", "LBU", "LH", "LHU", "LWL", "LWR"}
StoresTo == operation.op \in {"SW", "SH", "SB", "SWL", "SWR"}

\* Memory once the operation's store is done.
Stored ==
  LET to == Stores(operation.op, operation.address) IN
  [a \in Addresses |->
     IF \E i \in DOMAIN to : to[i] = a
     THEN register[CHOOSE i \in DOMAIN to : to[i] = a] ELSE bytes[a]]

Store == StoresTo /\ bytes' = Stored /\ UNCHANGED <<register, operation>>

\* The program goes on when the operation is done: a load has filled the
\* register, a store is in memory, another instruction has some result.
Step ==
  /\ operation' \in Operations \cup {NoOperation}
  /\ StoresTo => bytes = Stored
  /\ register' \in IF Loads THEN {Loaded(operation.op, operation.address)}
                   ELSE IF StoresTo THEN {register} ELSE Register
  /\ UNCHANGED bytes

\* A system call stores a byte or a word, the most significant byte first.
HostStore ==
  /\ ~StoresTo
  /\ \E a \in Addresses, value \in HostValues :
       \/ bytes' = [bytes EXCEPT ![a] = value[4]]
       \/ /\ a % 4 = 0
          /\ bytes' = [b \in Addresses |->
                         IF b \in a .. a + 3 THEN value[b - a + 1] ELSE bytes[b]]
  /\ UNCHANGED <<register, operation>>

Init ==
  bytes \in [Addresses -> Bytes] /\ register \in Register /\ operation = NoOperation

Next == Store \/ Step \/ HostStore

Spec == Init /\ [][Next]_vars

=============================================================================
