----------------------------- MODULE HostFiles -----------------------------
(***************************************************************************)
(* What the file calls of sim_main promise the simulated program: a table  *)
(* of descriptors that only grows, files that are emptied when they are    *)
(* opened and grow by what is written, two console streams, and reads that *)
(* give the whole of a file once.  No other call touches any of these.     *)
(***************************************************************************)
EXTENDS Integers, Sequences

CONSTANTS
  Addresses,     \* where the program has strings and buffers
  Creatable(_),  \* the names the host can create a file of
  NEWLINE,
  NoRequest,     \* when no call is being made
  Answers        \* what other calls and instructions leave in register 2

VARIABLES
  request,   \* the call being made: registers 2, 4, 5 and 6
  names,     \* the name each descriptor was opened with, 0 first
  fresh,     \* the descriptors that were opened and not read or closed since
  files,     \* [name -> what is in the file]
  console,   \* what was written to descriptors 1 and 2
  memory,
  result     \* register 2 of the program

vars == <<request, names, fresh, files, console, memory, result>>

Descriptor == 0 .. Len(names) - 1

\* The characters at count addresses.
Held(cells, from, count) == [i \in 1 .. count |-> cells[from + i - 1]]
Text(from, count) == Held(memory, from, count)

WithFile(name, text) ==
  IF Creatable(name)
  THEN [n \in DOMAIN files \cup {name} |-> IF n = name THEN text ELSE files[n]]
  ELSE files

NoNewlines(text) ==
  LET kept[i \in 0 .. Len(text)] ==
        IF i = 0 THEN <<>>
        ELSE IF text[i] # NEWLINE THEN Append(kept[i - 1], text[i]) ELSE kept[i - 1]
  IN  kept[Len(text)]

Strings(from) == {end \in Addresses : end >= from /\ memory[end] = 0}

\* The characters from some address on that come before a NUL.
String(from) ==
  Text(from, (CHOOSE end \in Strings(from) : \A e \in Strings(from) : end <= e) - from)

Init ==
  /\ request = NoRequest
  /\ Len(names) = 3 /\ fresh = {} /\ files = <<>>
  /\ console = [d \in {1, 2} |-> <<>>]

\* A call with one of the numbers is answered.
Answer(numbers) == request # NoRequest /\ request[1] \in numbers /\ request' = NoRequest

a0 == request[2]
a1 == request[3]
a2 == request[4]

Open ==
  /\ Answer({4005})
  /\ names' = Append(names, String(a0))
  /\ files' = WithFile(String(a0), <<>>)
  /\ fresh' = fresh \cup {Len(names)}
  /\ result' = Len(names)
  /\ UNCHANGED <<console, memory>>

Write ==
  /\ Answer({4004}) /\ a0 \in Descriptor \ {1, 2}
  /\ LET name == names[a0 + 1] IN
     files' = WithFile(name, (IF name \in DOMAIN files THEN files[name] ELSE <<>>) \o Text(a1, a2))
  /\ result' = a2
  /\ UNCHANGED <<names, fresh, console, memory>>

\* A console gets a string, or its beginning when there is a length.
WriteConsole ==
  /\ Answer({4004}) /\ a0 \in {1, 2}
  /\ result' = IF a2 \in 1 .. Len(String(a1)) THEN a2 ELSE Len(String(a1))
  /\ console' = [console EXCEPT ![a0] = @ \o Text(a1, result')]
  /\ UNCHANGED <<names, fresh, files, memory>>

\* The characters of a file are stored from some address on, and only there,
\* with line ends of the simulator's own; a second reading counts for nothing.
Read ==
  /\ Answer({4003}) /\ a0 \in Descriptor \ {0} /\ names[a0 + 1] \in DOMAIN files
  /\ LET text == NoNewlines(files[names[a0 + 1]]) IN
     \E count \in Len(text) + 1 .. Len(text) + 2 :
       /\ a1 + count - 1 \in Addresses
       /\ NoNewlines(Held(memory', a1, count)) = text
       /\ \A a \in Addresses \ (a1 .. a1 + count - 1) : memory'[a] = memory[a]
       /\ result' = IF a0 \in fresh THEN count ELSE 0
  /\ fresh' = fresh \ {a0}
  /\ UNCHANGED <<names, files, console>>

\* What is read from the terminal ends with a line end.
ReadTerminal ==
  /\ Answer({4003}) /\ a0 = 0 /\ result' \in Nat \ {0}
  /\ a1 + result' - 1 \in Addresses
  /\ memory'[a1 + result' - 1] = NEWLINE
  /\ \A a \in Addresses \ (a1 .. a1 + result' - 1) : memory'[a] = memory[a]
  /\ UNCHANGED <<names, fresh, files, console>>

Close ==
  /\ Answer({4006})
  /\ fresh' = fresh \ {a0} /\ result' = 0
  /\ UNCHANGED <<names, files, console, memory>>

\* Calls that are not about files.
OtherCall ==
  /\ request # NoRequest /\ request[1] \notin 4003 .. 4006 /\ request' = NoRequest
  /\ result' \in Answers
  /\ UNCHANGED <<names, fresh, files, console, memory>>

\* The program's own instructions, up to a call.
Compute ==
  /\ request = NoRequest
  /\ result' \in Answers
  /\ request' = NoRequest \/ request'[1] = result'
  /\ UNCHANGED <<names, fresh, files, console, memory>>

Next ==
  \/ Open \/ Write \/ WriteConsole \/ Read \/ ReadTerminal \/ Close
  \/ OtherCall \/ Compute

Spec == Init /\ [][Next]_vars

=============================================================================
