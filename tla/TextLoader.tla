----------------------------- MODULE TextLoader -----------------------------
(***************************************************************************)
(* The loader of sm_txtload.cpp, which main no longer calls: a program is  *)
(* read from hexadecimal dumps of its sections.  A line of a dump is an    *)
(* address, up to four words of which the section's last may be cut short, *)
(* and the same as text.  A token is [digits, value].                      *)
(***************************************************************************)
EXTENDS SyscallStubs

\* (The text left in.)
Uncut(line) == <<line.address>> \o line.words \o line.text

\* Columns up to the 48th of a line, which has no text then.
Cut(line) == <<line.address>> \o line.words

\* The words of a line are its tokens of eight digits: a word cut short is
\* left out.
Taken(line) ==
  LET tokens == Cut(line)
      taken[i \in 0 .. Len(tokens)] ==
        IF i = 0 THEN <<>>
        ELSE IF tokens[i].digits = 8 THEN Append(taken[i - 1], tokens[i].value) ELSE taken[i - 1]
  IN  taken[Len(tokens)]

\* Those of the lines that are not headings, one after the other.
Data(lines) ==
  LET data[i \in 0 .. Len(lines)] ==
        IF i = 0 THEN <<>>
        ELSE IF lines[i].heading THEN data[i - 1] ELSE data[i - 1] \o Taken(lines[i])
  IN  data[Len(lines)]

FirstLine(lines) == SelectInSeq(lines, LAMBDA line : ~line.heading)

\* The first token, of ten digits, says where they go.
LoadMemory(memory, lines) == Filled(memory, lines[FirstLine(lines)].address.value, Data(lines))

\* Debugging sections have no address: the first line of data of their dump
\* is given their offset in the file instead.
IsDebugging(i) == i >= 19 /\ i \notin {28, 29}

WithSegmentOffset(i, offset, lines) ==
  IF IsDebugging(i) /\ FirstLine(lines) # 0
  THEN [lines EXCEPT ![FirstLine(lines)].address = [digits |-> 10, value |-> offset]] ELSE lines

\* The arguments of the program: their count, addresses and characters.
getArguments(memory, GSP) ==
  Filled(memory, GSP, <<<<"data", 1>>, NOP, <<"data", GSP + 5>>, NOP, NOP, <<"data", "noio">> >>)

\* The sections that are read, in the order of their numbers.
SectionsRead(noio) ==
  (1 .. 32) \ ({16, 17, 18, 29} \cup IF noio THEN {15, 25, 30, 31, 32} ELSE {})

\* Every dump has to be there, with a line of data. Stubs come last.
LoadOSMemoryTXT(memory, GSP, dumps, noio) ==
  LET loaded[i \in 0 .. 32] ==
        IF i = 0 THEN getArguments(memory, GSP)
        ELSE IF i \in SectionsRead(noio) THEN LoadMemory(loaded[i - 1], dumps[i]) ELSE loaded[i - 1]
  IN  loaded[32]

=============================================================================
