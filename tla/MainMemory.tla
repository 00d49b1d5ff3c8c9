----------------------------- MODULE MainMemory -----------------------------
(***************************************************************************)
(* The simulator's main memory and the functions that read and write it    *)
(* (sm_memory.cpp): big-endian words, halfwords and bytes, and the older   *)
(* loadSingleHEX, which goes through hexadecimal text.  A memory is a      *)
(* function from addresses to bytes; each writing function is an operator  *)
(* that returns the memory it leaves.                                      *)
(***************************************************************************)
EXTENDS Integers, Sequences

CONSTANT DIGIT   \* how many values a hexadecimal digit has: 16

\* A digit is some bits.
ASSUME DigitAssumption == DIGIT \in Nat /\ DIGIT > 1 /\ DIGIT % 2 = 0

BYTE == DIGIT * DIGIT
HALF == BYTE * BYTE
FULL == HALF * HALF

\* How many values n hexadecimal digits have, and n bytes.
DigitValues(n) ==
  <<1, DIGIT, BYTE, BYTE * DIGIT, HALF, HALF * DIGIT, HALF * BYTE, HALF * BYTE * DIGIT>>[n + 1]
ByteValues(n) == <<1, BYTE, HALF, HALF * BYTE, FULL>>[n + 1]

\* enum {WORD, BYTE, HALFWORD}
AsWord == 0
AsByte == 1
AsHalfWord == 2

----------------------------------------------------------------------------

readWord(memory, location) ==
  ((memory[location] * BYTE + memory[location + 1]) * BYTE
     + memory[location + 2]) * BYTE + memory[location + 3]

readHalfWord(memory, location) ==
  memory[location] * BYTE + memory[location + 1]

readByte(memory, location) == memory[location]

writeByte(memory, location, val) == [memory EXCEPT ![location] = val % BYTE]

writeHalfWord(memory, location, val) ==
  [memory EXCEPT ![location] = (val \div BYTE) % BYTE,
                 ![location + 1] = val % BYTE]

writeWord(memory, location, val) ==
  [memory EXCEPT ![location] = (val \div (HALF * BYTE)) % BYTE,
                 ![location + 1] = (val \div HALF) % BYTE,
                 ![location + 2] = (val \div BYTE) % BYTE,
                 ![location + 3] = val % BYTE]

----------------------------------------------------------------------------
(* Hexadecimal text.  A character is the value of the lower-case digit it  *)
(* shows, or -1.                                                           *)

hexCharValue(ch) == IF ch \in 0 .. DIGIT - 1 THEN ch ELSE 0

\* The pair of digits of text from its i-th character on.
Pair(text, i) == hexCharValue(text[i]) * DIGIT + hexCharValue(text[i + 1])

\* In the halfword case "+" binds tighter than "<<": both digits are shifted.
ShiftedPair(text, i) ==
  ((hexCharValue(text[i]) + hexCharValue(text[i + 1])) * DIGIT) % BYTE

loadSingleHEX(memory, text, location, bh_word) ==
  CASE bh_word = AsWord ->
         [memory EXCEPT ![location] = Pair(text, 1), ![location + 1] = Pair(text, 3),
                        ![location + 2] = Pair(text, 5), ![location + 3] = Pair(text, 7)]
    [] bh_word = AsByte -> [memory EXCEPT ![location] = Pair(text, 1)]
    [] bh_word = AsHalfWord ->
         [memory EXCEPT ![location] = ShiftedPair(text, 1),
                        ![location + 1] = ShiftedPair(text, 3)]

\* The low bits of an int as text: itob gives its bits, a bitset their value,
\* and zeros are put in front of its digits.
HexOf(value, length) ==
  [i \in 1 .. length |-> (value \div DigitValues(length - i)) % DIGIT]

\* loadSingleHEX of an int; a halfword comes out with its bytes swapped.
loadSingleHEXInt(memory, value, location, bh_word) ==
  CASE bh_word = AsWord -> loadSingleHEX(memory, HexOf(value, 8), location, AsWord)
    [] bh_word = AsByte -> loadSingleHEX(memory, HexOf(value, 2), location, AsByte)
    [] bh_word = AsHalfWord ->
         LET text == HexOf(value, 4) IN
         [memory EXCEPT ![location] = Pair(text, 3), ![location + 1] = Pair(text, 1)]

=============================================================================
