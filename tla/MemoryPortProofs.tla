------------------------- MODULE MemoryPortProofs -------------------------
(***************************************************************************)
(* Theorems about MemoryPort for every size and image of memory and every  *)
(* even number of values of a digit: loads and stores do what MipsMemory   *)
(* says of them.                                                           *)
(***************************************************************************)
EXTENDS MemoryPort, TLAPS

----------------------------------------------------------------------------
(* Division.                                                               *)

\* Quotient and remainder are unique.
LEMMA Unique ==
  ASSUME NEW m \in Nat, m > 0, NEW q \in Int, NEW p \in Int, NEW r \in Int, NEW s \in Int,
         0 <= r, r < m, 0 <= s, s < m, q * m + r = p * m + s
  PROVE  q = p /\ r = s
<1>1. (q - p) * m = s - r  OBVIOUS
<1>2. CASE q > p
  <2>1. q - p >= 1  BY <1>2
  <2>2. (q - p) * m >= m  BY <2>1
  <2> QED  BY <1>1, <2>2
<1>3. CASE q < p
  <2>1. q - p <= -1  BY <1>3
  <2>2. (q - p) * m <= -m  BY <2>1
  <2> QED  BY <1>1, <2>2
<1> QED  BY <1>1, <1>2, <1>3

LEMMA DivMod ==
  ASSUME NEW m \in Nat, m > 0, NEW x \in Int
  PROVE  /\ x \div m \in Int /\ x % m \in 0 .. m - 1
         /\ x = (x \div m) * m + (x % m)
<1>1. x \div m \in Int  OBVIOUS
<1>2. x % m \in 0 .. m - 1  OBVIOUS
<1>3. x = m * (x \div m) + (x % m)  OBVIOUS
<1> QED  BY <1>1, <1>2, <1>3

LEMMA Quotient ==
  ASSUME NEW m \in Nat, m > 0, NEW q \in Int, NEW r \in 0 .. m - 1
  PROVE  (q * m + r) \div m = q /\ (q * m + r) % m = r
<1> DEFINE x == q * m + r
           p == x \div m
           s == x % m
<1>1. x \in Int  OBVIOUS
<1>2. p \in Int /\ s \in 0 .. m - 1 /\ q * m + r = p * m + s  BY <1>1, DivMod
<1> HIDE DEF p, s
<1>3. q = p /\ r = s  BY <1>2, Unique
<1> QED  BY <1>3 DEF p, s

Splits(x, m, q, r) ==
  m \in Nat /\ m > 0 /\ q \in Int /\ r \in 0 .. m - 1 /\ x = q * m + r

LEMMA Divided ==
  ASSUME NEW x, NEW m, NEW q, NEW r, Splits(x, m, q, r)
  PROVE  x \div m = q /\ x % m = r
BY Quotient DEF Splits

\* A number of two digits.
LEMMA Fits ==
  ASSUME NEW m \in Nat, NEW n \in Nat, NEW q \in 0 .. n - 1, NEW r \in 0 .. m - 1
  PROVE  q * m + r \in 0 .. n * m - 1
<1>1. q * m <= (n - 1) * m  OBVIOUS
<1>2. q * m >= 0  OBVIOUS
<1>3. (n - 1) * m = n * m - m  OBVIOUS
<1>4. q * m \in Int /\ n * m \in Int  OBVIOUS
<1> QED  BY <1>1, <1>2, <1>3, <1>4

----------------------------------------------------------------------------
(* Words and their bytes.                                                  *)

Byte == 0 .. BYTE - 1

Join(a, b, c, d) == ((a * BYTE + b) * BYTE + c) * BYTE + d

LEMMA ByteFacts ==
  BYTE \in Nat /\ BYTE > 1 /\ BYTE % 2 = 0 /\ 0 \in Byte
<1>1. PICK k \in Nat : DIGIT = 2 * k
  <2>1. DIGIT \div 2 \in Nat /\ DIGIT = 2 * (DIGIT \div 2)  BY DigitAssumption
  <2> QED  BY <2>1
<1>2. BYTE = 2 * (k * DIGIT)  BY <1>1, DigitAssumption DEF BYTE
<1>3. BYTE >= DIGIT  BY DigitAssumption DEF BYTE
<1>4. k * DIGIT \in Nat  BY <1>1, DigitAssumption
<1>5. BYTE % 2 = 0  BY <1>2, <1>4
<1> QED  BY <1>2, <1>3, <1>4, <1>5, DigitAssumption DEF Byte

LEMMA PowerFacts ==
  /\ HALF = BYTE * BYTE /\ FULL = HALF * HALF /\ HALF * BYTE = BYTE * BYTE * BYTE
  /\ ByteValues(0) = 1 /\ ByteValues(1) = BYTE /\ ByteValues(2) = HALF
  /\ ByteValues(3) = HALF * BYTE /\ ByteValues(4) = FULL
BY DEF HALF, FULL, ByteValues

LEMMA Powers ==
  /\ HALF \in Nat /\ HALF > 1 /\ HALF * BYTE \in Nat /\ HALF * BYTE > 1
  /\ FULL \in Nat /\ FULL > 1 /\ FULL = HALF * BYTE * BYTE
<1>1. HALF \in Nat /\ HALF >= BYTE /\ HALF > 1  BY ByteFacts DEF HALF
<1>2. HALF * BYTE \in Nat /\ HALF * BYTE >= HALF  BY <1>1, ByteFacts
<1>3. FULL = HALF * BYTE * BYTE  BY <1>1, ByteFacts DEF FULL, HALF
<1>4. FULL \in Nat /\ FULL >= HALF  BY <1>1 DEF FULL
<1> QED  BY <1>1, <1>2, <1>3, <1>4

\* Two and three bytes, and a word, put together and taken apart.
LEMMA Parts ==
  ASSUME NEW a \in Byte, NEW b \in Byte, NEW c \in Byte, NEW d \in Byte
  PROVE  /\ c * BYTE + d \in 0 .. HALF - 1
         /\ (b * BYTE + c) * BYTE + d \in 0 .. HALF * BYTE - 1
         /\ Join(a, b, c, d) \in 0 .. FULL - 1
         /\ Join(a, b, c, d) = (a * BYTE + b) * HALF + (c * BYTE + d)
         /\ Join(a, b, c, d) = a * (HALF * BYTE) + ((b * BYTE + c) * BYTE + d)
<1>1. c * BYTE + d \in 0 .. BYTE * BYTE - 1  BY ByteFacts, Fits DEF Byte
<1>2. b * BYTE + c \in 0 .. BYTE * BYTE - 1 /\ a * BYTE + b \in 0 .. BYTE * BYTE - 1
  BY ByteFacts, Fits DEF Byte
<1>3. BYTE * BYTE \in Nat /\ HALF = BYTE * BYTE /\ d \in 0 .. BYTE - 1  BY ByteFacts DEF HALF, Byte
<1>4. (b * BYTE + c) * BYTE + d \in 0 .. HALF * BYTE - 1
  BY <1>2, <1>3, ByteFacts, Fits
<1>5. Join(a, b, c, d) = (a * BYTE + b) * HALF + (c * BYTE + d)
  BY ByteFacts DEF Join, HALF, Byte
<1>6. (a * BYTE + b) * HALF + (c * BYTE + d) \in 0 .. HALF * HALF - 1
  BY <1>1, <1>2, <1>3, Fits
<1>7. Join(a, b, c, d) = a * (HALF * BYTE) + ((b * BYTE + c) * BYTE + d)
  BY ByteFacts DEF Join, HALF, Byte
<1> QED  BY <1>1, <1>3, <1>4, <1>5, <1>6, <1>7 DEF FULL

LEMMA Slices ==
  ASSUME NEW a \in Byte, NEW b \in Byte, NEW c \in Byte, NEW d \in Byte,
         NEW w, w = Join(a, b, c, d)
  PROVE  /\ Slice(w, 0, 0) = d /\ Slice(w, 1, 1) = c
         /\ Slice(w, 2, 2) = b /\ Slice(w, 3, 3) = a
         /\ Slice(w, 1, 0) = c * BYTE + d /\ Slice(w, 2, 0) = (b * BYTE + c) * BYTE + d
         /\ Slice(w, 3, 2) = a * BYTE + b /\ Slice(w, 3, 1) = (a * BYTE + b) * BYTE + c
         /\ Slice(w, 3, 0) = w
         /\ w % 1 = 0 /\ w % BYTE = d /\ w % HALF = c * BYTE + d
         /\ w % (HALF * BYTE) = (b * BYTE + c) * BYTE + d
<1>1. BYTE \in Nat /\ BYTE > 0 /\ HALF \in Nat /\ HALF > 0 /\ HALF * BYTE \in Nat /\ HALF * BYTE > 0
      /\ FULL \in Nat /\ FULL > 0
  BY ByteFacts, Powers
<1> DEFINE ab == a * BYTE + b
           cd == c * BYTE + d
           abc == (a * BYTE + b) * BYTE + c
           bcd == (b * BYTE + c) * BYTE + d
<1>2. /\ a \in 0 .. BYTE - 1 /\ b \in 0 .. BYTE - 1 /\ c \in 0 .. BYTE - 1 /\ d \in 0 .. BYTE - 1
      /\ cd \in 0 .. HALF - 1 /\ ab \in 0 .. HALF - 1
      /\ bcd \in 0 .. HALF * BYTE - 1 /\ abc \in 0 .. HALF * BYTE - 1 /\ w \in 0 .. FULL - 1
  BY Parts DEF Byte
<1>3. /\ w = abc * BYTE + d /\ w = ab * HALF + cd /\ w = a * (HALF * BYTE) + bcd
      /\ abc = ab * BYTE + c /\ ab = a * BYTE + b
  BY Parts DEF Join
<1> HIDE DEF ab, cd, abc, bcd
<1>4. Splits(w, 1, w, 0) /\ Splits(w, BYTE, abc, d)  BY <1>1, <1>2, <1>3 DEF Splits
<1>5. Splits(w, HALF, ab, cd)  BY <1>1, <1>2, <1>3 DEF Splits
<1>6. Splits(w, HALF * BYTE, a, bcd)  BY <1>1, <1>2, <1>3 DEF Splits
<1>7. Splits(abc, BYTE, ab, c) /\ Splits(ab, BYTE, a, b)  BY <1>1, <1>2, <1>3 DEF Splits
<1>8. ASSUME NEW n \in Nat, n > 0, NEW x \in 0 .. n - 1 PROVE Splits(x, n, 0, x)
  BY <1>8 DEF Splits
<1>9. Splits(a, BYTE, 0, a) /\ Splits(ab, HALF, 0, ab) /\ Splits(abc, HALF * BYTE, 0, abc)
  BY <1>1, <1>2, <1>8
<1>10. Splits(w, FULL, 0, w)  BY <1>1, <1>2, <1>8
<1>11. w \div 1 = w /\ w % 1 = 0 /\ w \div BYTE = abc /\ w % BYTE = d  BY <1>4, Divided
<1>12. w \div HALF = ab /\ w % HALF = cd  BY <1>5, Divided
<1>13. w \div (HALF * BYTE) = a /\ w % (HALF * BYTE) = bcd  BY <1>6, Divided
<1>14. abc % BYTE = c /\ ab % BYTE = b /\ a % BYTE = a  BY <1>7, <1>9, Divided
<1>15. ab % HALF = ab /\ abc % (HALF * BYTE) = abc /\ w % FULL = w  BY <1>9, <1>10, Divided
<1>16. /\ Slice(w, 0, 0) = (w \div 1) % BYTE /\ Slice(w, 1, 1) = (w \div BYTE) % BYTE
       /\ Slice(w, 2, 2) = (w \div HALF) % BYTE /\ Slice(w, 3, 3) = (w \div (HALF * BYTE)) % BYTE
       /\ Slice(w, 1, 0) = (w \div 1) % HALF /\ Slice(w, 2, 0) = (w \div 1) % (HALF * BYTE)
       /\ Slice(w, 3, 2) = (w \div HALF) % HALF /\ Slice(w, 3, 1) = (w \div BYTE) % (HALF * BYTE)
       /\ Slice(w, 3, 0) = (w \div 1) % FULL
  BY PowerFacts DEF Slice
<1> QED  BY <1>11, <1>12, <1>13, <1>14, <1>15, <1>16 DEF ab, cd, abc, bcd

\* Every word is put together from bytes.
LEMMA WordHasBytes ==
  ASSUME NEW w \in 0 .. FULL - 1
  PROVE  \E a, b, c, d \in Byte : w = Join(a, b, c, d)
<1> DEFINE x == w \div BYTE
           y == x \div BYTE
           z == y \div BYTE
<1>1. BYTE \in Nat /\ BYTE > 0 /\ w \in Int  BY ByteFacts, Powers
<1>2. x \in Int /\ w % BYTE \in Byte /\ w = x * BYTE + (w % BYTE)  BY <1>1, DivMod DEF Byte
<1> HIDE DEF x
<1>3. y \in Int /\ x % BYTE \in Byte /\ x = y * BYTE + (x % BYTE)  BY <1>1, <1>2, DivMod DEF Byte
<1> HIDE DEF y
<1>4. z \in Int /\ y % BYTE \in Byte /\ y = z * BYTE + (y % BYTE)  BY <1>1, <1>3, DivMod DEF Byte
<1> HIDE DEF z
<1>5. w = Join(z, y % BYTE, x % BYTE, w % BYTE)  BY <1>2, <1>3, <1>4 DEF Join
<1> DEFINE low == ((y % BYTE) * BYTE + (x % BYTE)) * BYTE + (w % BYTE)
           cube == HALF * BYTE
<1>6. w = z * cube + low
  <2>1. ASSUME NEW b \in Int, NEW c \in Int, NEW d \in Int
        PROVE  Join(z, b, c, d) = z * (BYTE * BYTE * BYTE) + ((b * BYTE + c) * BYTE + d)
    BY <1>1, <1>4 DEF Join
  <2> QED  BY <1>2, <1>3, <1>4, <1>5, <2>1, PowerFacts DEF Byte
<1>7. low \in 0 .. cube - 1 /\ cube \in Nat /\ FULL = cube * BYTE
  BY <1>2, <1>3, <1>4, ByteFacts, Parts, Powers
<1> HIDE DEF low, cube
<1>8. z \in Byte
  <2>1. z >= 0
    <3>1. SUFFICES ASSUME z <= -1 PROVE FALSE  BY <1>4
    <3>2. z * cube <= -cube  BY <1>4, <1>7, <3>1
    <3> QED  BY <1>1, <1>4, <1>6, <1>7, <3>2
  <2>2. z <= BYTE - 1
    <3>1. SUFFICES ASSUME z >= BYTE PROVE FALSE  BY <1>1, <1>4
    <3>2. z * cube >= BYTE * cube  BY <1>1, <1>4, <1>7, <3>1
    <3> QED  BY <1>1, <1>4, <1>6, <1>7, <3>2
  <2> QED  BY <1>4, <2>1, <2>2 DEF Byte
<1> QED  BY <1>2, <1>3, <1>4, <1>5, <1>8

----------------------------------------------------------------------------
(* Loads.                                                                  *)

\* A register of four bytes.
Four(a, b, c, d) ==
  [i \in 1 .. 4 |-> IF i = 1 THEN a ELSE IF i = 2 THEN b ELSE IF i = 3 THEN c ELSE d]

LEMMA LanesOfJoin ==
  ASSUME NEW a \in Byte, NEW b \in Byte, NEW c \in Byte, NEW d \in Byte
  PROVE  Lanes(Join(a, b, c, d)) = Four(a, b, c, d)
<1>1. /\ Slice(Join(a, b, c, d), 0, 0) = d /\ Slice(Join(a, b, c, d), 1, 1) = c
      /\ Slice(Join(a, b, c, d), 2, 2) = b /\ Slice(Join(a, b, c, d), 3, 3) = a
  BY Slices
<1>2. ASSUME NEW i \in 1 .. 4
      PROVE  Slice(Join(a, b, c, d), 4 - i, 4 - i)
               = IF i = 1 THEN a ELSE IF i = 2 THEN b ELSE IF i = 3 THEN c ELSE d
  BY <1>1
<1> QED  BY <1>2 DEF Lanes, Four

\* A sign's bytes are all zeros or all ones.
LEMMA SignByte ==
  ASSUME NEW b \in Byte
  PROVE  /\ Meaning!Sign(b) \in Byte
         /\ Meaning!Sign(b) = IF 2 * b < BYTE THEN 0 ELSE BYTE - 1
<1>1. BYTE - 1 \in Byte /\ \A c \in Byte : c <= BYTE - 1  BY ByteFacts DEF Byte
<1>2. ASSUME NEW top \in Byte, \A c \in Byte : c <= top PROVE top = BYTE - 1
  BY <1>1, <1>2, ByteFacts DEF Byte
<1>3. (CHOOSE top \in Byte : \A c \in Byte : c <= top) = BYTE - 1  BY <1>1, <1>2
<1>4. 2 * b \in Byte <=> 2 * b < BYTE  BY ByteFacts DEF Byte
<1> QED  BY <1>1, <1>3, <1>4, ByteFacts DEF Meaning!Sign, Byte

LEMMA Extended ==
  ASSUME NEW a \in Byte, NEW b \in Byte
  PROVE  LET s == Meaning!Sign(a)  t == Meaning!Sign(b) IN
         /\ SignExtended(b, 1) = Join(t, t, t, b)
         /\ SignExtended(a * BYTE + b, 2) = Join(s, s, a, b)
<1>1. /\ ByteValues(1) = BYTE /\ ByteValues(2) = BYTE * BYTE
      /\ FULL = BYTE * BYTE * BYTE * BYTE
  BY PowerFacts, Powers, ByteFacts DEF HALF
<1>2. BYTE \in Nat /\ a \in Nat /\ b \in Nat /\ a < BYTE /\ b < BYTE  BY ByteFacts DEF Byte
<1>3. SignExtended(b, 1) = Join(Meaning!Sign(b), Meaning!Sign(b), Meaning!Sign(b), b)
  <2>1. CASE 2 * b < BYTE
    BY <1>1, <1>2, <2>1, SignByte DEF SignExtended, Join
  <2>2. CASE ~(2 * b < BYTE)
    <3>1. Meaning!Sign(b) = BYTE - 1  BY <2>2, SignByte
    <3>2. Join(BYTE - 1, BYTE - 1, BYTE - 1, b) = BYTE * BYTE * BYTE * BYTE - BYTE + b
      BY <1>2 DEF Join
    <3> QED  BY <1>1, <1>2, <2>2, <3>1, <3>2 DEF SignExtended
  <2> QED  BY <2>1, <2>2
<1>4. SignExtended(a * BYTE + b, 2) = Join(Meaning!Sign(a), Meaning!Sign(a), a, b)
  <2>1. CASE 2 * a < BYTE
    <3>1. 2 * a <= BYTE - 2  BY <1>2, <2>1, ByteFacts
    <3>2. 2 * a * BYTE <= (BYTE - 2) * BYTE  BY <1>2, <3>1
    <3>3. 2 * (a * BYTE + b) < BYTE * BYTE  BY <1>2, <3>2
    <3> QED  BY <1>1, <1>2, <2>1, <3>3, SignByte DEF SignExtended, Join
  <2>2. CASE ~(2 * a < BYTE)
    <3>1. Meaning!Sign(a) = BYTE - 1  BY <2>2, SignByte
    <3>2. 2 * a * BYTE >= BYTE * BYTE  BY <1>2, <2>2
    <3>3. 2 * (a * BYTE + b) >= BYTE * BYTE  BY <1>2, <3>2
    <3>4. Join(BYTE - 1, BYTE - 1, a, b) = BYTE * BYTE * BYTE * BYTE - BYTE * BYTE + (a * BYTE + b)
      BY <1>2 DEF Join
    <3> QED  BY <1>1, <3>1, <3>3, <3>4 DEF SignExtended
  <2> QED  BY <2>1, <2>2
<1> QED  BY <1>3, <1>4

LEMMA Unextended ==
  ASSUME NEW a \in Byte, NEW b \in Byte
  PROVE  b = Join(0, 0, 0, b) /\ a * BYTE + b = Join(0, 0, a, b)
BY ByteFacts DEF Join, Byte

\* What MEM hands on, by the bytes of the word read and of the register.
ReadsAs(a, b, c, d, e, f, g, h) ==
  LET read == Join(a, b, c, d)
      reg  == Join(e, f, g, h)
      sa == Meaning!Sign(a)  sb == Meaning!Sign(b)
      sc == Meaning!Sign(c)  sd == Meaning!Sign(d) IN
  /\ data_read_aligned("LW", 0, reg, read) = Join(a, b, c, d)
  /\ data_read_aligned("LWL", 0, reg, read) = Join(a, b, c, d)
  /\ data_read_aligned("LWL", 1, reg, read) = Join(b, c, d, h)
  /\ data_read_aligned("LWL", 2, reg, read) = Join(c, d, g, h)
  /\ data_read_aligned("LWL", 3, reg, read) = Join(d, f, g, h)
  /\ data_read_aligned("LWR", 0, reg, read) = Join(e, f, g, a)
  /\ data_read_aligned("LWR", 1, reg, read) = Join(e, f, a, b)
  /\ data_read_aligned("LWR", 2, reg, read) = Join(e, a, b, c)
  /\ data_read_aligned("LWR", 3, reg, read) = Join(a, b, c, d)
  /\ data_read_aligned("LB", 0, reg, read) = Join(sa, sa, sa, a)
  /\ data_read_aligned("LB", 1, reg, read) = Join(sb, sb, sb, b)
  /\ data_read_aligned("LB", 2, reg, read) = Join(sc, sc, sc, c)
  /\ data_read_aligned("LB", 3, reg, read) = Join(sd, sd, sd, d)
  /\ data_read_aligned("LBU", 0, reg, read) = Join(0, 0, 0, a)
  /\ data_read_aligned("LBU", 1, reg, read) = Join(0, 0, 0, b)
  /\ data_read_aligned("LBU", 2, reg, read) = Join(0, 0, 0, c)
  /\ data_read_aligned("LBU", 3, reg, read) = Join(0, 0, 0, d)
  /\ data_read_aligned("LH", 0, reg, read) = Join(sa, sa, a, b)
  /\ data_read_aligned("LH", 2, reg, read) = Join(sc, sc, c, d)
  /\ data_read_aligned("LHU", 0, reg, read) = Join(0, 0, a, b)
  /\ data_read_aligned("LHU", 2, reg, read) = Join(0, 0, c, d)

LEMMA AlignedRead ==
  ASSUME NEW a \in Byte, NEW b \in Byte, NEW c \in Byte, NEW d \in Byte,
         NEW e \in Byte, NEW f \in Byte, NEW g \in Byte, NEW h \in Byte
  PROVE  ReadsAs(a, b, c, d, e, f, g, h)
<1> DEFINE read == Join(a, b, c, d)
           reg  == Join(e, f, g, h)
<1>1. /\ Slice(read, 0, 0) = d /\ Slice(read, 1, 1) = c
      /\ Slice(read, 2, 2) = b /\ Slice(read, 3, 3) = a
      /\ Slice(read, 1, 0) = c * BYTE + d /\ Slice(read, 2, 0) = (b * BYTE + c) * BYTE + d
      /\ Slice(read, 3, 2) = a * BYTE + b /\ Slice(read, 3, 1) = (a * BYTE + b) * BYTE + c
      /\ Slice(read, 3, 0) = read
  BY Slices
<1>2. /\ Slice(reg, 0, 0) = h /\ Slice(reg, 1, 0) = g * BYTE + h
      /\ Slice(reg, 2, 0) = (f * BYTE + g) * BYTE + h /\ Slice(reg, 3, 0) = reg
      /\ reg % 1 = 0 /\ reg % BYTE = h /\ reg % HALF = g * BYTE + h
      /\ reg % (HALF * BYTE) = (f * BYTE + g) * BYTE + h
  BY Slices
<1>3. /\ read = ((a * BYTE + b) * BYTE + c) * BYTE + d
      /\ reg = ((e * BYTE + f) * BYTE + g) * BYTE + h
  BY DEF Join
<1>4. /\ BYTE \in Nat /\ a \in Nat /\ b \in Nat /\ c \in Nat /\ d \in Nat
      /\ e \in Nat /\ f \in Nat /\ g \in Nat /\ h \in Nat
  BY ByteFacts DEF Byte
<1>5. /\ ByteValues(0) = 1 /\ ByteValues(1) = BYTE /\ ByteValues(2) = BYTE * BYTE
      /\ ByteValues(3) = BYTE * BYTE * BYTE /\ HALF = BYTE * BYTE /\ HALF * BYTE = BYTE * BYTE * BYTE
  BY PowerFacts, ByteFacts
<1> HIDE DEF read, reg
<1>6. data_read_aligned("LW", 0, reg, read) = read  BY DEF data_read_aligned
<1>7. /\ data_read_aligned("LWL", 0, reg, read) = read
      /\ data_read_aligned("LWL", 1, reg, read) = Join(b, c, d, h)
      /\ data_read_aligned("LWL", 2, reg, read) = Join(c, d, g, h)
      /\ data_read_aligned("LWL", 3, reg, read) = Join(d, f, g, h)
  <2>1. ASSUME NEW at \in 0 .. 3
        PROVE  data_read_aligned("LWL", at, reg, read)
                 = Slice(read, 3 - at, 0) * ByteValues(at) + (reg % ByteValues(at))
    BY DEF data_read_aligned
  <2>2. Slice(read, 3, 0) * 1 + (reg % 1) = read  BY <1>1, <1>2, <1>3, <1>4
  <2>3. ((b * BYTE + c) * BYTE + d) * BYTE + h = Join(b, c, d, h)  BY DEF Join
  <2>4. (c * BYTE + d) * (BYTE * BYTE) + (g * BYTE + h) = Join(c, d, g, h)  BY <1>4 DEF Join
  <2>5. d * (BYTE * BYTE * BYTE) + ((f * BYTE + g) * BYTE + h) = Join(d, f, g, h)  BY <1>4 DEF Join
  <2>6. data_read_aligned("LWL", 0, reg, read) = read  BY <1>5, <2>1, <2>2
  <2>7. data_read_aligned("LWL", 1, reg, read) = Join(b, c, d, h)  BY <1>1, <1>2, <1>5, <2>1, <2>3
  <2>8. data_read_aligned("LWL", 2, reg, read) = Join(c, d, g, h)  BY <1>1, <1>2, <1>5, <2>1, <2>4
  <2>9. data_read_aligned("LWL", 3, reg, read) = Join(d, f, g, h)  BY <1>1, <1>2, <1>5, <2>1, <2>5
  <2> QED  BY <2>6, <2>7, <2>8, <2>9
<1>8. /\ data_read_aligned("LWR", 0, reg, read) = Join(e, f, g, a)
      /\ data_read_aligned("LWR", 1, reg, read) = Join(e, f, a, b)
      /\ data_read_aligned("LWR", 2, reg, read) = Join(e, a, b, c)
      /\ data_read_aligned("LWR", 3, reg, read) = read
  <2>1. ASSUME NEW at \in 0 .. 3
        PROVE  data_read_aligned("LWR", at, reg, read) = reg - Slice(reg, at, 0) + Slice(read, 3, 3 - at)
    BY DEF data_read_aligned
  <2>2. reg - h + a = Join(e, f, g, a)  BY <1>3, <1>4 DEF Join
  <2>3. reg - (g * BYTE + h) + (a * BYTE + b) = Join(e, f, a, b)  BY <1>3, <1>4 DEF Join
  <2>4. reg - ((f * BYTE + g) * BYTE + h) + ((a * BYTE + b) * BYTE + c) = Join(e, a, b, c)
    BY <1>3, <1>4 DEF Join
  <2>5. reg - reg + read = read  BY <1>3, <1>4
  <2>6. data_read_aligned("LWR", 0, reg, read) = Join(e, f, g, a)  BY <1>1, <1>2, <2>1, <2>2
  <2>7. data_read_aligned("LWR", 1, reg, read) = Join(e, f, a, b)  BY <1>1, <1>2, <2>1, <2>3
  <2>8. data_read_aligned("LWR", 2, reg, read) = Join(e, a, b, c)  BY <1>1, <1>2, <2>1, <2>4
  <2>9. data_read_aligned("LWR", 3, reg, read) = read  BY <1>1, <1>2, <2>1, <2>5
  <2> QED  BY <2>6, <2>7, <2>8, <2>9
<1>9. ASSUME NEW at \in 0 .. 3
      PROVE  /\ data_read_aligned("LB", at, reg, read) = SignExtended(Slice(read, 3 - at, 3 - at), 1)
             /\ data_read_aligned("LBU", at, reg, read) = Slice(read, 3 - at, 3 - at)
             /\ data_read_aligned("LH", at, reg, read) = SignExtended(Slice(read, 3 - at, 2 - at), 2)
             /\ data_read_aligned("LHU", at, reg, read) = Slice(read, 3 - at, 2 - at)
  BY DEF data_read_aligned
<1>10. /\ data_read_aligned("LB", 0, reg, read) = SignExtended(a, 1)
       /\ data_read_aligned("LB", 1, reg, read) = SignExtended(b, 1)
       /\ data_read_aligned("LB", 2, reg, read) = SignExtended(c, 1)
       /\ data_read_aligned("LB", 3, reg, read) = SignExtended(d, 1)
  BY <1>1, <1>9
<1>11. /\ data_read_aligned("LBU", 0, reg, read) = a /\ data_read_aligned("LBU", 1, reg, read) = b
       /\ data_read_aligned("LBU", 2, reg, read) = c /\ data_read_aligned("LBU", 3, reg, read) = d
  BY <1>1, <1>9
<1>12. /\ data_read_aligned("LH", 0, reg, read) = SignExtended(a * BYTE + b, 2)
       /\ data_read_aligned("LH", 2, reg, read) = SignExtended(c * BYTE + d, 2)
       /\ data_read_aligned("LHU", 0, reg, read) = a * BYTE + b
       /\ data_read_aligned("LHU", 2, reg, read) = c * BYTE + d
  BY <1>1, <1>9
<1> QED  BY <1>6, <1>7, <1>8, <1>10, <1>11, <1>12, Extended, Unextended DEF read, reg, ReadsAs

LEMMA Alignment ==
  ASSUME NEW a \in Address
  PROVE  /\ a % 4 \in 0 .. 3 /\ a - (a % 4) \in Address /\ (a - (a % 4)) % 4 = 0
         /\ a - (a % 4) + 1 \in Address /\ a - (a % 4) + 2 \in Address /\ a - (a % 4) + 3 \in Address
BY SizeAssumption DEF Address

LEMMA LanesOfWord ==
  ASSUME NEW w \in 0 .. FULL - 1
  PROVE  \E a, b, c, d \in Byte : w = Join(a, b, c, d) /\ Lanes(w) = Four(a, b, c, d)
BY WordHasBytes, LanesOfJoin

\* What the program's loads mean, by the bytes of the word and the register.
LoadsAs(base, e, f, g, h) ==
  LET a == MAIN_MEMORY[base]      b == MAIN_MEMORY[base + 1]
      c == MAIN_MEMORY[base + 2]  d == MAIN_MEMORY[base + 3]
      sa == Meaning!Sign(a)  sb == Meaning!Sign(b)
      sc == Meaning!Sign(c)  sd == Meaning!Sign(d) IN
  /\ Meaning!Loaded("LW", base) = Four(a, b, c, d)
  /\ Meaning!Loaded("LWL", base) = Four(a, b, c, d)
  /\ Meaning!Loaded("LWL", base + 1) = Four(b, c, d, h)
  /\ Meaning!Loaded("LWL", base + 2) = Four(c, d, g, h)
  /\ Meaning!Loaded("LWL", base + 3) = Four(d, f, g, h)
  /\ Meaning!Loaded("LWR", base) = Four(e, f, g, a)
  /\ Meaning!Loaded("LWR", base + 1) = Four(e, f, a, b)
  /\ Meaning!Loaded("LWR", base + 2) = Four(e, a, b, c)
  /\ Meaning!Loaded("LWR", base + 3) = Four(a, b, c, d)
  /\ Meaning!Loaded("LB", base) = Four(sa, sa, sa, a)
  /\ Meaning!Loaded("LB", base + 1) = Four(sb, sb, sb, b)
  /\ Meaning!Loaded("LB", base + 2) = Four(sc, sc, sc, c)
  /\ Meaning!Loaded("LB", base + 3) = Four(sd, sd, sd, d)
  /\ Meaning!Loaded("LBU", base) = Four(0, 0, 0, a)
  /\ Meaning!Loaded("LBU", base + 1) = Four(0, 0, 0, b)
  /\ Meaning!Loaded("LBU", base + 2) = Four(0, 0, 0, c)
  /\ Meaning!Loaded("LBU", base + 3) = Four(0, 0, 0, d)
  /\ Meaning!Loaded("LH", base) = Four(sa, sa, a, b)
  /\ Meaning!Loaded("LH", base + 2) = Four(sc, sc, c, d)
  /\ Meaning!Loaded("LHU", base) = Four(0, 0, a, b)
  /\ Meaning!Loaded("LHU", base + 2) = Four(0, 0, c, d)

LEMMA LoadedBytes ==
  ASSUME NEW base \in Int, base % 4 = 0,
         NEW e \in Byte, NEW f \in Byte, NEW g \in Byte, NEW h \in Byte,
         Lanes(register) = Four(e, f, g, h)
  PROVE  LoadsAs(base, e, f, g, h)
<1>2. /\ Lanes(register)[1] = e /\ Lanes(register)[2] = f
      /\ Lanes(register)[3] = g /\ Lanes(register)[4] = h
  BY DEF Four
<1>3. ASSUME NEW x
      PROVE  /\ Meaning!Loaded("LW", x) = [i \in 1 .. 4 |-> MAIN_MEMORY[x + i - 1]]
             /\ Meaning!Loaded("LWL", x) =
                  [i \in 1 .. 4 |-> IF i <= 4 - (x % 4) THEN MAIN_MEMORY[x + i - 1] ELSE Lanes(register)[i]]
             /\ Meaning!Loaded("LWR", x) =
                  [i \in 1 .. 4 |-> IF i >= 4 - (x % 4) THEN MAIN_MEMORY[x + i - 4] ELSE Lanes(register)[i]]
             /\ Meaning!Loaded("LB", x) =
                  [i \in 1 .. 4 |-> IF i = 4 THEN MAIN_MEMORY[x] ELSE Meaning!Sign(MAIN_MEMORY[x])]
             /\ Meaning!Loaded("LBU", x) = [i \in 1 .. 4 |-> IF i = 4 THEN MAIN_MEMORY[x] ELSE 0]
             /\ Meaning!Loaded("LH", x) =
                  [i \in 1 .. 4 |-> IF i > 2 THEN MAIN_MEMORY[x + i - 3] ELSE Meaning!Sign(MAIN_MEMORY[x])]
             /\ Meaning!Loaded("LHU", x) = [i \in 1 .. 4 |-> IF i > 2 THEN MAIN_MEMORY[x + i - 3] ELSE 0]
  BY DEF Meaning!Loaded
<1>4. ASSUME NEW k \in 0 .. 3
      PROVE  /\ Meaning!Loaded("LB", base + k) =
                  Four(Meaning!Sign(MAIN_MEMORY[base + k]), Meaning!Sign(MAIN_MEMORY[base + k]),
                       Meaning!Sign(MAIN_MEMORY[base + k]), MAIN_MEMORY[base + k])
             /\ Meaning!Loaded("LBU", base + k) = Four(0, 0, 0, MAIN_MEMORY[base + k])
             /\ Meaning!Loaded("LH", base + k) =
                  Four(Meaning!Sign(MAIN_MEMORY[base + k]), Meaning!Sign(MAIN_MEMORY[base + k]),
                       MAIN_MEMORY[base + k], MAIN_MEMORY[base + k + 1])
             /\ Meaning!Loaded("LHU", base + k) = Four(0, 0, MAIN_MEMORY[base + k], MAIN_MEMORY[base + k + 1])
  BY <1>3 DEF Four
<1>5. /\ Meaning!Loaded("LWL", base) =
           Four(MAIN_MEMORY[base], MAIN_MEMORY[base + 1], MAIN_MEMORY[base + 2], MAIN_MEMORY[base + 3])
      /\ Meaning!Loaded("LWL", base + 1) =
           Four(MAIN_MEMORY[base + 1], MAIN_MEMORY[base + 2], MAIN_MEMORY[base + 3], h)
      /\ Meaning!Loaded("LWL", base + 2) = Four(MAIN_MEMORY[base + 2], MAIN_MEMORY[base + 3], g, h)
      /\ Meaning!Loaded("LWL", base + 3) = Four(MAIN_MEMORY[base + 3], f, g, h)
  <2>1. ASSUME NEW k \in 0 .. 3
        PROVE  Meaning!Loaded("LWL", base + k) =
                 [i \in 1 .. 4 |-> IF i <= 4 - k THEN MAIN_MEMORY[base + k + i - 1]
                                    ELSE IF i = 2 THEN f ELSE IF i = 3 THEN g ELSE h]
    <3>1. (base + k) % 4 = k  OBVIOUS
    <3>2. ASSUME NEW i \in 1 .. 4, ~(i <= 4 - k)
          PROVE  Lanes(register)[i] = IF i = 2 THEN f ELSE IF i = 3 THEN g ELSE h
      BY <1>2, <3>2
    <3>3. Meaning!Loaded("LWL", base + k) =
            [i \in 1 .. 4 |-> IF i <= 4 - k THEN MAIN_MEMORY[base + k + i - 1] ELSE Lanes(register)[i]]
      BY <3>1 DEF Meaning!Loaded
    <3> QED  BY <3>2, <3>3
  <2>2. Meaning!Loaded("LWL", base) =
           Four(MAIN_MEMORY[base], MAIN_MEMORY[base + 1], MAIN_MEMORY[base + 2], MAIN_MEMORY[base + 3])
    BY <2>1 DEF Four
  <2>3. Meaning!Loaded("LWL", base + 1) =
           Four(MAIN_MEMORY[base + 1], MAIN_MEMORY[base + 2], MAIN_MEMORY[base + 3], h)
    BY <2>1 DEF Four
  <2>4. Meaning!Loaded("LWL", base + 2) = Four(MAIN_MEMORY[base + 2], MAIN_MEMORY[base + 3], g, h)
    BY <2>1 DEF Four
  <2>5. Meaning!Loaded("LWL", base + 3) = Four(MAIN_MEMORY[base + 3], f, g, h)  BY <2>1 DEF Four
  <2> QED  BY <2>2, <2>3, <2>4, <2>5
<1>6. /\ Meaning!Loaded("LWR", base) = Four(e, f, g, MAIN_MEMORY[base])
      /\ Meaning!Loaded("LWR", base + 1) = Four(e, f, MAIN_MEMORY[base], MAIN_MEMORY[base + 1])
      /\ Meaning!Loaded("LWR", base + 2) =
           Four(e, MAIN_MEMORY[base], MAIN_MEMORY[base + 1], MAIN_MEMORY[base + 2])
      /\ Meaning!Loaded("LWR", base + 3) =
           Four(MAIN_MEMORY[base], MAIN_MEMORY[base + 1], MAIN_MEMORY[base + 2], MAIN_MEMORY[base + 3])
  <2>1. ASSUME NEW k \in 0 .. 3
        PROVE  Meaning!Loaded("LWR", base + k) =
                 [i \in 1 .. 4 |-> IF i >= 4 - k THEN MAIN_MEMORY[base + k + i - 4]
                                    ELSE IF i = 1 THEN e ELSE IF i = 2 THEN f ELSE g]
    <3>1. (base + k) % 4 = k  OBVIOUS
    <3> QED  BY <1>2, <1>3, <3>1
  <2>2. Meaning!Loaded("LWR", base) = Four(e, f, g, MAIN_MEMORY[base])  BY <2>1 DEF Four
  <2>3. Meaning!Loaded("LWR", base + 1) = Four(e, f, MAIN_MEMORY[base], MAIN_MEMORY[base + 1])
    BY <2>1 DEF Four
  <2>4. Meaning!Loaded("LWR", base + 2) =
           Four(e, MAIN_MEMORY[base], MAIN_MEMORY[base + 1], MAIN_MEMORY[base + 2])
    BY <2>1 DEF Four
  <2>5. Meaning!Loaded("LWR", base + 3) =
           Four(MAIN_MEMORY[base], MAIN_MEMORY[base + 1], MAIN_MEMORY[base + 2], MAIN_MEMORY[base + 3])
    BY <2>1 DEF Four
  <2> QED  BY <2>2, <2>3, <2>4, <2>5
<1>7. Meaning!Loaded("LW", base) =
        Four(MAIN_MEMORY[base], MAIN_MEMORY[base + 1], MAIN_MEMORY[base + 2], MAIN_MEMORY[base + 3])
  BY <1>3 DEF Four
<1> QED  BY <1>4, <1>5, <1>6, <1>7 DEF LoadsAs

Word == 0 .. FULL - 1

\* What is known while MEM holds an operation.
Holds ==
  /\ MAIN_MEMORY \in [Address -> Byte] /\ register \in Word
  /\ operation \in Operations \cup {NoOperation}

LEMMA OperationFacts ==
  ASSUME Holds, MemRead \/ MemWrite
  PROVE  /\ operation \in Operations
         /\ operation.address \in Address
         /\ operation.op \in {"LW", "SW"} => operation.address % 4 = 0
         /\ operation.op \in {"LH", "LHU", "SH"} => operation.address % 4 \in {0, 2}
<1>1. operation \in Operations
  BY DEF Holds, MemRead, MemWrite, NoOperation, LoadOperations, StoreOperations
<1>2. operation.address \in Nat  BY <1>1, SizeAssumption DEF Operations, Address
<1>3. operation.address % 2 = 0 => operation.address % 4 \in {0, 2}  BY <1>2
<1> QED  BY <1>1, <1>3 DEF Operations

\* A load hands on what it means.
LEMMA Load ==
  ASSUME Holds, MemRead,
         data_read_fDM = readWord(MAIN_MEMORY, operation.address - (operation.address % 4))
  PROVE  /\ WriteData1 \in Word
         /\ Lanes(WriteData1) = Meaning!Loaded(operation.op, operation.address)
<1> DEFINE at   == operation.address % 4
           base == operation.address - at
           a == MAIN_MEMORY[base]      b == MAIN_MEMORY[base + 1]
           c == MAIN_MEMORY[base + 2]  d == MAIN_MEMORY[base + 3]
           sa == Meaning!Sign(a)  sb == Meaning!Sign(b)
           sc == Meaning!Sign(c)  sd == Meaning!Sign(d)
<1>1. /\ operation \in Operations /\ operation.address \in Address
      /\ operation.op = "LW" => at = 0
      /\ operation.op \in {"LH", "LHU"} => at \in {0, 2}
  BY OperationFacts, SizeAssumption DEF Address
<1>2. /\ at \in 0 .. 3 /\ base \in Int /\ base % 4 = 0 /\ operation.address = base + at
      /\ base \in Address /\ base + 1 \in Address /\ base + 2 \in Address /\ base + 3 \in Address
  BY <1>1, Alignment, SizeAssumption DEF Address
<1>3. a \in Byte /\ b \in Byte /\ c \in Byte /\ d \in Byte
  BY <1>2 DEF Holds
<1>4. PICK e, f, g, h \in Byte : register = Join(e, f, g, h) /\ Lanes(register) = Four(e, f, g, h)
  BY LanesOfWord DEF Holds, Word
<1>5. data_read_fDM = Join(a, b, c, d)  BY DEF readWord, Join
<1>6. sa \in Byte /\ sb \in Byte /\ sc \in Byte /\ sd \in Byte /\ 0 \in Byte
  BY <1>3, SignByte, ByteFacts
<1>7. WriteData1 = data_read_aligned(operation.op, at, Join(e, f, g, h), Join(a, b, c, d))
  BY <1>4, <1>5 DEF WriteData1
<1>8. SUFFICES \E w, x, y, z \in Byte :
        WriteData1 = Join(w, x, y, z)
        /\ Meaning!Loaded(operation.op, operation.address) = Four(w, x, y, z)
  BY LanesOfJoin, Parts DEF Word
<1>9. /\ Meaning!Loaded(operation.op, operation.address) = Meaning!Loaded(operation.op, base + at)
      /\ base + 0 = base
  BY <1>2
<1> HIDE DEF at, base
<1>10. ReadsAs(a, b, c, d, e, f, g, h) /\ LoadsAs(base, e, f, g, h)
  BY <1>2, <1>3, <1>4, AlignedRead, LoadedBytes
<1>11. operation.op \in {"LW", "LB", "LBU", "LH", "LHU", "LWL", "LWR"}
  BY DEF MemRead, LoadOperations
<1>12. CASE operation.op = "LW"
  BY <1>1, <1>3, <1>7, <1>9, <1>10, <1>12 DEF ReadsAs, LoadsAs
<1>13. CASE operation.op = "LWL"
  BY <1>2, <1>3, <1>7, <1>9, <1>10, <1>13 DEF ReadsAs, LoadsAs
<1>14. CASE operation.op = "LWR"
  BY <1>2, <1>3, <1>7, <1>9, <1>10, <1>14 DEF ReadsAs, LoadsAs
<1>15. CASE operation.op = "LB"
  BY <1>2, <1>3, <1>6, <1>7, <1>9, <1>10, <1>15 DEF ReadsAs, LoadsAs
<1>16. CASE operation.op = "LBU"
  BY <1>2, <1>3, <1>6, <1>7, <1>9, <1>10, <1>16 DEF ReadsAs, LoadsAs
<1>17. CASE operation.op = "LH"
  BY <1>1, <1>3, <1>6, <1>7, <1>9, <1>10, <1>17 DEF ReadsAs, LoadsAs
<1>18. CASE operation.op = "LHU"
  BY <1>1, <1>3, <1>6, <1>7, <1>9, <1>10, <1>18 DEF ReadsAs, LoadsAs
<1> QED  BY <1>11, <1>12, <1>13, <1>14, <1>15, <1>16, <1>17, <1>18

----------------------------------------------------------------------------
(* Stores.                                                                 *)

\* Memory with bytes lo to hi of the register, the first one at c + lo.
Written(memory, c, lo, hi) ==
  [x \in Address |-> IF x - c \in lo .. hi THEN Lanes(register)[x - c] ELSE memory[x]]

Run(lo, hi, c) == [i \in lo .. hi |-> c + i]

\* What a store means for any memory.
StoredIn(memory) ==
  LET to == Meaning!Stores(operation.op, operation.address) IN
  [x \in Address |->
     IF \E i \in DOMAIN to : to[i] = x
     THEN Lanes(register)[CHOOSE i \in DOMAIN to : to[i] = x] ELSE memory[x]]

LEMMA StoredMeans ==
  ASSUME NEW memory, NEW c \in Int, NEW lo \in 1 .. 4, NEW hi \in 1 .. 4,
         Meaning!Stores(operation.op, operation.address) = Run(lo, hi, c)
  PROVE  StoredIn(memory) = Written(memory, c, lo, hi)
<1> DEFINE to == [i \in lo .. hi |-> c + i]
<1>1. ASSUME NEW x \in Address
      PROVE  /\ (\E i \in DOMAIN to : to[i] = x) <=> x - c \in lo .. hi
             /\ x - c \in lo .. hi => (CHOOSE i \in DOMAIN to : to[i] = x) = x - c
  <2>1. x \in Int  BY SizeAssumption DEF Address
  <2>2. DOMAIN to = lo .. hi  OBVIOUS
  <2>3. \A i \in lo .. hi : to[i] = x <=> i = x - c  BY <2>1
  <2> HIDE DEF to
  <2> QED  BY <2>1, <2>2, <2>3
<1> HIDE DEF to
<1>2. StoredIn(memory) =
        [x \in Address |->
           IF \E i \in DOMAIN to : to[i] = x
           THEN Lanes(register)[CHOOSE i \in DOMAIN to : to[i] = x] ELSE memory[x]]
  BY DEF StoredIn, to, Run
<1> QED  BY <1>1, <1>2 DEF Written

LEMMA WrittenTwice ==
  ASSUME NEW memory, NEW c, NEW lo, NEW hi
  PROVE  Written(Written(memory, c, lo, hi), c, lo, hi) = Written(memory, c, lo, hi)
BY DEF Written

LEMMA WrittenBytes ==
  ASSUME NEW memory \in [Address -> Byte], NEW c \in Int, NEW lo \in 1 .. 4, NEW hi \in 1 .. 4,
         register \in Word
  PROVE  Written(memory, c, lo, hi) \in [Address -> Byte]
<1>1. \A i \in 1 .. 4 : Lanes(register)[i] \in Byte
  BY LanesOfWord DEF Four, Word
<1>2. ASSUME NEW x \in Address, x - c \in lo .. hi PROVE x - c \in 1 .. 4
  BY <1>2, SizeAssumption DEF Address
<1> QED  BY <1>1, <1>2 DEF Written

Two(a, b) == a * BYTE + b
Three(a, b, c) == (a * BYTE + b) * BYTE + c

\* Memory with one to four bytes changed.
Put1(memory, p, a) == [memory EXCEPT ![p] = a]
Put2(memory, p, a, b) == [memory EXCEPT ![p] = a, ![p + 1] = b]
Put3(memory, p, a, b, c) == [memory EXCEPT ![p] = a, ![p + 1] = b, ![p + 2] = c]
Put4(memory, p, a, b, c, d) ==
  [memory EXCEPT ![p] = a, ![p + 1] = b, ![p + 2] = c, ![p + 3] = d]

\* What the port writes, by its count of bytes.
LEMMA PortWritesOne ==
  ASSUME NEW memory, NEW p, NEW a \in Byte
  PROVE  PortWrite(memory, p, 1, a) = Put1(memory, p, a)
<1>1. PortWrite(memory, p, 1, a) = writeByte(memory, p, a)  BY DEF PortWrite
<1>2. Splits(a, BYTE, 0, a)  BY ByteFacts DEF Splits, Byte
<1>3. a % BYTE = a  BY <1>2, Divided
<1> QED  BY <1>1, <1>3 DEF writeByte, Put1

LEMMA WritesTwo ==
  ASSUME NEW memory, NEW p, NEW a \in Byte, NEW b \in Byte
  PROVE  writeHalfWord(memory, p, Two(a, b)) = Put2(memory, p, a, b)
<1>1. Splits(Two(a, b), BYTE, a, b) /\ Splits(a, BYTE, 0, a)
  BY ByteFacts DEF Splits, Two, Byte
<1>2. Two(a, b) \div BYTE = a /\ Two(a, b) % BYTE = b /\ a % BYTE = a  BY <1>1, Divided
<1> QED  BY <1>2 DEF writeHalfWord, Put2

LEMMA PortWritesTwo ==
  ASSUME NEW memory, NEW p, NEW a \in Byte, NEW b \in Byte
  PROVE  PortWrite(memory, p, 2, Two(a, b)) = Put2(memory, p, a, b)
<1>1. PortWrite(memory, p, 2, Two(a, b)) = writeHalfWord(memory, p, Two(a, b))  BY DEF PortWrite
<1> QED  BY <1>1, WritesTwo

LEMMA PortWritesThree ==
  ASSUME NEW memory, NEW p \in Int, NEW a \in Byte, NEW b \in Byte, NEW c \in Byte
  PROVE  PortWrite(memory, p, 3, Three(a, b, c)) = Put3(memory, p, a, b, c)
<1> DEFINE x == Three(a, b, c)
           y == a * BYTE + b
<1>1. /\ BYTE \in Nat /\ BYTE > 0 /\ HALF \in Nat /\ HALF > 0 /\ HALF = BYTE * BYTE
      /\ a \in 0 .. BYTE - 1 /\ b \in 0 .. BYTE - 1 /\ c \in 0 .. BYTE - 1
  BY ByteFacts, Powers, PowerFacts DEF Byte
<1>2. y \in Nat /\ b * BYTE + c \in 0 .. HALF - 1  BY <1>1, Parts
<1>3. /\ Splits(a, BYTE, 0, a) /\ Splits(y, BYTE, a, b) /\ Splits(x, BYTE, y, c)
      /\ Splits(x, HALF, a, b * BYTE + c)
  BY <1>1, <1>2 DEF Splits, Three
<1> HIDE DEF x, y
<1>4. a % BYTE = a /\ y % BYTE = b /\ x \div BYTE = y /\ x % BYTE = c /\ x \div HALF = a
  BY <1>3, Divided
<1>5. PortWrite(memory, p, 3, x) = writeHalfWord(writeByte(memory, p, x \div HALF), p + 1, x)
  BY DEF PortWrite
<1>6. writeByte(memory, p, x \div HALF) = [memory EXCEPT ![p] = a]  BY <1>4 DEF writeByte
<1>7. \A m : writeHalfWord(m, p + 1, x) = [m EXCEPT ![p + 1] = b, ![p + 2] = c]
  <2>1. p + 1 + 1 = p + 2  OBVIOUS
  <2> QED  BY <1>4, <2>1 DEF writeHalfWord
<1> QED  BY <1>5, <1>6, <1>7 DEF x, Put3

LEMMA WritesFour ==
  ASSUME NEW memory, NEW p, NEW a \in Byte, NEW b \in Byte, NEW c \in Byte, NEW d \in Byte
  PROVE  writeWord(memory, p, Join(a, b, c, d)) = Put4(memory, p, a, b, c, d)
<1> DEFINE w == Join(a, b, c, d)
<1>1. /\ Slice(w, 1, 1) = c /\ Slice(w, 2, 2) = b /\ Slice(w, 3, 3) = a /\ w % BYTE = d
  BY Slices
<1>2. /\ Slice(w, 1, 1) = (w \div BYTE) % BYTE /\ Slice(w, 2, 2) = (w \div HALF) % BYTE
      /\ Slice(w, 3, 3) = (w \div (HALF * BYTE)) % BYTE
  BY PowerFacts DEF Slice
<1> HIDE DEF w
<1>3. writeWord(memory, p, w) = Put4(memory, p, a, b, c, d)
  BY <1>1, <1>2 DEF writeWord, Put4
<1> QED  BY <1>3 DEF w

LEMMA PortWritesFour ==
  ASSUME NEW memory, NEW p, NEW a \in Byte, NEW b \in Byte, NEW c \in Byte, NEW d \in Byte
  PROVE  PortWrite(memory, p, 4, Join(a, b, c, d)) = Put4(memory, p, a, b, c, d)
<1>1. PortWrite(memory, p, 4, Join(a, b, c, d)) = writeWord(memory, p, Join(a, b, c, d))
  BY DEF PortWrite
<1> QED  BY <1>1, WritesFour

\* The same as parts of the register.
LEMMA Places1 ==
  ASSUME NEW memory \in [Address -> Byte], NEW p \in Address, NEW l \in 1 .. 4,
         NEW a, Lanes(register)[l] = a
  PROVE  Put1(memory, p, a) = Written(memory, p - l, l, l)
<1>1. p \in Int /\ Address \subseteq Int  BY SizeAssumption DEF Address
<1>2. ASSUME NEW x \in Address
      PROVE  Put1(memory, p, a)[x] = Written(memory, p - l, l, l)[x]
  <2>1. Written(memory, p - l, l, l)[x] =
          IF x - (p - l) \in l .. l THEN Lanes(register)[x - (p - l)] ELSE memory[x]
    BY DEF Written
  <2>2. x - (p - l) \in l .. l <=> x = p  BY <1>1
  <2>3. x = p => x - (p - l) = l  BY <1>1
  <2>4. Put1(memory, p, a)[x] = IF x = p THEN a ELSE memory[x]  BY DEF Put1
  <2> QED  BY <2>1, <2>2, <2>3, <2>4
<1> QED  BY <1>2 DEF Put1, Written

LEMMA Places2 ==
  ASSUME NEW memory \in [Address -> Byte], NEW p \in Address, p + 1 \in Address, NEW l \in 1 .. 3,
         NEW a, NEW b, Lanes(register)[l] = a, Lanes(register)[l + 1] = b
  PROVE  Put2(memory, p, a, b) = Written(memory, p - l, l, l + 1)
<1>1. p \in Int /\ Address \subseteq Int  BY SizeAssumption DEF Address
<1>2. ASSUME NEW x \in Address
      PROVE  Put2(memory, p, a, b)[x] = Written(memory, p - l, l, l + 1)[x]
  <2>1. Written(memory, p - l, l, l + 1)[x] =
          IF x - (p - l) \in l .. l + 1 THEN Lanes(register)[x - (p - l)] ELSE memory[x]
    BY DEF Written
  <2>2. x - (p - l) \in l .. l + 1 <=> x = p \/ x = p + 1  BY <1>1
  <2>3. (x = p => x - (p - l) = l) /\ (x = p + 1 => x - (p - l) = l + 1)  BY <1>1
  <2>4. Put2(memory, p, a, b)[x] = IF x = p + 1 THEN b ELSE IF x = p THEN a ELSE memory[x]
    BY DEF Put2
  <2>5. p # p + 1  BY <1>1
  <2> QED  BY <2>1, <2>2, <2>3, <2>4, <2>5
<1> QED  BY <1>2 DEF Put2, Written

LEMMA Places3 ==
  ASSUME NEW memory \in [Address -> Byte], NEW p \in Address, p + 1 \in Address, p + 2 \in Address,
         NEW l \in 1 .. 2, NEW a, NEW b, NEW c,
         Lanes(register)[l] = a, Lanes(register)[l + 1] = b, Lanes(register)[l + 2] = c
  PROVE  Put3(memory, p, a, b, c) = Written(memory, p - l, l, l + 2)
<1>1. p \in Int /\ Address \subseteq Int  BY SizeAssumption DEF Address
<1>2. ASSUME NEW x \in Address
      PROVE  Put3(memory, p, a, b, c)[x] = Written(memory, p - l, l, l + 2)[x]
  <2>1. Written(memory, p - l, l, l + 2)[x] =
          IF x - (p - l) \in l .. l + 2 THEN Lanes(register)[x - (p - l)] ELSE memory[x]
    BY DEF Written
  <2>2. x - (p - l) \in l .. l + 2 <=> x = p \/ x = p + 1 \/ x = p + 2  BY <1>1
  <2>3. /\ x = p => x - (p - l) = l
        /\ x = p + 1 => x - (p - l) = l + 1
        /\ x = p + 2 => x - (p - l) = l + 2
    BY <1>1
  <2>4. Put3(memory, p, a, b, c)[x] =
          IF x = p + 2 THEN c ELSE IF x = p + 1 THEN b ELSE IF x = p THEN a ELSE memory[x]
    BY DEF Put3
  <2>5. p # p + 1 /\ p # p + 2 /\ p + 1 # p + 2  BY <1>1
  <2> QED  BY <2>1, <2>2, <2>3, <2>4, <2>5
<1> QED  BY <1>2 DEF Put3, Written

LEMMA Places4 ==
  ASSUME NEW memory \in [Address -> Byte],
         NEW p \in Address, p + 1 \in Address, p + 2 \in Address, p + 3 \in Address,
         NEW a, NEW b, NEW c, NEW d, Lanes(register)[1] = a, Lanes(register)[2] = b,
         Lanes(register)[3] = c, Lanes(register)[4] = d
  PROVE  Put4(memory, p, a, b, c, d) = Written(memory, p - 1, 1, 4)
<1>1. p \in Int /\ Address \subseteq Int  BY SizeAssumption DEF Address
<1>2. ASSUME NEW x \in Address
      PROVE  Put4(memory, p, a, b, c, d)[x] = Written(memory, p - 1, 1, 4)[x]
  <2>1. Written(memory, p - 1, 1, 4)[x] =
          IF x - (p - 1) \in 1 .. 4 THEN Lanes(register)[x - (p - 1)] ELSE memory[x]
    BY DEF Written
  <2>2. x - (p - 1) \in 1 .. 4 <=> x = p \/ x = p + 1 \/ x = p + 2 \/ x = p + 3  BY <1>1
  <2>3. /\ x = p => x - (p - 1) = 1
        /\ x = p + 1 => x - (p - 1) = 2
        /\ x = p + 2 => x - (p - 1) = 3
        /\ x = p + 3 => x - (p - 1) = 4
    BY <1>1
  <2>4. Put4(memory, p, a, b, c, d)[x] =
          IF x = p + 3 THEN d ELSE IF x = p + 2 THEN c ELSE IF x = p + 1 THEN b
          ELSE IF x = p THEN a ELSE memory[x]
    BY DEF Put4
  <2>5. p # p + 1 /\ p # p + 2 /\ p + 1 # p + 2 /\ p # p + 3 /\ p + 1 # p + 3 /\ p + 2 # p + 3
    BY <1>1
  <2> QED  BY <2>1, <2>2, <2>3, <2>4, <2>5
<1> QED  BY <1>2 DEF Put4, Written

\* What MEM puts on its port, by the bytes of the register.
LEMMA DataWritten ==
  ASSUME NEW e \in Byte, NEW f \in Byte, NEW g \in Byte, NEW h \in Byte,
         register = Join(e, f, g, h)
  PROVE  /\ data_write_2DM("SW", 0, register) = Join(e, f, g, h)
         /\ \A at \in 0 .. 3 : data_write_2DM("SB", at, register) = h
         /\ \A at \in 0 .. 3 : data_write_2DM("SH", at, register) = Two(g, h)
         /\ data_write_2DM("SWL", 0, register) = Join(e, f, g, h)
         /\ data_write_2DM("SWL", 1, register) = Three(e, f, g)
         /\ data_write_2DM("SWL", 2, register) = Two(e, f)
         /\ data_write_2DM("SWL", 3, register) = e
         /\ data_write_2DM("SWR", 0, register) = h
         /\ data_write_2DM("SWR", 1, register) = Two(g, h)
         /\ data_write_2DM("SWR", 2, register) = Three(f, g, h)
         /\ data_write_2DM("SWR", 3, register) = Join(e, f, g, h)
<1>1. /\ Slice(register, 0, 0) = h /\ Slice(register, 1, 0) = Two(g, h)
      /\ Slice(register, 2, 0) = Three(f, g, h) /\ Slice(register, 3, 0) = register
      /\ Slice(register, 3, 3) = e /\ Slice(register, 3, 2) = Two(e, f)
      /\ Slice(register, 3, 1) = Three(e, f, g)
  BY Slices DEF Two, Three
<1> QED  BY <1>1 DEF data_write_2DM, WriteBytes

LEMMA StoresAt ==
  ASSUME NEW x \in Int
  PROVE  /\ Meaning!Stores("SW", x) = Run(1, 4, x - 1)
         /\ Meaning!Stores("SH", x) = Run(3, 4, x - 3)
         /\ Meaning!Stores("SB", x) = Run(4, 4, x - 4)
         /\ x % 4 = 0 => Meaning!Stores("SWL", x) = Run(1, 4, x - 1)
         /\ x % 4 = 1 => Meaning!Stores("SWL", x) = Run(1, 3, x - 1)
         /\ x % 4 = 2 => Meaning!Stores("SWL", x) = Run(1, 2, x - 1)
         /\ x % 4 = 3 => Meaning!Stores("SWL", x) = Run(1, 1, x - 1)
         /\ x % 4 = 0 => Meaning!Stores("SWR", x) = Run(4, 4, x - 4)
         /\ x % 4 = 1 => Meaning!Stores("SWR", x) = Run(3, 4, x - 4)
         /\ x % 4 = 2 => Meaning!Stores("SWR", x) = Run(2, 4, x - 4)
         /\ x % 4 = 3 => Meaning!Stores("SWR", x) = Run(1, 4, x - 4)
<1>1. /\ Meaning!Stores("SW", x) = [i \in 1 .. 4 |-> x + i - 1]
      /\ Meaning!Stores("SH", x) = [i \in 3 .. 4 |-> x + i - 3]
      /\ Meaning!Stores("SB", x) = [i \in {4} |-> x]
      /\ Meaning!Stores("SWL", x) = [i \in 1 .. 4 - (x % 4) |-> x + i - 1]
      /\ Meaning!Stores("SWR", x) = [i \in 4 - (x % 4) .. 4 |-> x + i - 4]
  BY DEF Meaning!Stores
<1>2. Meaning!Stores("SW", x) = Run(1, 4, x - 1)  BY <1>1 DEF Run
<1>3. Meaning!Stores("SH", x) = Run(3, 4, x - 3)  BY <1>1 DEF Run
<1>4. Meaning!Stores("SB", x) = Run(4, 4, x - 4)  BY <1>1 DEF Run
<1>5. ASSUME NEW k \in 0 .. 3, x % 4 = k
      PROVE  /\ Meaning!Stores("SWL", x) = Run(1, 4 - k, x - 1)
             /\ Meaning!Stores("SWR", x) = Run(4 - k, 4, x - 4)
  BY <1>1, <1>5 DEF Run
<1> QED  BY <1>2, <1>3, <1>4, <1>5

\* Each store writes its bytes where it means to.
LEMMA Store ==
  ASSUME Holds, MemWrite
  PROVE  LET at == operation.address % 4
             next == PortWrite(MAIN_MEMORY, data_address_2DM, WriteBytes(operation.op, at),
                               data_write_2DM(operation.op, at, register)) IN
         next = StoredIn(MAIN_MEMORY) /\ next \in [Address -> Byte] /\ StoredIn(next) = next
<1> DEFINE at   == operation.address % 4
           base == operation.address - at
           next == PortWrite(MAIN_MEMORY, data_address_2DM, WriteBytes(operation.op, at),
                             data_write_2DM(operation.op, at, register))
<1>1. /\ operation \in Operations /\ operation.address \in Address
      /\ operation.op = "SW" => at = 0
      /\ operation.op = "SH" => at \in {0, 2}
  BY OperationFacts, SizeAssumption DEF Address
<1>2. /\ at \in 0 .. 3 /\ base \in Address /\ operation.address = base + at
      /\ base + 1 \in Address /\ base + 2 \in Address /\ base + 3 \in Address
      /\ base \in Int /\ operation.address \in Int
  BY <1>1, Alignment, SizeAssumption DEF Address
<1>3. PICK e, f, g, h \in Byte : register = Join(e, f, g, h) /\ Lanes(register) = Four(e, f, g, h)
  BY LanesOfWord DEF Holds, Word
<1>4. /\ Lanes(register)[1] = e /\ Lanes(register)[2] = f
      /\ Lanes(register)[3] = g /\ Lanes(register)[4] = h
      /\ Lanes(register)[1 + 1] = f /\ Lanes(register)[1 + 2] = g
      /\ Lanes(register)[2 + 1] = g /\ Lanes(register)[2 + 2] = h /\ Lanes(register)[3 + 1] = h
  BY <1>3 DEF Four
<1>5. SUFFICES \E c \in Int, lo \in 1 .. 4, hi \in 1 .. 4 :
        /\ next = Written(MAIN_MEMORY, c, lo, hi)
        /\ Meaning!Stores(operation.op, operation.address) = Run(lo, hi, c)
  <2>1. PICK c \in Int, lo \in 1 .. 4, hi \in 1 .. 4 :
          /\ next = Written(MAIN_MEMORY, c, lo, hi)
          /\ Meaning!Stores(operation.op, operation.address) = Run(lo, hi, c)
    BY <1>5
  <2> HIDE DEF next
  <2>2. \A memory : StoredIn(memory) = Written(memory, c, lo, hi)  BY <2>1, StoredMeans
  <2>3. next \in [Address -> Byte]  BY <2>1, WrittenBytes DEF Holds
  <2>4. StoredIn(next) = next  BY <2>1, <2>2, WrittenTwice
  <2>5. next = StoredIn(MAIN_MEMORY)  BY <2>1, <2>2
  <2> QED  BY <2>3, <2>4, <2>5 DEF next
<1>6. MAIN_MEMORY \in [Address -> Byte]  BY DEF Holds
<1>7. operation.op # "SWR" => data_address_2DM = operation.address
  BY DEF data_address_2DM, MemWrite
<1>8. operation.op = "SWR" => data_address_2DM = base
  BY DEF data_address_2DM
<1>9. ASSUME NEW p \in Address, data_address_2DM = p, NEW n, WriteBytes(operation.op, at) = n,
             NEW data, data_write_2DM(operation.op, at, register) = data
      PROVE  next = PortWrite(MAIN_MEMORY, p, n, data)
  BY <1>9
<1> DEFINE x == operation.address
<1> HIDE DEF at, base, next, x
<1>10. CASE operation.op = "SW"
  <2>1. x - 1 \in Int /\ x + 1 \in Address /\ x + 2 \in Address /\ x + 3 \in Address  BY <1>1, <1>2, <1>10 DEF x
  <2>2. next = PortWrite(MAIN_MEMORY, x, 4, Join(e, f, g, h))
    BY <1>1, <1>3, <1>7, <1>9, <1>10, DataWritten DEF WriteBytes, x
  <2>3. next = Written(MAIN_MEMORY, x - 1, 1, 4)
    BY <1>1, <1>4, <1>6, <2>1, <2>2, PortWritesFour, Places4 DEF x
  <2>4. Meaning!Stores(operation.op, operation.address) = Run(1, 4, x - 1)
    BY <1>2, <1>10, StoresAt DEF x
  <2> QED  BY <2>1, <2>3, <2>4
<1>11. CASE operation.op = "SB"
  <2>1. x - 4 \in Int  BY <1>2 DEF x
  <2>2. next = PortWrite(MAIN_MEMORY, x, 1, h)
    <3>1. WriteBytes(operation.op, at) = 1 /\ data_write_2DM(operation.op, at, register) = h
      BY <1>2, <1>3, <1>11, DataWritten DEF WriteBytes
    <3> QED  BY <1>1, <1>7, <1>9, <1>11, <3>1 DEF x
  <2>3. next = Written(MAIN_MEMORY, x - 4, 4, 4)
    BY <1>1, <1>4, <1>6, <2>2, PortWritesOne, Places1 DEF x
  <2>4. Meaning!Stores(operation.op, operation.address) = Run(4, 4, x - 4)
    BY <1>2, <1>11, StoresAt DEF x
  <2> QED  BY <2>1, <2>3, <2>4
<1>12. CASE operation.op = "SH"
  <2>1. x - 3 \in Int /\ x + 1 \in Address  BY <1>1, <1>2, <1>12 DEF x
  <2>2. next = PortWrite(MAIN_MEMORY, x, 2, Two(g, h))
    <3>1. WriteBytes(operation.op, at) = 2 /\ data_write_2DM(operation.op, at, register) = Two(g, h)
      BY <1>2, <1>3, <1>12, DataWritten DEF WriteBytes
    <3> QED  BY <1>1, <1>7, <1>9, <1>12, <3>1 DEF x
  <2>3. next = Written(MAIN_MEMORY, x - 3, 3, 3 + 1)
    BY <1>1, <1>4, <1>6, <2>1, <2>2, PortWritesTwo, Places2 DEF x
  <2>4. Meaning!Stores(operation.op, operation.address) = Run(3, 4, x - 3)
    BY <1>2, <1>12, StoresAt DEF x
  <2> QED  BY <2>1, <2>3, <2>4
<1>13. at = x % 4 /\ x \in Int /\ x \in Address /\ x = base + at  BY <1>1, <1>2 DEF at, x
<1>14. CASE operation.op = "SWL"
  <2>1. x - 1 \in Int  BY <1>2 DEF x
  <2>2. data_address_2DM = x  BY <1>7, <1>14 DEF x
  <2>3. CASE at = 0
    <3>1. next = PortWrite(MAIN_MEMORY, x, 4, Join(e, f, g, h))
      <4>1. WriteBytes(operation.op, at) = 4 /\ data_write_2DM(operation.op, at, register) = Join(e, f, g, h)
        BY <1>3, <1>14, <2>3, DataWritten DEF WriteBytes
      <4> QED  BY <1>9, <1>13, <2>2, <4>1
    <3>2. x + 1 \in Address /\ x + 2 \in Address /\ x + 3 \in Address  BY <1>2, <1>13, <2>3
    <3>3. next = Written(MAIN_MEMORY, x - 1, 1, 4)
      BY <1>4, <1>6, <1>13, <3>1, <3>2, PortWritesFour, Places4
    <3>4. Meaning!Stores(operation.op, operation.address) = Run(1, 4, x - 1)
      BY <1>13, <1>14, <2>3, StoresAt DEF x
    <3> QED  BY <2>1, <3>3, <3>4
  <2>4. CASE at = 1
    <3>1. next = PortWrite(MAIN_MEMORY, x, 3, Three(e, f, g))
      <4>1. WriteBytes(operation.op, at) = 3 /\ data_write_2DM(operation.op, at, register) = Three(e, f, g)
        BY <1>3, <1>14, <2>4, DataWritten DEF WriteBytes
      <4> QED  BY <1>9, <1>13, <2>2, <4>1
    <3>2. x + 1 \in Address /\ x + 2 \in Address  BY <1>2, <1>13, <2>4
    <3>3. next = Written(MAIN_MEMORY, x - 1, 1, 1 + 2)
      BY <1>4, <1>6, <1>13, <3>1, <3>2, PortWritesThree, Places3
    <3>4. Meaning!Stores(operation.op, operation.address) = Run(1, 3, x - 1)
      BY <1>13, <1>14, <2>4, StoresAt DEF x
    <3> QED  BY <2>1, <3>3, <3>4
  <2>5. CASE at = 2
    <3>1. next = PortWrite(MAIN_MEMORY, x, 2, Two(e, f))
      <4>1. WriteBytes(operation.op, at) = 2 /\ data_write_2DM(operation.op, at, register) = Two(e, f)
        BY <1>3, <1>14, <2>5, DataWritten DEF WriteBytes
      <4> QED  BY <1>9, <1>13, <2>2, <4>1
    <3>2. x + 1 \in Address  BY <1>2, <1>13, <2>5
    <3>3. next = Written(MAIN_MEMORY, x - 1, 1, 1 + 1)
      BY <1>4, <1>6, <1>13, <3>1, <3>2, PortWritesTwo, Places2
    <3>4. Meaning!Stores(operation.op, operation.address) = Run(1, 2, x - 1)
      BY <1>13, <1>14, <2>5, StoresAt DEF x
    <3> QED  BY <2>1, <3>3, <3>4
  <2>6. CASE at = 3
    <3>1. next = PortWrite(MAIN_MEMORY, x, 1, e)
      <4>1. WriteBytes(operation.op, at) = 1 /\ data_write_2DM(operation.op, at, register) = e
        BY <1>3, <1>14, <2>6, DataWritten DEF WriteBytes
      <4> QED  BY <1>9, <1>13, <2>2, <4>1
    <3>2. x \in Address  BY <1>2, <1>13, <2>6
    <3>3. next = Written(MAIN_MEMORY, x - 1, 1, 1)
      BY <1>4, <1>6, <1>13, <3>1, <3>2, PortWritesOne, Places1
    <3>4. Meaning!Stores(operation.op, operation.address) = Run(1, 1, x - 1)
      BY <1>13, <1>14, <2>6, StoresAt DEF x
    <3> QED  BY <2>1, <3>3, <3>4
  <2> QED  BY <1>2, <2>3, <2>4, <2>5, <2>6
<1>15. CASE operation.op = "SWR"
  <2>1. data_address_2DM = base  BY <1>8, <1>15
  <2>2. CASE at = 0
    <3>1. next = PortWrite(MAIN_MEMORY, base, 1, h)
      <4>1. WriteBytes(operation.op, at) = 1 /\ data_write_2DM(operation.op, at, register) = h
        BY <1>3, <1>15, <2>2, DataWritten DEF WriteBytes
      <4> QED  BY <1>2, <1>9, <2>1, <4>1
    <3>2. next = Written(MAIN_MEMORY, base - 4, 4, 4)
      BY <1>2, <1>4, <1>6, <3>1, PortWritesOne, Places1
    <3>3. Meaning!Stores(operation.op, operation.address) = Run(4, 4, base - 4)
      <4>1. base - 4 = x - 4  BY <1>2, <1>13, <2>2
      <4> QED  BY <1>13, <1>15, <2>2, <4>1, StoresAt DEF x
    <3>4. base - 4 \in Int  BY <1>2
    <3> QED  BY <3>2, <3>3, <3>4
  <2>3. CASE at = 1
    <3>1. next = PortWrite(MAIN_MEMORY, base, 2, Two(g, h))
      <4>1. WriteBytes(operation.op, at) = 2 /\ data_write_2DM(operation.op, at, register) = Two(g, h)
        BY <1>3, <1>15, <2>3, DataWritten DEF WriteBytes
      <4> QED  BY <1>2, <1>9, <2>1, <4>1
    <3>2. next = Written(MAIN_MEMORY, base - 3, 3, 3 + 1)
      BY <1>2, <1>4, <1>6, <3>1, PortWritesTwo, Places2
    <3>3. Meaning!Stores(operation.op, operation.address) = Run(3, 4, base - 3)
      <4>1. base - 3 = x - 4  BY <1>2, <1>13, <2>3
      <4> QED  BY <1>13, <1>15, <2>3, <4>1, StoresAt DEF x
    <3>4. base - 3 \in Int  BY <1>2
    <3> QED  BY <3>2, <3>3, <3>4
  <2>4. CASE at = 2
    <3>1. next = PortWrite(MAIN_MEMORY, base, 3, Three(f, g, h))
      <4>1. WriteBytes(operation.op, at) = 3 /\ data_write_2DM(operation.op, at, register) = Three(f, g, h)
        BY <1>3, <1>15, <2>4, DataWritten DEF WriteBytes
      <4> QED  BY <1>2, <1>9, <2>1, <4>1
    <3>2. next = Written(MAIN_MEMORY, base - 2, 2, 2 + 2)
      BY <1>2, <1>4, <1>6, <3>1, PortWritesThree, Places3
    <3>3. Meaning!Stores(operation.op, operation.address) = Run(2, 4, base - 2)
      <4>1. base - 2 = x - 4  BY <1>2, <1>13, <2>4
      <4> QED  BY <1>13, <1>15, <2>4, <4>1, StoresAt DEF x
    <3>4. base - 2 \in Int  BY <1>2
    <3> QED  BY <3>2, <3>3, <3>4
  <2>5. CASE at = 3
    <3>1. next = PortWrite(MAIN_MEMORY, base, 4, Join(e, f, g, h))
      <4>1. WriteBytes(operation.op, at) = 4 /\ data_write_2DM(operation.op, at, register) = Join(e, f, g, h)
        BY <1>3, <1>15, <2>5, DataWritten DEF WriteBytes
      <4> QED  BY <1>2, <1>9, <2>1, <4>1
    <3>2. next = Written(MAIN_MEMORY, base - 1, 1, 4)
      BY <1>2, <1>4, <1>6, <3>1, PortWritesFour, Places4
    <3>3. Meaning!Stores(operation.op, operation.address) = Run(1, 4, base - 1)
      <4>1. base - 1 = x - 4  BY <1>2, <1>13, <2>5
      <4> QED  BY <1>13, <1>15, <2>5, <4>1, StoresAt DEF x
    <3>4. base - 1 \in Int  BY <1>2
    <3> QED  BY <3>2, <3>3, <3>4
  <2> QED  BY <1>2, <2>2, <2>3, <2>4, <2>5
<1> QED  BY <1>10, <1>11, <1>12, <1>14, <1>15 DEF MemWrite, StoreOperations

----------------------------------------------------------------------------
(* What system calls store.                                                *)

\* The two digits of a byte of a number.
LEMMA DigitPair ==
  ASSUME NEW v, NEW p, NEW y, NEW low, NEW z, NEW byte,
         Splits(v, p, y, low), Splits(y, BYTE, z, byte)
  PROVE  /\ hexCharValue((v \div (p * DIGIT)) % DIGIT) * DIGIT
              + hexCharValue((v \div p) % DIGIT) = byte
<1>1. /\ p \in Nat /\ p > 0 /\ y \in Int /\ low \in 0 .. p - 1 /\ v = y * p + low
      /\ z \in Int /\ byte \in 0 .. BYTE - 1 /\ y = z * BYTE + byte
  BY DEF Splits
<1>2. DIGIT \in Nat /\ DIGIT > 0 /\ BYTE = DIGIT * DIGIT  BY DigitAssumption DEF BYTE
<1> DEFINE h == byte \div DIGIT
           l == byte % DIGIT
<1>3. h \in Int /\ l \in 0 .. DIGIT - 1 /\ byte = h * DIGIT + l /\ byte \in Int
  BY <1>1, <1>2, DivMod
<1> HIDE DEF h, l
<1>4. h \in 0 .. DIGIT - 1
  <2>1. h >= 0
    <3>1. SUFFICES ASSUME h <= -1 PROVE FALSE  BY <1>3
    <3>2. h * DIGIT <= -DIGIT  BY <1>2, <1>3, <3>1
    <3> QED  BY <1>1, <1>2, <1>3, <3>2
  <2>2. h <= DIGIT - 1
    <3>1. SUFFICES ASSUME h >= DIGIT PROVE FALSE  BY <1>2, <1>3
    <3>2. h * DIGIT >= DIGIT * DIGIT  BY <1>2, <1>3, <3>1
    <3> QED  BY <1>1, <1>2, <1>3, <3>2
  <2> QED  BY <1>2, <1>3, <2>1, <2>2
<1> DEFINE u == z * DIGIT + h
           q == p * DIGIT
           r == l * p + low
<1>5. y = u * DIGIT + l /\ u \in Int  BY <1>1, <1>2, <1>3, <1>4
<1>6. r \in 0 .. DIGIT * p - 1  BY <1>1, <1>2, <1>3, Fits
<1>7. q \in Nat /\ q > 0 /\ q = DIGIT * p  BY <1>1, <1>2
<1>8. v = u * q + r
  <2>1. v = (u * DIGIT + l) * p + low  BY <1>1, <1>5
  <2> QED  BY <1>1, <1>2, <1>3, <1>5, <2>1
<1>9. Splits(v, q, u, r)
  <2> HIDE DEF u, q, r
  <2> QED  BY <1>5, <1>6, <1>7, <1>8 DEF Splits
<1>10. Splits(u, DIGIT, z, h)  BY <1>1, <1>2, <1>4 DEF Splits
<1>11. Splits(y, DIGIT, u, l)  BY <1>1, <1>2, <1>3, <1>5 DEF Splits
<1>12. v \div q = u /\ v \div p = y /\ u % DIGIT = h /\ y % DIGIT = l
  <2> HIDE DEF u, q, r
  <2> QED  BY <1>9, <1>10, <1>11, Divided
<1>13. hexCharValue(h) = h /\ hexCharValue(l) = l  BY <1>3, <1>4 DEF hexCharValue
<1> QED  BY <1>3, <1>12, <1>13

LEMMA HexFacts ==
  ASSUME NEW v
  PROVE  /\ HexOf(v, 2)[1] = (v \div DIGIT) % DIGIT /\ HexOf(v, 2)[2] = (v \div 1) % DIGIT
         /\ HexOf(v, 8)[1] = (v \div (HALF * BYTE * DIGIT)) % DIGIT
         /\ HexOf(v, 8)[2] = (v \div (HALF * BYTE)) % DIGIT
         /\ HexOf(v, 8)[3] = (v \div (HALF * DIGIT)) % DIGIT
         /\ HexOf(v, 8)[4] = (v \div HALF) % DIGIT
         /\ HexOf(v, 8)[5] = (v \div (BYTE * DIGIT)) % DIGIT
         /\ HexOf(v, 8)[6] = (v \div BYTE) % DIGIT
         /\ HexOf(v, 8)[7] = (v \div DIGIT) % DIGIT
         /\ HexOf(v, 8)[8] = (v \div 1) % DIGIT
<1>1. /\ DigitValues(0) = 1 /\ DigitValues(1) = DIGIT /\ DigitValues(2) = BYTE
      /\ DigitValues(3) = BYTE * DIGIT /\ DigitValues(4) = HALF /\ DigitValues(5) = HALF * DIGIT
      /\ DigitValues(6) = HALF * BYTE /\ DigitValues(7) = HALF * BYTE * DIGIT
  BY DEF DigitValues
<1>2. \A i \in 1 .. 2 : HexOf(v, 2)[i] = (v \div DigitValues(2 - i)) % DIGIT  BY DEF HexOf
<1>3. \A i \in 1 .. 8 : HexOf(v, 8)[i] = (v \div DigitValues(8 - i)) % DIGIT  BY DEF HexOf
<1> QED  BY <1>1, <1>2, <1>3

\* The text of a word stands for its bytes.
LEMMA HexBytes ==
  ASSUME NEW a \in Byte, NEW b \in Byte, NEW c \in Byte, NEW d \in Byte,
         NEW v, v = Join(a, b, c, d)
  PROVE  /\ Pair(HexOf(v, 2), 1) = d
         /\ Pair(HexOf(v, 8), 1) = a /\ Pair(HexOf(v, 8), 3) = b
         /\ Pair(HexOf(v, 8), 5) = c /\ Pair(HexOf(v, 8), 7) = d
<1>1. BYTE \in Nat /\ BYTE > 0 /\ HALF \in Nat /\ HALF > 0 /\ HALF * BYTE \in Nat /\ HALF * BYTE > 0
  BY ByteFacts, Powers
<1> DEFINE ab == a * BYTE + b
           cd == c * BYTE + d
           abc == (a * BYTE + b) * BYTE + c
           bcd == (b * BYTE + c) * BYTE + d
<1>2. /\ a \in 0 .. BYTE - 1 /\ b \in 0 .. BYTE - 1 /\ c \in 0 .. BYTE - 1 /\ d \in 0 .. BYTE - 1
      /\ cd \in 0 .. HALF - 1 /\ ab \in 0 .. HALF - 1
      /\ bcd \in 0 .. HALF * BYTE - 1 /\ abc \in 0 .. HALF * BYTE - 1 /\ v \in 0 .. FULL - 1
  BY Parts DEF Byte
<1>3. /\ v = abc * BYTE + d /\ v = ab * HALF + cd /\ v = a * (HALF * BYTE) + bcd
      /\ abc = ab * BYTE + c /\ ab = a * BYTE + b
  BY Parts DEF Join
<1> HIDE DEF ab, cd, abc, bcd
<1>4. Splits(v, 1, v, 0) /\ Splits(v, BYTE, abc, d) /\ Splits(a, BYTE, 0, a)
  BY <1>1, <1>2, <1>3 DEF Splits
<1>5. Splits(v, HALF, ab, cd)  BY <1>1, <1>2, <1>3 DEF Splits
<1>6. Splits(v, HALF * BYTE, a, bcd)  BY <1>1, <1>2, <1>3 DEF Splits
<1>7. Splits(abc, BYTE, ab, c) /\ Splits(ab, BYTE, a, b)  BY <1>1, <1>2, <1>3 DEF Splits
<1>8. hexCharValue((v \div DIGIT) % DIGIT) * DIGIT + hexCharValue((v \div 1) % DIGIT) = d
  <2>1. 1 * DIGIT = DIGIT  BY DigitAssumption
  <2>2. hexCharValue((v \div (1 * DIGIT)) % DIGIT) * DIGIT + hexCharValue((v \div 1) % DIGIT) = d
    BY <1>4, DigitPair
  <2> QED  BY <2>1, <2>2
<1>9. hexCharValue((v \div (BYTE * DIGIT)) % DIGIT) * DIGIT + hexCharValue((v \div BYTE) % DIGIT) = c
  BY <1>4, <1>7, DigitPair
<1>10. hexCharValue((v \div (HALF * DIGIT)) % DIGIT) * DIGIT + hexCharValue((v \div HALF) % DIGIT) = b
  BY <1>5, <1>7, DigitPair
<1>11. hexCharValue((v \div (HALF * BYTE * DIGIT)) % DIGIT) * DIGIT
         + hexCharValue((v \div (HALF * BYTE)) % DIGIT) = a
  BY <1>4, <1>6, DigitPair
<1>12. /\ Pair(HexOf(v, 2), 1) = d
       /\ Pair(HexOf(v, 8), 7) = d
  BY <1>8, HexFacts DEF Pair
<1>13. Pair(HexOf(v, 8), 5) = c  BY <1>9, HexFacts DEF Pair
<1>14. Pair(HexOf(v, 8), 3) = b  BY <1>10, HexFacts DEF Pair
<1>15. Pair(HexOf(v, 8), 1) = a  BY <1>11, HexFacts DEF Pair
<1> QED  BY <1>12, <1>13, <1>14, <1>15

LEMMA HostByte ==
  ASSUME MAIN_MEMORY \in [Address -> Byte], NEW x \in Address, NEW value \in Word
  PROVE  /\ loadSingleHEXInt(MAIN_MEMORY, value, x, AsByte)
              = [MAIN_MEMORY EXCEPT ![x] = Lanes(value)[4]]
         /\ loadSingleHEXInt(MAIN_MEMORY, value, x, AsByte) \in [Address -> Byte]
<1>1. PICK a, b, c, d \in Byte : value = Join(a, b, c, d) /\ Lanes(value) = Four(a, b, c, d)
  BY LanesOfWord DEF Word
<1>2. Pair(HexOf(value, 2), 1) = d  BY <1>1, HexBytes
<1>3. Lanes(value)[4] = d  BY <1>1 DEF Four
<1>4. loadSingleHEXInt(MAIN_MEMORY, value, x, AsByte)
        = loadSingleHEX(MAIN_MEMORY, HexOf(value, 2), x, AsByte)
  BY DEF loadSingleHEXInt, AsByte, AsWord, AsHalfWord
<1>5. loadSingleHEX(MAIN_MEMORY, HexOf(value, 2), x, AsByte)
        = [MAIN_MEMORY EXCEPT ![x] = Pair(HexOf(value, 2), 1)]
  BY DEF loadSingleHEX, AsByte, AsWord, AsHalfWord
<1> QED  BY <1>1, <1>2, <1>3, <1>4, <1>5

LEMMA HostWord ==
  ASSUME MAIN_MEMORY \in [Address -> Byte], NEW x \in Address, x % 4 = 0, NEW value \in Word
  PROVE  /\ loadSingleHEX(MAIN_MEMORY, HexOf(value, 8), x, AsWord)
              = [y \in Address |-> IF y \in x .. x + 3 THEN Lanes(value)[y - x + 1] ELSE MAIN_MEMORY[y]]
         /\ loadSingleHEX(MAIN_MEMORY, HexOf(value, 8), x, AsWord) \in [Address -> Byte]
<1>1. PICK a, b, c, d \in Byte : value = Join(a, b, c, d) /\ Lanes(value) = Four(a, b, c, d)
  BY LanesOfWord DEF Word
<1>2. /\ Pair(HexOf(value, 8), 1) = a /\ Pair(HexOf(value, 8), 3) = b
      /\ Pair(HexOf(value, 8), 5) = c /\ Pair(HexOf(value, 8), 7) = d
  BY <1>1, HexBytes
<1>3. loadSingleHEX(MAIN_MEMORY, HexOf(value, 8), x, AsWord) = Put4(MAIN_MEMORY, x, a, b, c, d)
  <2> DEFINE text == HexOf(value, 8)
  <2>1. Pair(text, 1) = a /\ Pair(text, 3) = b /\ Pair(text, 5) = c /\ Pair(text, 7) = d
    BY <1>2
  <2> HIDE DEF text
  <2>2. loadSingleHEX(MAIN_MEMORY, text, x, AsWord) =
          [MAIN_MEMORY EXCEPT ![x] = Pair(text, 1), ![x + 1] = Pair(text, 3),
                              ![x + 2] = Pair(text, 5), ![x + 3] = Pair(text, 7)]
    BY DEF loadSingleHEX, AsByte, AsWord, AsHalfWord
  <2>3. loadSingleHEX(MAIN_MEMORY, text, x, AsWord) = Put4(MAIN_MEMORY, x, a, b, c, d)
    BY <2>1, <2>2, Zenon DEF Put4
  <2> QED  BY <2>3 DEF text
<1>4. /\ Lanes(value)[1] = a /\ Lanes(value)[2] = b /\ Lanes(value)[3] = c /\ Lanes(value)[4] = d
  BY <1>1 DEF Four
<1>5. x \in Int /\ Address \subseteq Int /\ x + 1 \in Address /\ x + 2 \in Address /\ x + 3 \in Address
  BY SizeAssumption DEF Address
<1>6. ASSUME NEW y \in Address
      PROVE  /\ Put4(MAIN_MEMORY, x, a, b, c, d)[y] =
                  IF y \in x .. x + 3 THEN Lanes(value)[y - x + 1] ELSE MAIN_MEMORY[y]
             /\ Put4(MAIN_MEMORY, x, a, b, c, d)[y] \in Byte
  <2>1. y \in x .. x + 3 <=> y = x \/ y = x + 1 \/ y = x + 2 \/ y = x + 3  BY <1>5
  <2>2. /\ y = x => y - x + 1 = 1
        /\ y = x + 1 => y - x + 1 = 2
        /\ y = x + 2 => y - x + 1 = 3
        /\ y = x + 3 => y - x + 1 = 4
    BY <1>5
  <2>3. Put4(MAIN_MEMORY, x, a, b, c, d)[y] =
          IF y = x + 3 THEN d ELSE IF y = x + 2 THEN c ELSE IF y = x + 1 THEN b
          ELSE IF y = x THEN a ELSE MAIN_MEMORY[y]
    BY <1>5 DEF Put4
  <2>4. x # x + 1 /\ x # x + 2 /\ x + 1 # x + 2 /\ x # x + 3 /\ x + 1 # x + 3 /\ x + 2 # x + 3
    BY <1>5
  <2>5. MAIN_MEMORY[y] \in Byte  OBVIOUS
  <2> QED  BY <1>4, <2>1, <2>2, <2>3, <2>4, <2>5
<1>7. Put4(MAIN_MEMORY, x, a, b, c, d) =
        [y \in Address |-> IF y \in x .. x + 3 THEN Lanes(value)[y - x + 1] ELSE MAIN_MEMORY[y]]
  BY <1>6 DEF Put4
<1>8. Put4(MAIN_MEMORY, x, a, b, c, d) \in [Address -> Byte]
  BY <1>6, <1>7
<1> QED  BY <1>3, <1>7, <1>8

----------------------------------------------------------------------------
(* The invariant.                                                          *)

\* Until the rising edge the word read is memory's, and the bytes to be
\* stored are in memory.
Served ==
  stage = "eval" /\ CLK = 1 =>
    /\ MemRead => data_read_fDM = readWord(MAIN_MEMORY, operation.address - (operation.address % 4))
    /\ MemWrite => StoredIn(MAIN_MEMORY) = MAIN_MEMORY

PortInv == TypeOK /\ (stage = "syscall" => CLK = 0) /\ Served

LEMMA Held == TypeOK => Holds
BY DEF TypeOK, Holds, Byte, Word

LEMMA ReadsWord ==
  ASSUME Holds, MemRead
  PROVE  /\ data_address_2DM = operation.address - (operation.address % 4)
         /\ readWord(MAIN_MEMORY, data_address_2DM) \in Word
<1> DEFINE base == operation.address - (operation.address % 4)
<1>1. base \in Address /\ base + 1 \in Address /\ base + 2 \in Address /\ base + 3 \in Address
  BY OperationFacts, Alignment
<1>2. data_address_2DM = base
  BY DEF data_address_2DM, MemRead, LoadOperations, StoreOperations
<1>3. \A x \in Address : MAIN_MEMORY[x] \in Byte  BY DEF Holds
<1> HIDE DEF base
<1>4. readWord(MAIN_MEMORY, base) =
        Join(MAIN_MEMORY[base], MAIN_MEMORY[base + 1], MAIN_MEMORY[base + 2], MAIN_MEMORY[base + 3])
  BY DEF readWord, Join
<1>5. Join(MAIN_MEMORY[base], MAIN_MEMORY[base + 1], MAIN_MEMORY[base + 2], MAIN_MEMORY[base + 3]) \in Word
  BY <1>1, <1>3, Parts DEF Word
<1> QED  BY <1>2, <1>4, <1>5 DEF base

\* The access: the word that is read, the store that is done.
LEMMA AccessStep ==
  ASSUME PortInv, MemoryAccess
  PROVE  PortInv' /\ (Meaning!Store \/ UNCHANGED <<MAIN_MEMORY, register, operation>>)
<1>1. Holds /\ TypeOK  BY Held DEF PortInv
<1>2. /\ stage = "access" /\ stage' = IF CLK = 0 THEN "syscall" ELSE "eval"
      /\ UNCHANGED <<CLK, operation, register, issued>>
      /\ data_read_fDM' = IF MemRead THEN readWord(MAIN_MEMORY, data_address_2DM) ELSE data_read_fDM
  BY DEF MemoryAccess
<1>3. data_read_fDM' \in Word  BY <1>1, <1>2, ReadsWord DEF TypeOK, Word
<1>4. MemWrite' = MemWrite /\ MemRead' = MemRead  BY <1>2 DEF MemWrite, MemRead
<1>5. CASE MemWrite
  <2>1. /\ MAIN_MEMORY' = StoredIn(MAIN_MEMORY) /\ MAIN_MEMORY' \in [Address -> Byte]
        /\ StoredIn(MAIN_MEMORY') = MAIN_MEMORY'
    BY <1>1, <1>5, Store DEF MemoryAccess
  <2>2. ~MemRead  BY <1>5 DEF MemRead, MemWrite, LoadOperations, StoreOperations
  <2>3. StoredIn(MAIN_MEMORY)' = StoredIn(MAIN_MEMORY')
    BY <1>2 DEF StoredIn, Lanes
  <2>4. Meaning!Stored = StoredIn(MAIN_MEMORY)  BY DEF Meaning!Stored, StoredIn
  <2>5. Meaning!StoresTo  BY <1>5 DEF Meaning!StoresTo, MemWrite, StoreOperations
  <2>6. Meaning!Store  BY <1>2, <2>1, <2>4, <2>5 DEF Meaning!Store, Lanes
  <2>7. TypeOK'  BY <1>1, <1>2, <1>3, <2>1 DEF TypeOK, Byte, Word
  <2>8. Served'  BY <1>4, <2>1, <2>2, <2>3 DEF Served
  <2> QED  BY <1>2, <2>6, <2>7, <2>8 DEF PortInv
<1>6. CASE ~MemWrite
  <2>1. MAIN_MEMORY' = MAIN_MEMORY  BY <1>6 DEF MemoryAccess
  <2>2. TypeOK'  BY <1>1, <1>2, <1>3, <2>1 DEF TypeOK, Byte, Word
  <2>3. Served'
    BY <1>1, <1>2, <1>4, <1>6, <2>1, ReadsWord DEF Served
  <2> QED  BY <1>2, <2>1, <2>2, <2>3 DEF PortInv
<1> QED  BY <1>5, <1>6

\* A system call: what it stores.
LEMMA CallStep ==
  ASSUME PortInv, SystemCall
  PROVE  PortInv' /\ (Meaning!HostStore \/ UNCHANGED <<MAIN_MEMORY, register, operation>>)
<1>1. Holds /\ TypeOK /\ CLK = 0  BY Held DEF PortInv, SystemCall
<1>2. /\ stage' = "eval" /\ UNCHANGED <<CLK, operation, register, data_read_fDM>>
  BY DEF SystemCall
<1>3. CASE UNCHANGED <<MAIN_MEMORY, issued>>
  BY <1>1, <1>2, <1>3 DEF PortInv, TypeOK, Served
<1>4. ASSUME ~MemWrite, issued < MAXISSUED, issued' = issued + 1,
             NEW a \in Address, NEW value \in Values,
             \/ MAIN_MEMORY' = loadSingleHEXInt(MAIN_MEMORY, value, a, AsByte)
             \/ a % 4 = 0 /\ MAIN_MEMORY' = loadSingleHEX(MAIN_MEMORY, HexOf(value, 8), a, AsWord)
      PROVE  PortInv' /\ Meaning!HostStore
  <2>1. value \in Word /\ MAIN_MEMORY \in [Address -> Byte]  BY <1>1, ValuesAreWords DEF Word, Holds
  <2>2. MAIN_MEMORY' \in [Address -> Byte]  BY <1>4, <2>1, HostByte, HostWord
  <2>3. \/ MAIN_MEMORY' = [MAIN_MEMORY EXCEPT ![a] = Lanes(value)[4]]
        \/ a % 4 = 0 /\ MAIN_MEMORY' =
             [y \in Address |-> IF y \in a .. a + 3 THEN Lanes(value)[y - a + 1] ELSE MAIN_MEMORY[y]]
    BY <1>4, <2>1, HostByte, HostWord
  <2>4. ~Meaning!StoresTo  BY <1>4 DEF Meaning!StoresTo, MemWrite, StoreOperations
  <2>5. Lanes(value) \in {Lanes(v) : v \in Values}  OBVIOUS
  <2>6. Lanes(register)' = Lanes(register)  BY <1>2 DEF Lanes
  <2>7. Meaning!HostStore  BY <1>2, <2>3, <2>4, <2>5, <2>6 DEF Meaning!HostStore
  <2>8. TypeOK'  BY <1>1, <1>2, <1>4, <2>2, SomeAreIssued DEF TypeOK, Byte
  <2> QED  BY <1>1, <1>2, <2>7, <2>8 DEF PortInv, Served
<1> QED  BY <1>3, <1>4 DEF SystemCall

LEMMA LanesAreBytes ==
  ASSUME NEW w \in Word
  PROVE  Lanes(w) \in Meaning!Register
BY LanesOfWord DEF Four, Word, Meaning!Register, Byte

\* The edges: at the rising one the program goes on.
LEMMA EvalStep ==
  ASSUME PortInv, Eval
  PROVE  PortInv' /\ (Meaning!Step \/ UNCHANGED <<MAIN_MEMORY, register, operation>>)
<1>1. Holds /\ TypeOK  BY Held DEF PortInv
<1>2. stage = "eval" /\ stage' = "access" /\ CLK' = 1 - CLK /\ UNCHANGED <<MAIN_MEMORY, data_read_fDM>>
  BY DEF Eval
<1>3. CASE CLK = 0
  <2>1. UNCHANGED <<operation, register, issued>>  BY <1>3 DEF Eval
  <2> QED  BY <1>1, <1>2, <1>3, <2>1 DEF PortInv, TypeOK, Served
<1>4. CASE CLK # 0
  <2>1. CLK = 1  BY <1>1, <1>4 DEF TypeOK
  <2>2. /\ operation' \in Operations \cup {NoOperation}
        /\ issued' \in 0 .. MAXISSUED
        /\ register' \in IF MemRead THEN {WriteData1} ELSE IF MemWrite THEN {register} ELSE Values \cup {register}
    BY <1>1, <1>4, SomeAreIssued DEF Eval, TypeOK
  <2>3. MemRead => WriteData1 \in Word /\ Lanes(WriteData1) = Meaning!Loaded(operation.op, operation.address)
    BY <1>1, <1>2, <2>1, Load DEF PortInv, Served
  <2>4. register' \in Word  BY <1>1, <2>2, <2>3, ValuesAreWords DEF Holds, Word
  <2>5. PortInv'
    <3>1. TypeOK'  BY <1>1, <1>2, <2>1, <2>2, <2>4 DEF TypeOK, Word
    <3> QED  BY <1>2, <3>1 DEF PortInv, Served
  <2>6. Meaning!Loads = MemRead /\ Meaning!StoresTo = MemWrite
    BY DEF Meaning!Loads, Meaning!StoresTo, MemRead, MemWrite, LoadOperations, StoreOperations
  <2>7. Meaning!Stored = StoredIn(MAIN_MEMORY)  BY DEF Meaning!Stored, StoredIn
  <2>8. MemWrite => MAIN_MEMORY = Meaning!Stored  BY <1>2, <2>1, <2>7 DEF PortInv, Served
  <2>9. Lanes(register)' = Lanes(register')  BY DEF Lanes
  <2>10. Lanes(register') \in IF MemRead THEN {Meaning!Loaded(operation.op, operation.address)}
                              ELSE IF MemWrite THEN {Lanes(register)} ELSE Meaning!Register
    BY <2>2, <2>3, <2>4, LanesAreBytes
  <2>11. Meaning!Step  BY <1>2, <2>2, <2>6, <2>8, <2>9, <2>10 DEF Meaning!Step
  <2> QED  BY <2>5, <2>11
<1> QED  BY <1>3, <1>4

LEMMA PortStarts ==
  Init => PortInv /\ Meaning!Init
<1> SUFFICES ASSUME Init PROVE PortInv /\ Meaning!Init  OBVIOUS
<1>1. 0 \in Word  BY Powers DEF Word
<1>2. MAIN_MEMORY \in [Address -> Byte]  BY ImagesAreBytes DEF Init, Address, Byte
<1>3. TypeOK  BY <1>1, <1>2, SomeAreIssued DEF Init, TypeOK, Byte, Word
<1>4. Lanes(register) \in Meaning!Register  BY <1>1, LanesAreBytes DEF Init
<1>5. Meaning!Init  BY <1>2, <1>4 DEF Init, Meaning!Init, Byte
<1> QED  BY <1>3, <1>5 DEF PortInv, Served, Init

LEMMA PortStep ==
  ASSUME PortInv, [Next]_vars
  PROVE  PortInv' /\ [Meaning!Next]_(Meaning!vars)
<1>1. UNCHANGED <<MAIN_MEMORY, register, operation>> => UNCHANGED Meaning!vars
  BY DEF Meaning!vars, Lanes
<1>2. CASE MemoryAccess  BY <1>1, <1>2, AccessStep DEF Meaning!Next
<1>3. CASE SystemCall  BY <1>1, <1>3, CallStep DEF Meaning!Next
<1>4. CASE Eval  BY <1>1, <1>4, EvalStep DEF Meaning!Next
<1>5. CASE UNCHANGED vars
  <2>1. UNCHANGED <<MAIN_MEMORY, CLK, stage, operation, register, data_read_fDM, issued>>
    BY <1>5 DEF vars
  <2>2. StoredIn(MAIN_MEMORY)' = StoredIn(MAIN_MEMORY)  BY <2>1 DEF StoredIn, Lanes
  <2> QED  BY <1>1, <2>1, <2>2 DEF PortInv, TypeOK, Served, MemRead, MemWrite
<1> QED  BY <1>2, <1>3, <1>4, <1>5 DEF Next

----------------------------------------------------------------------------
(* The properties.                                                         *)

\* Memory holds bytes and registers words, whatever the program loads and
\* stores and the system calls put in between.
THEOREM TypeCorrect == Spec => []TypeOK
<1>1. PortInv => TypeOK  BY DEF PortInv
<1> QED  BY <1>1, PortStarts, PortStep, PTL DEF Spec

\* For every memory and every alignment, each load and store does exactly
\* what it means before the program goes on, among them swr, which MEM.v has
\* as untested.
THEOREM PortImplementsMemory == Spec => ImplementsMipsMemory
BY PortStarts, PortStep, PTL DEF Spec, ImplementsMipsMemory, Meaning!Spec

=============================================================================
