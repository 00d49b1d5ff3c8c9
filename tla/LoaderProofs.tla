---------------------------- MODULE LoaderProofs ----------------------------
(***************************************************************************)
(* Theorems about Loader for every executable, every place of its parts    *)
(* and every mix of functions it has.                                      *)
(***************************************************************************)
EXTENDS Loader, TLAPS, WellFoundedInduction, SequenceTheorems

Segments ==
  [offsetInFile : Nat, lengthInFile : Nat, startAddress : Nat, sizeInMemory : Nat, type : SegmentTypes]

Loadable == {"PT_MIPS_REGINFO", "PT_NOTE", "PT_LOAD"}

\* What the reader's loop has kept after header i.
Keep(kept, phdrs, i) ==
  IF i = 0 THEN <<>>
  ELSE IF phdrs[i].p_type \in Loadable
       THEN Append(kept[i - 1], Segment(phdrs[i])) ELSE kept[i - 1]

IsKept(kept, phdrs, n) == kept = [i \in 0 .. n |-> Keep(kept, phdrs, i)]

\* An induction up to a bound, by the least number without the property.
LEMMA UpTo ==
  ASSUME NEW n \in Nat, NEW S, 0 \in S, \A i \in 0 .. n - 1 : i \in S => i + 1 \in S
  PROVE  0 .. n \subseteq S
<1> DEFINE Bad == (0 .. n) \ S
<1> SUFFICES ASSUME Bad # {} PROVE FALSE  OBVIOUS
<1>1. Bad \subseteq Nat  OBVIOUS
<1> HIDE DEF Bad
<1>2. PICK m \in Bad : \A k \in Bad : m <= k
  <2>1. PICK m \in Bad : \A k \in Bad : ~(<<k, m>> \in OpToRel(<, Nat))
    BY <1>1, WFMin, NatLessThanWellFounded
  <2>2. ASSUME NEW k \in Bad PROVE m <= k
    <3>1. ~(k < m)  BY <1>1, <2>1 DEF OpToRel
    <3> QED  BY <1>1, <3>1
  <2> QED  BY <2>2
<1> USE DEF Bad
<1>3. m \in 0 .. n /\ m \notin S /\ m # 0  BY <1>2
<1>4. m - 1 \in 0 .. n - 1 /\ m - 1 \in S
  <2>1. m - 1 \in 0 .. n - 1  BY <1>3
  <2>2. m - 1 \notin Bad  BY <1>2, <1>3
  <2> QED  BY <2>1, <2>2
<1> QED  BY <1>3, <1>4

\* The loop is defined for every table.
LEMMA LoopIsDefined ==
  ASSUME NEW phdrs, NEW n \in Nat
  PROVE  \E kept : IsKept(kept, phdrs, n)
<1> DEFINE Defined == {m \in 0 .. n : \E k : IsKept(k, phdrs, m)}
<1>1. 0 \in Defined
  <2> DEFINE k == [i \in 0 .. 0 |-> <<>>]
  <2>1. IsKept(k, phdrs, 0)  BY DEF IsKept, Keep
  <2> QED  BY <2>1
<1>2. ASSUME NEW m \in 0 .. n - 1, m \in Defined
      PROVE  m + 1 \in Defined
  <2>1. PICK k : IsKept(k, phdrs, m)  BY <1>2
  <2> DEFINE longer == [i \in 0 .. m + 1 |-> IF i = m + 1 THEN Keep(k, phdrs, m + 1) ELSE k[i]]
  <2>2. ASSUME NEW i \in 0 .. m + 1 PROVE longer[i] = Keep(longer, phdrs, i)
    <3>1. i # 0 => longer[i - 1] = k[i - 1]  OBVIOUS
    <3>2. Keep(longer, phdrs, i) = Keep(k, phdrs, i)
      <4> HIDE DEF longer
      <4> QED  BY <3>1 DEF Keep
    <3>3. i # m + 1 => k[i] = Keep(k, phdrs, i)
      <4>1. i # m + 1 => i \in 0 .. m  OBVIOUS
      <4> QED  BY <2>1, <4>1, Zenon DEF IsKept
    <3>4. longer[i] = IF i = m + 1 THEN Keep(k, phdrs, m + 1) ELSE k[i]  OBVIOUS
    <3> HIDE DEF longer
    <3> QED  BY <3>2, <3>3, <3>4
  <2>3. longer = [i \in 0 .. m + 1 |-> longer[i]]  OBVIOUS
  <2> HIDE DEF longer
  <2>4. IsKept(longer, phdrs, m + 1)  BY <2>2, <2>3, Zenon DEF IsKept
  <2>5. m + 1 \in 0 .. n  OBVIOUS
  <2> QED  BY <2>4, <2>5
<1>3. 0 .. n \subseteq Defined
  <2> HIDE DEF Defined
  <2> QED  BY <1>1, <1>2, UpTo
<1> QED  BY <1>3

LEMMA LoopRuns ==
  ASSUME NEW f, Len(f.phdrs) \in Nat
  PROVE  \E kept : IsKept(kept, f.phdrs, Len(f.phdrs)) /\ SegmentList(f) = kept[Len(f.phdrs)]
<1> DEFINE kept == CHOOSE k : IsKept(k, f.phdrs, Len(f.phdrs))
<1>1. IsKept(kept, f.phdrs, Len(f.phdrs))  BY LoopIsDefined
<1>2. SegmentList(f) = kept[Len(f.phdrs)]
  BY Zenon DEF SegmentList, IsKept, Keep, Loadable
<1> QED  BY <1>1, <1>2

\* The segments to load are segments of the file, of which all data are in
\* the file.
LEMMA SegmentsAreTyped ==
  ASSUME NEW f, f.phdrs \in Seq(ProgramHeaders)
  PROVE  SegmentList(f) \in Seq(Segments)
<1>1. Len(f.phdrs) \in Nat /\ \A i \in 1 .. Len(f.phdrs) : f.phdrs[i] \in ProgramHeaders
  OBVIOUS
<1> DEFINE n == Len(f.phdrs)
<1>2. PICK kept : IsKept(kept, f.phdrs, n) /\ SegmentList(f) = kept[n]
  BY <1>1, LoopRuns
<1> DEFINE Typed == {m \in 0 .. n : kept[m] \in Seq(Segments)}
<1> HIDE DEF n
<1>3. \A i \in 0 .. n : kept[i] = Keep(kept, f.phdrs, i)
  BY <1>2, Zenon DEF IsKept
<1>4. n \in Nat /\ \A i \in 1 .. n : f.phdrs[i] \in ProgramHeaders  BY <1>1 DEF n
<1>5. 0 \in Typed
  <2>1. 0 \in 0 .. n /\ kept[0] = <<>>  BY <1>3, <1>4 DEF Keep
  <2>2. <<>> \in Seq(Segments)  OBVIOUS
  <2> QED  BY <2>1, <2>2
<1>6. ASSUME NEW m \in 0 .. n - 1, m \in Typed
      PROVE  m + 1 \in Typed
  <2>1. m + 1 \in 0 .. n /\ m + 1 \in 1 .. n /\ m + 1 # 0 /\ (m + 1) - 1 = m  BY <1>4
  <2>2. kept[m + 1] = Keep(kept, f.phdrs, m + 1)  BY <1>3, <2>1
  <2>3. Segment(f.phdrs[m + 1]) \in Segments
    BY <1>4, <2>1 DEF Segment, Segments, ProgramHeaders
  <2>4. kept[m] \in Seq(Segments)  BY <1>6
  <2>5. kept[m + 1] \in {Append(kept[m], Segment(f.phdrs[m + 1])), kept[m]}
    BY <2>1, <2>2 DEF Keep
  <2>6. Append(kept[m], Segment(f.phdrs[m + 1])) \in Seq(Segments)
    <3> DEFINE s == kept[m]
               e == Segment(f.phdrs[m + 1])
    <3>1. s \in Seq(Segments) /\ e \in Segments  BY <2>3, <2>4
    <3> HIDE DEF s, e
    <3>2. Append(s, e) \in Seq(Segments)  BY <3>1
    <3> QED  BY <3>2 DEF s, e
  <2> QED  BY <2>1, <2>4, <2>5, <2>6
<1>7. 0 .. n \subseteq Typed
  <2> HIDE DEF Typed
  <2> QED  BY <1>4, <1>5, <1>6, UpTo
<1> QED  BY <1>2, <1>4, <1>7

----------------------------------------------------------------------------
(* Memory while it is filled.                                              *)

\* What the first n segments of a file leave at an address.
LinkedBy(f, a, n) ==
  LET covering == {i \in 1 .. n : Covers(SegmentList(f)[i], a)}
      last == SegmentList(f)[Max(covering)]
  IN  IF covering = {} THEN NOP ELSE f.words[last.offsetInFile + a - last.startAddress]

Redirects == fill_syscall_redirects(EMULATE_LLSC)

\* What the first n stubs may leave there.
RedirectedBy(a, n) ==
  LET covering == {i \in 1 .. n : a \in syscalls[Redirects[i][1]] ..
                                        syscalls[Redirects[i][1]] + Len(Redirects[i][2]) - 1}
  IN  IF covering = {} THEN {LinkedBy(file, a, Len(SegmentList(file)))}
      ELSE {Redirects[i][2][a - syscalls[Redirects[i][1]] + 1] : i \in covering}

LoadInv ==
  /\ file \in Files /\ segment \in Nat /\ redirect \in Nat
  /\ MAIN_MEMORY = [a \in Addresses |-> MAIN_MEMORY[a]]
  /\ stage = "parse" => /\ segment = 0 /\ redirect = 0
                        /\ \A a \in Addresses : MAIN_MEMORY[a] = NOP
  /\ stage = "segments" => /\ exeFormat.segmentList = SegmentList(file)
                           /\ segment <= Len(SegmentList(file)) /\ redirect = 0
                           /\ \A a \in Addresses : MAIN_MEMORY[a] = LinkedBy(file, a, segment)
  /\ stage = "redirects" => \A a \in Addresses : MAIN_MEMORY[a] \in RedirectedBy(a, redirect)
  /\ stage = "vector" => \A a \in Addresses : MAIN_MEMORY[a] \in RedirectedBy(a, Len(Redirects))
  /\ MemoryIsImage

LEMMA FileIsTyped ==
  ASSUME file \in Files
  PROVE  /\ SegmentList(file) \in Seq(Segments)
         /\ Len(SegmentList(file)) \in Nat
         /\ \A i \in 1 .. Len(SegmentList(file)) : SegmentList(file)[i] \in Segments
<1>1. SegmentList(file) \in Seq(Segments)
  BY FilesAreWellFormed, SegmentsAreTyped DEF WellFormed
<1> DEFINE list == SegmentList(file)
<1>2. list \in Seq(Segments)  BY <1>1
<1> HIDE DEF list
<1>3. Len(list) \in Nat /\ \A i \in 1 .. Len(list) : list[i] \in Segments  BY <1>2
<1> QED  BY <1>2, <1>3 DEF list

LEMMA TwoAndTen ==
  ASSUME NEW S, NEW a \in S, NEW b \in S, NEW c \in S, NEW d \in S, NEW e \in S, NEW f \in S,
         NEW g \in S, NEW h \in S, NEW i \in S, NEW j \in S
  PROVE  <<a, b>> \in Seq(S) /\ <<a, b, c, d, e, f, g, h, i, j>> \in Seq(S)
OBVIOUS

\* The table of stubs is a sequence.
LEMMA RedirectsAreListed ==
  Range(Redirects) = {Redirects[i] : i \in 1 .. Len(Redirects)}
<1> DEFINE a == <<"CFREE", fill_syscall(4091)>>
           b == <<"EXIT", fill_syscall(4001)>>
           c == <<"FXSTAT64", fill_syscall(4028)>>
           d == <<"LIBC_MALLOC", fill_syscall(4555)>>
           e == <<"LIBC_OPEN", fill_syscall(4005)>>
           f == <<"LIBC_READ", fill_syscall(4003)>>
           g == <<"LIBC_WRITE", fill_syscall(4004)>>
           h == <<"MMAP", fill_syscall(4090)>>
           i == <<"MUNMAP", fill_syscall(4091)>>
           j == <<"UNAME", fill_syscall(4122)>>
           k == <<"CXX_EX_AND_ADD", fill_ex_and_add>>
           l == <<"CXX_ATOMIC_ADD", fill_atomic_add>>
           Entry == {a, b, c, d, e, f, g, h, i, j, k, l}
           calls == <<a, b, c, d, e, f, g, h, i, j>>
           emulated == IF EMULATE_LLSC THEN <<k, l>> ELSE <<>>
<1>1. Redirects = calls \o emulated
  BY DEF Redirects, fill_syscall_redirects
<1>2. calls \in Seq(Entry) /\ <<k, l>> \in Seq(Entry) /\ <<>> \in Seq(Entry)
  <2> HIDE DEF a, b, c, d, e, f, g, h, i, j, k, l
  <2>1. /\ a \in Entry /\ b \in Entry /\ c \in Entry /\ d \in Entry /\ e \in Entry /\ f \in Entry
        /\ g \in Entry /\ h \in Entry /\ i \in Entry /\ j \in Entry /\ k \in Entry /\ l \in Entry
    OBVIOUS
  <2> HIDE DEF Entry
  <2> QED  BY <2>1, TwoAndTen
<1> HIDE DEF Entry, calls
<1>3. emulated \in Seq(Entry)
  <2> HIDE DEF k, l
  <2> QED  BY <1>2
<1> HIDE DEF emulated
<1>4. Redirects \in Seq(Entry)  BY <1>1, <1>2, <1>3
<1> QED  BY <1>4 DEF Range

\* Some numbers that go no further than n have a largest.
LEMMA Largest ==
  ASSUME NEW n \in Nat, NEW S, S \subseteq 1 .. n, S # {}
  PROVE  Max(S) \in S /\ \A y \in S : Max(S) >= y
<1> DEFINE Left == {n - i : i \in S}
<1>1. Left \subseteq Nat /\ Left # {}
  <2>1. \A i \in S : n - i \in Nat  OBVIOUS
  <2>2. PICK i \in S : TRUE  OBVIOUS
  <2>3. n - i \in Left  OBVIOUS
  <2> QED  BY <2>1, <2>3
<1>2. \A k \in Left : n - k \in S  OBVIOUS
<1>3. \A i \in S : n - i \in Left  OBVIOUS
<1> HIDE DEF Left
<1>4. PICK m \in Left : \A k \in Left : ~(<<k, m>> \in OpToRel(<, Nat))
  BY <1>1, WFMin, NatLessThanWellFounded
<1>5. \A k \in Left : ~(k < m)  BY <1>1, <1>4 DEF OpToRel
<1>6. n - m \in S /\ \A y \in S : n - m >= y
  BY <1>1, <1>2, <1>3, <1>5
<1> QED  BY <1>6, Zenon DEF Max

\* And a least.
LEMMA Least ==
  ASSUME NEW S, S \subseteq Nat, S # {}
  PROVE  Min(S) \in S
<1>1. PICK m \in S : \A k \in S : ~(<<k, m>> \in OpToRel(<, Nat))
  BY WFMin, NatLessThanWellFounded
<1>2. ASSUME NEW k \in S PROVE m <= k
  <2>1. ~(k < m)  BY <1>1 DEF OpToRel
  <2> QED  BY <2>1
<1> QED  BY <1>2, Zenon DEF Min

LEMMA LargestOfNext ==
  ASSUME NEW n \in Nat, NEW S, S \subseteq 1 .. n + 1, n + 1 \in S
  PROVE  Max(S) = n + 1
<1>1. PICK m : m = Max(S)  OBVIOUS
<1>2. m \in S /\ m >= n + 1
  <2>1. n + 1 \in Nat /\ S # {}  OBVIOUS
  <2> QED  BY <1>1, <2>1, Largest
<1>3. m \in 1 .. n + 1  BY <1>2
<1> QED  BY <1>1, <1>2, <1>3

LEMMA LinkedNext ==
  ASSUME NEW n \in Nat, NEW f, NEW a
  PROVE  LinkedBy(f, a, n + 1) =
           IF Covers(SegmentList(f)[n + 1], a)
           THEN f.words[SegmentList(f)[n + 1].offsetInFile + a - SegmentList(f)[n + 1].startAddress]
           ELSE LinkedBy(f, a, n)
<1> DEFINE At(i) == Covers(SegmentList(f)[i], a)
           Covering(m) == {i \in 1 .. m : At(i)}
<1> HIDE DEF At
<1>1. At(n + 1) => Max(Covering(n + 1)) = n + 1 /\ Covering(n + 1) # {}
  <2> SUFFICES ASSUME At(n + 1) PROVE Max(Covering(n + 1)) = n + 1 /\ Covering(n + 1) # {}
    OBVIOUS
  <2>1. Covering(n + 1) \subseteq 1 .. n + 1 /\ n + 1 \in Covering(n + 1)  OBVIOUS
  <2> HIDE DEF Covering
  <2> QED  BY <2>1, LargestOfNext
<1>2. ~At(n + 1) => Covering(n + 1) = Covering(n)  OBVIOUS
<1>3. \A m : LinkedBy(f, a, m) =
        IF Covering(m) = {} THEN NOP
        ELSE f.words[SegmentList(f)[Max(Covering(m))].offsetInFile + a
                       - SegmentList(f)[Max(Covering(m))].startAddress]
  BY DEF LinkedBy, At
<1> HIDE DEF Covering
<1> QED  BY <1>1, <1>2, <1>3 DEF At

LEMMA LinkedByAll ==
  ASSUME file \in Files, NEW a
  PROVE  LinkedBy(file, a, Len(SegmentList(file))) = LinkedWord(a)
<1>1. DOMAIN SegmentList(file) = 1 .. Len(SegmentList(file))
  <2> DEFINE list == SegmentList(file)
  <2>1. list \in Seq(Segments)  BY FileIsTyped
  <2> HIDE DEF list
  <2>2. DOMAIN list = 1 .. Len(list)  BY <2>1
  <2> QED  BY <2>2 DEF list
<1> QED  BY <1>1 DEF LinkedBy, LinkedWord, Covers

\* One segment copied.
LEMMA SegmentStep ==
  ASSUME LoadInv, CopySegment
  PROVE  LoadInv'
<1> DEFINE list == SegmentList(file)
           s == list[segment + 1]
<1>1. /\ stage = "segments" /\ redirect = 0 /\ segment \in Nat /\ segment <= Len(list)
      /\ exeFormat.segmentList = list /\ file \in Files
      /\ MAIN_MEMORY = [a \in Addresses |-> MAIN_MEMORY[a]]
      /\ \A a \in Addresses : MAIN_MEMORY[a] = LinkedBy(file, a, segment)
  BY DEF LoadInv, CopySegment
<1>2. UNCHANGED <<file, EMULATE_LLSC, exeFormat, syscalls, redirect>>  BY DEF CopySegment
<1>3. CASE segment = Len(list)
  <2>1. stage' = "redirects" /\ UNCHANGED <<segment, MAIN_MEMORY>>
    BY <1>1, <1>3 DEF CopySegment
  <2>2. ASSUME NEW a \in Addresses PROVE MAIN_MEMORY'[a] \in RedirectedBy(a, redirect)'
    <3>1. RedirectedBy(a, 0) = {LinkedBy(file, a, segment)}  BY <1>3 DEF RedirectedBy
    <3>2. MAIN_MEMORY[a] = LinkedBy(file, a, segment)  BY <1>1
    <3>3. RedirectedBy(a, redirect)' = RedirectedBy(a, 0)
      BY <1>1, <1>2 DEF RedirectedBy, Redirects
    <3> QED  BY <2>1, <3>1, <3>2, <3>3
  <2>3. MemoryIsImage'  BY <2>1 DEF MemoryIsImage
  <2> QED  BY <1>1, <1>2, <2>1, <2>2, <2>3 DEF LoadInv
<1>4. CASE segment # Len(list)
  <2>1. /\ stage' = "segments" /\ segment' = segment + 1
        /\ MAIN_MEMORY' = Filled(MAIN_MEMORY, s.startAddress, Copied(s))
    BY <1>1, <1>4 DEF CopySegment
  <2>2. s \in Segments /\ segment + 1 \in Nat /\ segment + 1 <= Len(list)
    BY <1>1, <1>4, FileIsTyped
  <2>3. \A a : LinkedBy(file, a, segment + 1) =
          IF Covers(s, a) THEN file.words[s.offsetInFile + a - s.startAddress]
          ELSE LinkedBy(file, a, segment)
    BY <1>1, LinkedNext
  <2>4. /\ exeFormat'.segmentList = SegmentList(file)' /\ segment' <= Len(SegmentList(file)')
    BY <1>1, <1>2, <2>1, <2>2
  <2> HIDE DEF list, s
  <2>5. /\ s.lengthInFile \in Nat /\ s.startAddress \in Nat /\ s.offsetInFile \in Nat
    BY <2>2 DEF Segments
  <2>6. Len(Copied(s)) = s.lengthInFile  BY <2>5 DEF Copied
  <2>7. MAIN_MEMORY' = [a \in Addresses |-> IF Covers(s, a) THEN Copied(s)[a - s.startAddress + 1]
                                            ELSE MAIN_MEMORY[a]]
    <3>1. DOMAIN MAIN_MEMORY = Addresses  BY <1>1
    <3> QED  BY <2>1, <2>6, <3>1 DEF Filled, Covers
  <2>8. ASSUME NEW a \in Addresses, Covers(s, a)
        PROVE  Copied(s)[a - s.startAddress + 1] = file.words[s.offsetInFile + a - s.startAddress]
    <3>1. a \in Int /\ a - s.startAddress + 1 \in 1 .. s.lengthInFile  BY <2>5, <2>8 DEF Covers
    <3>2. s.offsetInFile + (a - s.startAddress + 1) - 1 = s.offsetInFile + a - s.startAddress
      BY <2>5, <3>1
    <3> QED  BY <3>1, <3>2 DEF Copied
  <2>9. \A a \in Addresses : MAIN_MEMORY'[a] = LinkedBy(file, a, segment + 1)
    BY <1>1, <2>3, <2>7, <2>8
  <2>10. \A a \in Addresses : MAIN_MEMORY'[a] = LinkedBy(file', a, segment')
    BY <1>2, <2>1, <2>9
  <2>11. MAIN_MEMORY' = [a \in Addresses |-> MAIN_MEMORY'[a]]  BY <2>7
  <2>12. MemoryIsImage'  BY <2>1 DEF MemoryIsImage
  <2> QED  BY <1>1, <1>2, <2>1, <2>2, <2>4, <2>10, <2>11, <2>12 DEF LoadInv
<1> QED  BY <1>3, <1>4

\* What one more stub may leave at an address.
LEMMA RedirectedNext ==
  ASSUME NEW n \in Nat, NEW a, NEW word,
         LET stub == Redirects[n + 1]
             at == syscalls[stub[1]]
         IN  IF a \in at .. at + Len(stub[2]) - 1 THEN word = stub[2][a - at + 1]
             ELSE word \in RedirectedBy(a, n)
  PROVE  word \in RedirectedBy(a, n + 1)
<1> DEFINE At(i) == a \in syscalls[Redirects[i][1]] .. syscalls[Redirects[i][1]] + Len(Redirects[i][2]) - 1
           WordOf(i) == Redirects[i][2][a - syscalls[Redirects[i][1]] + 1]
           Covering(m) == {i \in 1 .. m : At(i)}
<1>1. \A m : RedirectedBy(a, m) = IF Covering(m) = {} THEN {LinkedBy(file, a, Len(SegmentList(file)))}
                                  ELSE {WordOf(i) : i \in Covering(m)}
  BY DEF RedirectedBy
<1>2. IF At(n + 1) THEN word = WordOf(n + 1) ELSE word \in RedirectedBy(a, n)
  OBVIOUS
<1> HIDE DEF At, WordOf
<1>3. At(n + 1) => n + 1 \in Covering(n + 1)  OBVIOUS
<1>4. ~At(n + 1) => Covering(n + 1) = Covering(n)  OBVIOUS
<1> HIDE DEF Covering
<1> QED  BY <1>1, <1>2, <1>3, <1>4

\* One stub written.
LEMMA RedirectStep ==
  ASSUME LoadInv, FillRedirect
  PROVE  LoadInv'
<1> DEFINE stub == Redirects[redirect + 1]
           at == syscalls[stub[1]]
<1>1. /\ stage = "redirects" /\ redirect \in Nat /\ segment \in Nat /\ file \in Files
      /\ MAIN_MEMORY = [a \in Addresses |-> MAIN_MEMORY[a]]
      /\ \A a \in Addresses : MAIN_MEMORY[a] \in RedirectedBy(a, redirect)
  BY DEF LoadInv, FillRedirect
<1>2. UNCHANGED <<file, EMULATE_LLSC, exeFormat, syscalls, segment>>  BY DEF FillRedirect
<1>3. CASE redirect = Len(Redirects)
  <2>1. stage' = "vector" /\ UNCHANGED <<redirect, MAIN_MEMORY>>
    BY <1>3 DEF FillRedirect, Redirects
  <2>2. ASSUME NEW a \in Addresses PROVE RedirectedBy(a, Len(Redirects))' = RedirectedBy(a, redirect)
    BY <1>2, <1>3 DEF RedirectedBy, Redirects
  <2>3. MemoryIsImage'  BY <2>1 DEF MemoryIsImage
  <2> QED  BY <1>1, <1>2, <2>1, <2>2, <2>3 DEF LoadInv
<1>4. CASE redirect # Len(Redirects)
  <2>1. /\ stage' = "redirects" /\ redirect' = redirect + 1
        /\ MAIN_MEMORY' = Filled(MAIN_MEMORY, at, stub[2])
    BY <1>1, <1>4 DEF FillRedirect, Redirects
  <2>2. DOMAIN MAIN_MEMORY = Addresses  BY <1>1
  <2>3. MAIN_MEMORY' = [a \in Addresses |-> IF a \in at .. at + Len(stub[2]) - 1
                                            THEN stub[2][a - at + 1] ELSE MAIN_MEMORY[a]]
    BY <2>1, <2>2 DEF Filled
  <2>4. ASSUME NEW a \in Addresses PROVE MAIN_MEMORY'[a] \in RedirectedBy(a, redirect + 1)
    <3>1. IF a \in at .. at + Len(stub[2]) - 1 THEN MAIN_MEMORY'[a] = stub[2][a - at + 1]
          ELSE MAIN_MEMORY'[a] \in RedirectedBy(a, redirect)
      BY <1>1, <2>3
    <3> QED  BY <1>1, <3>1, RedirectedNext
  <2>5. ASSUME NEW a \in Addresses PROVE RedirectedBy(a, redirect)' = RedirectedBy(a, redirect + 1)
    BY <1>2, <2>1 DEF RedirectedBy, Redirects
  <2>6. MAIN_MEMORY' = [a \in Addresses |-> MAIN_MEMORY'[a]]  BY <2>3
  <2>7. MemoryIsImage'  BY <2>1 DEF MemoryIsImage
  <2> QED  BY <1>1, <1>2, <2>1, <2>4, <2>5, <2>6, <2>7 DEF LoadInv
<1> QED  BY <1>3, <1>4

LEMMA VectorStep ==
  ASSUME LoadInv, WriteVector
  PROVE  LoadInv'
<1>1. /\ stage = "vector" /\ stage' = "boot" /\ redirect \in Nat /\ segment \in Nat /\ file \in Files
      /\ MAIN_MEMORY = [a \in Addresses |-> MAIN_MEMORY[a]]
      /\ MAIN_MEMORY' = Filled(MAIN_MEMORY, RESET, Vector)
      /\ \A a \in Addresses : MAIN_MEMORY[a] \in RedirectedBy(a, Len(Redirects))
  BY DEF LoadInv, WriteVector
<1>2. UNCHANGED <<file, EMULATE_LLSC, exeFormat, syscalls, segment, redirect>>  BY DEF WriteVector
<1>3. DOMAIN MAIN_MEMORY = Addresses  BY <1>1
<1>4. MAIN_MEMORY' = [a \in Addresses |-> IF a \in RESET .. RESET + Len(Vector) - 1
                                          THEN Vector[a - RESET + 1] ELSE MAIN_MEMORY[a]]
  BY <1>1, <1>3 DEF Filled
<1>5. ASSUME NEW a \in Addresses
      PROVE  RedirectedBy(a, Len(Redirects)) =
               IF StubsAt(a) = {} THEN {LinkedWord(a)}
               ELSE {stub[2][a - syscalls[stub[1]] + 1] : stub \in StubsAt(a)}
  <2> DEFINE At(stub) == a \in syscalls[stub[1]] .. syscalls[stub[1]] + Len(stub[2]) - 1
             Covering == {i \in 1 .. Len(Redirects) : At(Redirects[i])}
             WordOf(stub) == stub[2][a - syscalls[stub[1]] + 1]
  <2>1. StubsAt(a) = {stub \in Range(Redirects) : At(stub)}
    BY Zenon DEF StubsAt, Redirects
  <2>2. RedirectedBy(a, Len(Redirects)) = IF Covering = {} THEN {LinkedWord(a)}
                                          ELSE {WordOf(Redirects[i]) : i \in Covering}
    BY <1>1, LinkedByAll DEF RedirectedBy
  <2> HIDE DEF At, WordOf
  <2>3. StubsAt(a) = {Redirects[i] : i \in Covering}
    BY <2>1, RedirectsAreListed
  <2> HIDE DEF Covering
  <2>4. StubsAt(a) = {} <=> Covering = {}  BY <2>3
  <2>5. {WordOf(Redirects[i]) : i \in Covering} = {WordOf(stub) : stub \in StubsAt(a)}  BY <2>3
  <2> QED  BY <2>2, <2>4, <2>5 DEF WordOf
<1>6. MemoryIsImage'
  <2>1. Vector' = Vector  BY <1>2 DEF Vector
  <2>2. \A a : StubsAt(a)' = StubsAt(a)  BY <1>2 DEF StubsAt
  <2>3. \A a : LinkedWord(a)' = LinkedWord(a)  BY <1>2 DEF LinkedWord
  <2> QED  BY <1>1, <1>2, <1>4, <1>5, <2>1, <2>2, <2>3 DEF MemoryIsImage
<1>7. MAIN_MEMORY' = [a \in Addresses |-> MAIN_MEMORY'[a]]  BY <1>4
<1> QED  BY <1>1, <1>2, <1>6, <1>7 DEF LoadInv

LEMMA ParseStep ==
  ASSUME LoadInv, ParseFile
  PROVE  LoadInv'
<1>1. /\ stage = "parse" /\ stage' \in {"rejected", "segments"}
      /\ stage' = "segments" => exeFormat'.segmentList = SegmentList(file)
      /\ UNCHANGED <<file, EMULATE_LLSC, segment, redirect, MAIN_MEMORY>>
  BY DEF ParseFile, parse_elf
<1>2. /\ file \in Files /\ segment = 0 /\ redirect = 0
      /\ MAIN_MEMORY = [a \in Addresses |-> MAIN_MEMORY[a]]
      /\ \A a \in Addresses : MAIN_MEMORY[a] = NOP
  BY <1>1 DEF LoadInv
<1>3. \A a : LinkedBy(file, a, 0) = NOP  BY DEF LinkedBy
<1>4. Len(SegmentList(file)) >= 0  BY <1>2, FileIsTyped
<1>5. MemoryIsImage'  BY <1>1 DEF MemoryIsImage
<1> QED  BY <1>1, <1>2, <1>3, <1>4, <1>5 DEF LoadInv

LEMMA BootStep ==
  ASSUME LoadInv, Step
  PROVE  LoadInv'
<1>1. /\ stage = "boot" /\ stage' \in {"boot", "running"}
      /\ UNCHANGED <<file, EMULATE_LLSC, exeFormat, syscalls, segment, redirect, MAIN_MEMORY>>
  BY DEF Step
<1>2. /\ Vector' = Vector /\ \A a : StubsAt(a)' = StubsAt(a) /\ LinkedWord(a)' = LinkedWord(a)
  BY <1>1 DEF Vector, StubsAt, LinkedWord
<1>3. MemoryIsImage'  BY <1>1, <1>2 DEF LoadInv, MemoryIsImage
<1> QED  BY <1>1, <1>3 DEF LoadInv

LEMMA LoadInvHolds ==
  /\ Init => LoadInv
  /\ LoadInv /\ [Next]_vars => LoadInv'
<1>1. Init => LoadInv
  BY DEF Init, LoadInv, MemoryIsImage
<1>2. LoadInv /\ [Next]_vars => LoadInv'
  <2> SUFFICES ASSUME LoadInv, [Next]_vars PROVE LoadInv'  OBVIOUS
  <2>1. CASE UNCHANGED vars
    <3>1. UNCHANGED <<stage, file, EMULATE_LLSC, exeFormat, syscalls, segment, redirect, MAIN_MEMORY>>
      BY <2>1 DEF vars
    <3>2. /\ Vector' = Vector /\ \A a : StubsAt(a)' = StubsAt(a) /\ LinkedWord(a)' = LinkedWord(a)
      BY <3>1 DEF Vector, StubsAt, LinkedWord
    <3>3. \A a : /\ RedirectedBy(a, redirect)' = RedirectedBy(a, redirect)
                 /\ RedirectedBy(a, Len(Redirects))' = RedirectedBy(a, Len(Redirects))
      BY <3>1 DEF RedirectedBy, Redirects
    <3>4. MemoryIsImage' = MemoryIsImage
      BY <3>1, <3>2 DEF MemoryIsImage
    <3> QED  BY <3>1, <3>3, <3>4 DEF LoadInv
  <2> QED  BY <2>1, ParseStep, SegmentStep, RedirectStep, VectorStep, BootStep DEF Next
<1> QED  BY <1>1, <1>2

\* When the program boots, memory is its image, whatever its segments
\* overlap, and only the functions that were found are changed.
THEOREM MemoryIsImageHolds == Spec => []MemoryIsImage
<1>1. LoadInv => MemoryIsImage  BY DEF LoadInv
<1> QED  BY <1>1, LoadInvHolds, PTL DEF Spec

----------------------------------------------------------------------------
(* The boot code.                                                          *)

Width == NOOP_LOOP + 1

\* Where instruction j of the code is, the first being 0.
At(j) == j * Width

\* Words are instructions from to until of some code, each with its nops.
IsCode(words, code, from, until, S) ==
  /\ words \in Seq(S) /\ from \in Nat /\ until \in Nat /\ from <= until
  /\ Len(words) = At(until - from)
  /\ \A j \in 0 .. until - from - 1, o \in 0 .. NOOP_LOOP :
       words[At(j) + o + 1] = IF o = 0 THEN code[from + j + 1] ELSE NOP

LEMMA Places ==
  /\ Width \in Nat /\ Width >= 1
  /\ At(0) = 0
  /\ \A j \in Nat : At(j) \in Nat /\ At(j + 1) = At(j) + Width
  /\ \A i, j \in Nat : At(i + j) = At(i) + At(j)
<1>1. Width \in Nat /\ Width >= 1  BY BootCodeHasPlace DEF Width
<1>2. \A w \in Nat : 0 * w = 0
  OBVIOUS
<1>3. \A w, j \in Nat : j * w \in Nat /\ (j + 1) * w = j * w + w  OBVIOUS
<1>4. \A w, i, j \in Nat : (i + j) * w = i * w + j * w  OBVIOUS
<1> QED  BY <1>1, <1>2, <1>3, <1>4, Zenon DEF At

\* Every instruction before the n-th begins at least a width before it.
LEMMA PlacesOrdered ==
  ASSUME NEW i \in Nat, NEW n \in Nat, i < n
  PROVE  At(i) + Width <= At(n)
<1>1. PICK d \in Nat : n = (i + 1) + d
  <2>1. n - (i + 1) \in Nat /\ n = (i + 1) + (n - (i + 1))  OBVIOUS
  <2> QED  BY <2>1
<1>2. At(n) = At(i + 1) + At(d)  BY <1>1, Places
<1> QED  BY <1>2, Places

LEMMA Joined ==
  ASSUME NEW S, NEW s \in Seq(S), NEW t \in Seq(S)
  PROVE  /\ s \o t \in Seq(S) /\ Len(s \o t) = Len(s) + Len(t)
         /\ Len(s) \in Nat /\ Len(t) \in Nat
         /\ \A i \in 1 .. Len(s) : (s \o t)[i] = s[i]
         /\ \A i \in 1 .. Len(t) : (s \o t)[Len(s) + i] = t[i]
OBVIOUS

LEMMA OneInstruction ==
  ASSUME NEW S, NEW code, NEW n \in Nat, code[n + 1] \in S, NOP \in S
  PROVE  IsCode(write_instruction(code[n + 1]), code, n, n + 1, S)
<1> DEFINE nops == [k \in 1 .. NOOP_LOOP |-> NOP]
           one == <<code[n + 1]>>
<1>1. nops \in Seq(S) /\ Len(nops) = NOOP_LOOP /\ one \in Seq(S) /\ Len(one) = 1 /\ one[1] = code[n + 1]
  BY BootCodeHasPlace
<1>2. \A k \in 1 .. NOOP_LOOP : nops[k] = NOP  OBVIOUS
<1>3. write_instruction(code[n + 1]) = one \o nops  BY DEF write_instruction
<1>4. At(0) = 0 /\ At(1) = NOOP_LOOP + 1
  <2>1. At(0 + 1) = At(0) + Width  BY Places
  <2> QED  BY <2>1, Places DEF Width
<1> HIDE DEF nops, one
<1>5. n + 1 - n = 1 /\ n + 0 + 1 = n + 1 /\ NOOP_LOOP \in Nat  BY BootCodeHasPlace
<1>6. one \o nops \in Seq(S) /\ Len(one \o nops) = At(1)
  <2>1. one \in Seq(S) /\ nops \in Seq(S)  BY <1>1
  <2>2. one \o nops \in Seq(S) /\ Len(one \o nops) = Len(one) + Len(nops)  BY <2>1, Joined
  <2> QED  BY <1>1, <1>4, <1>5, <2>2
<1>7. ASSUME NEW o \in 0 .. NOOP_LOOP
      PROVE  (one \o nops)[o + 1] = IF o = 0 THEN code[n + 1] ELSE NOP
  <2>1. CASE o = 0
    <3>1. one \in Seq(S) /\ nops \in Seq(S) /\ 1 \in 1 .. Len(one)  BY <1>1
    <3>2. (one \o nops)[1] = one[1]  BY <3>1, Joined
    <3>3. o + 1 = 1  BY <2>1
    <3> QED  BY <1>1, <2>1, <3>2, <3>3
  <2>2. CASE o # 0
    <3>1. o \in 1 .. NOOP_LOOP  BY <1>5, <2>2
    <3>2. (one \o nops)[1 + o] = nops[o]
      <4>1. one \in Seq(S) /\ nops \in Seq(S)  BY <1>1
      <4>2. \A i \in 1 .. Len(nops) : (one \o nops)[Len(one) + i] = nops[i]  BY <4>1, Joined
      <4> QED  BY <1>1, <3>1, <4>2
    <3>3. 1 + o = o + 1  BY <3>1
    <3> QED  BY <1>2, <2>2, <3>1, <3>2, <3>3
  <2> QED  BY <2>1, <2>2
<1>8. ASSUME NEW j \in 0 .. n + 1 - n - 1, NEW o \in 0 .. NOOP_LOOP
      PROVE  (one \o nops)[At(j) + o + 1] = IF o = 0 THEN code[n + j + 1] ELSE NOP
  <2>1. j = 0 /\ At(j) + o + 1 = o + 1 /\ n + j + 1 = n + 1  BY <1>4, <1>5
  <2> QED  BY <1>7, <2>1
<1> DEFINE words == one \o nops
<1>9. words \in Seq(S) /\ Len(words) = At(n + 1 - n)  BY <1>5, <1>6
<1>10. \A j \in 0 .. n + 1 - n - 1, o \in 0 .. NOOP_LOOP :
         words[At(j) + o + 1] = IF o = 0 THEN code[n + j + 1] ELSE NOP
  BY <1>8
<1> HIDE DEF words
<1>11. IsCode(words, code, n, n + 1, S)  BY <1>9, <1>10 DEF IsCode
<1> QED  BY <1>3, <1>11 DEF words

LEMMA MoreCode ==
  ASSUME NEW S, NEW code, NEW s, NEW t, NEW l, NEW m, NEW n,
         IsCode(s, code, l, m, S), IsCode(t, code, m, n, S)
  PROVE  IsCode(s \o t, code, l, n, S)
<1>1. /\ s \in Seq(S) /\ t \in Seq(S) /\ l \in Nat /\ m \in Nat /\ n \in Nat /\ l <= m /\ m <= n
      /\ Len(s) = At(m - l) /\ Len(t) = At(n - m)
  BY DEF IsCode
<1>2. /\ s \o t \in Seq(S) /\ Len(s \o t) = Len(s) + Len(t)
      /\ Len(s) \in Nat /\ Len(t) \in Nat
  BY <1>1, Joined
<1>3. Len(s \o t) = At(n - l)
  <2>1. m - l \in Nat /\ n - m \in Nat /\ n - l = (m - l) + (n - m)  BY <1>1
  <2>2. At((m - l) + (n - m)) = At(m - l) + At(n - m)  BY <2>1, Places
  <2> QED  BY <1>1, <1>2, <2>1, <2>2
<1>4. ASSUME NEW j \in 0 .. n - l - 1, NEW o \in 0 .. NOOP_LOOP
      PROVE  (s \o t)[At(j) + o + 1] = IF o = 0 THEN code[l + j + 1] ELSE NOP
  <2>0. o \in Nat /\ o + 1 <= Width /\ j \in Nat /\ At(j) \in Nat /\ Width \in Nat
    <3>1. NOOP_LOOP \in Nat  BY BootCodeHasPlace
    <3>2. o \in Nat /\ o + 1 <= Width  BY <3>1 DEF Width
    <3>3. j \in Nat  BY <1>1
    <3>4. At(j) \in Nat  BY <3>3, Places
    <3> QED  BY <3>2, <3>3, <3>4, Places
  <2>1. CASE j < m - l
    <3>1. At(j) + Width <= Len(s)
      <4>1. m - l \in Nat  BY <1>1
      <4> QED  BY <1>1, <2>0, <2>1, <4>1, PlacesOrdered
    <3>2. At(j) + o + 1 \in 1 .. Len(s) /\ j \in 0 .. m - l - 1
      BY <1>1, <1>2, <2>0, <2>1, <3>1
    <3>3. (s \o t)[At(j) + o + 1] = s[At(j) + o + 1]  BY <1>1, <3>2, Joined
    <3>4. s[At(j) + o + 1] = IF o = 0 THEN code[l + j + 1] ELSE NOP  BY <3>2 DEF IsCode
    <3> QED  BY <3>3, <3>4
  <2>2. CASE ~(j < m - l)
    <3>1. PICK i \in 0 .. n - m - 1 : j = (m - l) + i
      <4>1. j - (m - l) \in 0 .. n - m - 1 /\ j = (m - l) + (j - (m - l))  BY <1>1, <2>0, <2>2
      <4> QED  BY <4>1
    <3>2. At(j) = Len(s) + At(i) /\ At(i) \in Nat
      <4>1. m - l \in Nat /\ i \in Nat  BY <1>1
      <4>2. At(j) = At(m - l) + At(i) /\ At(i) \in Nat  BY <3>1, <4>1, Places
      <4> QED  BY <1>1, <4>2
    <3>3. At(i) + Width <= Len(t)
      <4>1. n - m \in Nat /\ i \in Nat /\ i < n - m  BY <1>1
      <4> QED  BY <1>1, <4>1, PlacesOrdered
    <3>4. (s \o t)[At(j) + o + 1] = t[At(i) + o + 1]
      <4>1. At(i) + o + 1 \in 1 .. Len(t)  BY <1>2, <2>0, <3>2, <3>3
      <4>2. \A k \in 1 .. Len(t) : (s \o t)[Len(s) + k] = t[k]
        <5>1. s \in Seq(S) /\ t \in Seq(S)  BY <1>1
        <5> QED  BY <5>1, Joined
      <4>3. At(j) + o + 1 = Len(s) + (At(i) + o + 1)  BY <1>2, <2>0, <3>2
      <4> QED  BY <4>1, <4>2, <4>3
    <3>5. t[At(i) + o + 1] = IF o = 0 THEN code[m + i + 1] ELSE NOP  BY <3>1 DEF IsCode
    <3>6. m + i + 1 = l + j + 1  BY <1>1, <3>1
    <3> QED  BY <3>4, <3>5, <3>6
  <2> QED  BY <2>1, <2>2
<1> DEFINE words == s \o t
<1>5. words \in Seq(S) /\ Len(words) = At(n - l) /\ l <= n  BY <1>1, <1>2, <1>3
<1>6. \A j \in 0 .. n - l - 1, o \in 0 .. NOOP_LOOP :
        words[At(j) + o + 1] = IF o = 0 THEN code[l + j + 1] ELSE NOP
  BY <1>4
<1> HIDE DEF words
<1>7. IsCode(words, code, l, n, S)  BY <1>1, <1>5, <1>6 DEF IsCode
<1> QED  BY <1>7 DEF words

Entry == exeFormat.entryAddr
Global == exeFormat.globalPointer
HasGlobal == Global # NO_GP

Lui(register, value) == <<"lui", register, (value \div HALFWORD) % HALFWORD>>
Ori(register, value) == <<"ori", register, value % HALFWORD>>

\* The instructions of the boot code.
Code ==
  IF HasGlobal
  THEN <<Lui(29, GSP), Ori(29, GSP), Lui(28, Global), Ori(28, Global),
         Lui(31, Entry), Ori(31, Entry), <<"jr", 31>>, NOP>>
  ELSE <<Lui(29, GSP), Ori(29, GSP), Lui(31, Entry), Ori(31, Entry), <<"jr", 31>>, NOP>>

\* How many of them there are, and which sets the entry first.
EntryFrom == IF HasGlobal THEN 4 ELSE 2

\* The vector is this code.
LEMMA VectorIsCode ==
  /\ Len(Vector) = At(EntryFrom + 4)
  /\ \A j \in 0 .. EntryFrom + 3, o \in 0 .. NOOP_LOOP :
       Vector[At(j) + o + 1] = IF o = 0 THEN Code[j + 1] ELSE NOP
<1> DEFINE S == {Code[i] : i \in 1 .. 8} \cup {NOP}
           w(i) == write_instruction(Code[i])
           first == w(1) \o w(2)
           global == IF HasGlobal THEN w(3) \o w(4) ELSE <<>>
           entry == w(EntryFrom + 1) \o w(EntryFrom + 2)
           jump == w(EntryFrom + 3)
           last == w(EntryFrom + 4)
<1>1. Vector = (((first \o global) \o entry) \o jump) \o last
  <2>1. /\ Code[1] = Lui(29, GSP) /\ Code[2] = Ori(29, GSP)
        /\ HasGlobal => Code[3] = Lui(28, Global) /\ Code[4] = Ori(28, Global)
        /\ Code[EntryFrom + 1] = Lui(31, Entry) /\ Code[EntryFrom + 2] = Ori(31, Entry)
        /\ Code[EntryFrom + 3] = <<"jr", 31>> /\ Code[EntryFrom + 4] = NOP
    BY DEF Code, EntryFrom
  <2>2. \A register, value : write_load_immediate(register, value) =
          write_instruction(Lui(register, value)) \o write_instruction(Ori(register, value))
    BY Zenon DEF write_load_immediate, Lui, Ori
  <2>3. Vector = (((write_load_immediate(29, GSP)
                      \o (IF HasGlobal THEN write_load_immediate(28, Global) ELSE <<>>))
                      \o write_load_immediate(31, Entry))
                      \o write_instruction(<<"jr", 31>>)) \o write_instruction(NOP)
    <3>1. Vector = write_initialization_vector(GSP, Global, Entry)  BY DEF Vector, Global, Entry
    <3> HIDE DEF Vector
    <3>2. CASE HasGlobal
      <4>1. Global # NO_GP  BY <3>2 DEF HasGlobal
      <4> QED  BY <3>1, <3>2, <4>1 DEF write_initialization_vector
    <3>3. CASE ~HasGlobal
      <4>1. ~(Global # NO_GP)  BY <3>3 DEF HasGlobal
      <4> QED  BY <3>1, <3>3, <4>1 DEF write_initialization_vector
    <3> QED  BY <3>2, <3>3
  <2> QED  BY <2>1, <2>2, <2>3
<1>2. \A i \in 1 .. 8 : Code[i] \in S  OBVIOUS
<1>3. NOP \in S  OBVIOUS
<1> HIDE DEF S
<1>4. \A n \in 0 .. 7 : IsCode(w(n + 1), Code, n, n + 1, S)
  <2> TAKE n \in 0 .. 7
  <2>1. n \in Nat /\ n + 1 \in 1 .. 8  OBVIOUS
  <2> QED  BY <1>2, <1>3, <2>1, OneInstruction
<1> HIDE DEF w
<1>5. IsCode(<<>>, Code, 2, 2, S)
  <2>1. Len(<<>>) = 0 /\ <<>> \in Seq(S) /\ 2 - 2 = 0  OBVIOUS
  <2> QED  BY <2>1, Places DEF IsCode
<1>6. IsCode(first, Code, 0, 2, S)
  <2>1. IsCode(w(0 + 1), Code, 0, 0 + 1, S) /\ IsCode(w(1 + 1), Code, 1, 1 + 1, S)  BY <1>4
  <2> QED  BY <2>1, MoreCode
<1>7. IsCode(global, Code, 2, EntryFrom, S)
  <2>1. IsCode(w(2 + 1), Code, 2, 2 + 1, S) /\ IsCode(w(3 + 1), Code, 3, 3 + 1, S)  BY <1>4
  <2>2. IsCode(w(3) \o w(4), Code, 2, 4, S)  BY <2>1, MoreCode
  <2> QED  BY <1>5, <2>2 DEF EntryFrom
<1>8. EntryFrom \in {2, 4}  BY DEF EntryFrom
<1>9. /\ IsCode(w(EntryFrom + 1), Code, EntryFrom, EntryFrom + 1, S)
      /\ IsCode(w(EntryFrom + 2), Code, EntryFrom + 1, EntryFrom + 2, S)
      /\ IsCode(w(EntryFrom + 3), Code, EntryFrom + 2, EntryFrom + 3, S)
      /\ IsCode(w(EntryFrom + 4), Code, EntryFrom + 3, EntryFrom + 4, S)
  <2>1. \A d \in 0 .. 3 : EntryFrom + d \in 0 .. 7 /\ EntryFrom + d + 1 = EntryFrom + (d + 1)
    BY <1>8
  <2>2. \A d \in 0 .. 3 : IsCode(w(EntryFrom + (d + 1)), Code, EntryFrom + d, EntryFrom + (d + 1), S)
    <3> TAKE d \in 0 .. 3
    <3>1. IsCode(w(EntryFrom + d + 1), Code, EntryFrom + d, EntryFrom + d + 1, S)  BY <1>4, <2>1
    <3> QED  BY <2>1, <3>1
  <2>3. EntryFrom + 0 = EntryFrom /\ 0 + 1 = 1 /\ 1 + 1 = 2 /\ 2 + 1 = 3 /\ 3 + 1 = 4  BY <1>8
  <2>4. 0 \in 0 .. 3 /\ 1 \in 0 .. 3 /\ 2 \in 0 .. 3 /\ 3 \in 0 .. 3  OBVIOUS
  <2> HIDE DEF S
  <2> QED  BY <2>2, <2>3, <2>4
<1>10. IsCode(entry, Code, EntryFrom, EntryFrom + 2, S)  BY <1>9, MoreCode
<1> HIDE DEF first, global, entry, jump, last
<1>11. IsCode(first \o global, Code, 0, EntryFrom, S)  BY <1>6, <1>7, MoreCode
<1>12. IsCode((first \o global) \o entry, Code, 0, EntryFrom + 2, S)  BY <1>10, <1>11, MoreCode
<1>13. IsCode(((first \o global) \o entry) \o jump, Code, 0, EntryFrom + 3, S)
  BY <1>9, <1>12, MoreCode DEF jump
<1>14. IsCode(Vector, Code, 0, EntryFrom + 4, S)
  BY <1>1, <1>9, <1>13, MoreCode DEF last
<1> DEFINE n == EntryFrom + 4
<1>15. n - 0 = n /\ n - 0 - 1 = EntryFrom + 3  BY <1>8
<1>16. \A j \in 0 .. EntryFrom + 3 : 0 + j + 1 = j + 1  BY <1>8
<1> HIDE DEF n
<1>17. /\ Len(Vector) = At(n - 0)
       /\ \A j \in 0 .. n - 0 - 1, o \in 0 .. NOOP_LOOP :
            Vector[At(j) + o + 1] = IF o = 0 THEN Code[0 + j + 1] ELSE NOP
  BY <1>14 DEF IsCode, n
<1>18. Len(Vector) = At(n)  BY <1>15, <1>17
<1>19. \A j \in 0 .. EntryFrom + 3, o \in 0 .. NOOP_LOOP :
         Vector[At(j) + o + 1] = IF o = 0 THEN Code[j + 1] ELSE NOP
  BY <1>15, <1>16, <1>17
<1> QED  BY <1>18, <1>19 DEF n

LEMMA Halves ==
  ASSUME NEW v \in Word
  PROVE  /\ v % HALFWORD \in Nat /\ ((v \div HALFWORD) % HALFWORD) * HALFWORD \in Word
         /\ ((v \div HALFWORD) % HALFWORD) * HALFWORD + (v % HALFWORD) = v
<1> DEFINE h == HALFWORD
           q == v \div h
           r == v % h
<1>1. h \in Nat /\ h > 0 /\ v \in Nat /\ v < h * h  BY FieldsAreWords DEF Word
<1>2. q \in Nat /\ r \in Nat /\ r < h /\ v = h * q + r
  <2> HIDE DEF h
  <2> QED  BY <1>1
<1> HIDE DEF q, r, h
<1>3. q < h
  <2> SUFFICES ASSUME q >= h PROVE FALSE  BY <1>1, <1>2
  <2>1. h * q >= h * h  BY <1>1, <1>2
  <2>2. h * q \in Nat /\ h * h \in Nat  BY <1>1, <1>2
  <2> QED  BY <1>1, <1>2, <2>1, <2>2
<1>4. q % h = q  BY <1>1, <1>2, <1>3
<1>5. q * h = h * q /\ h * q \in Nat  BY <1>1, <1>2
<1>6. q * h + r = v /\ q * h \in 0 .. h * h - 1
  <2>1. h * h \in Nat  BY <1>1
  <2> QED  BY <1>1, <1>2, <1>5, <2>1
<1>7. (q % h) * h + r = v /\ (q % h) * h \in 0 .. h * h - 1  BY <1>4, <1>6
<1> QED  BY <1>2, <1>7 DEF q, r, h, Word

\* The register that instructions from first on load with a value, after j of
\* the code.
Loaded(value, first, j) ==
  IF j <= first THEN 0
  ELSE IF j = first + 1 THEN ((value \div HALFWORD) % HALFWORD) * HALFWORD ELSE value

\* The registers after j instructions of the code.
After(j) ==
  [r \in {28, 29, 31} |->
     IF r = 29 THEN Loaded(GSP, 0, j)
     ELSE IF r = 31 THEN Loaded(Entry, EntryFrom, j)
     ELSE IF HasGlobal THEN Loaded(Global, 2, j) ELSE 0]

\* The result of instruction j.
ResultOf(j) ==
  IF j < EntryFrom + 2 THEN <<Code[j + 1][2], After(j + 1)[Code[j + 1][2]]>> ELSE NoResult

FieldsFit == GSP \in Word /\ Entry \in Word /\ Global \in Word

LEMMA LoadedIsWord ==
  ASSUME NEW value \in Word, NEW first, NEW j
  PROVE  Loaded(value, first, j) \in Word
<1>1. 0 \in Word  BY FieldsAreWords DEF Word
<1> QED  BY <1>1, Halves DEF Loaded

LEMMA AfterIsWords ==
  ASSUME FieldsFit, NEW j
  PROVE  /\ DOMAIN After(j) = {28, 29, 31} /\ \A r \in {28, 29, 31} : After(j)[r] \in Word
         /\ After(j) = [r \in {28, 29, 31} |-> After(j)[r]]
<1>1. 0 \in Word  BY FieldsAreWords DEF Word
<1> QED  BY <1>1, LoadedIsWord DEF After, FieldsFit

LEMMA CodeIs ==
  /\ Code[1] = Lui(29, GSP) /\ Code[2] = Ori(29, GSP)
  /\ HasGlobal => Code[3] = Lui(28, Global) /\ Code[4] = Ori(28, Global)
  /\ Code[EntryFrom + 1] = Lui(31, Entry) /\ Code[EntryFrom + 2] = Ori(31, Entry)
  /\ Code[EntryFrom + 3] = <<"jr", 31>> /\ Code[EntryFrom + 4] = NOP
BY DEF Code, EntryFrom

\* One pair of instructions that loads a register.
LEMMA LoadsRegister ==
  ASSUME NEW value \in Word, NEW r \in {28, 29, 31}, NEW first \in Nat, r \in DOMAIN Reg,
         Reg[r] = Loaded(value, first, first + 1)
  PROVE  /\ Result(Lui(r, value)) = <<r, Loaded(value, first, first + 1)>>
         /\ Result(Ori(r, value)) = <<r, Loaded(value, first, first + 2)>>
<1>1. Result(Lui(r, value)) = <<r, ((value \div HALFWORD) % HALFWORD) * HALFWORD>>
  BY DEF Result, Lui
<1>2. Result(Ori(r, value)) = <<r, Reg[r] + (value % HALFWORD)>>
  BY DEF Result, Ori
<1>3. Loaded(value, first, first + 1) = ((value \div HALFWORD) % HALFWORD) * HALFWORD
      /\ Loaded(value, first, first + 2) = value
  BY DEF Loaded
<1> QED  BY <1>1, <1>2, <1>3, Halves

\* The registers after a result was written.
Written(result) == [r \in DOMAIN Reg |-> IF r = result[1] THEN result[2] ELSE Reg[r]]

\* What instruction j does to registers that the ones before it have left.
Does(j) ==
  /\ Result(Code[j + 1]) = ResultOf(j) /\ ResultOf(j) \in Nat \X Nat
  /\ Written(ResultOf(j)) = After(j + 1)

LEMMA PairDoes ==
  ASSUME FieldsFit, NEW value \in Word, NEW r \in {28, 29, 31}, NEW first \in Nat,
         NEW j \in {first, first + 1}, first <= EntryFrom, Reg = After(j),
         \A i \in Nat : After(i)[r] = Loaded(value, first, i),
         \A q \in {28, 29, 31} \ {r} : After(j + 1)[q] = After(j)[q],
         Code[first + 1] = Lui(r, value), Code[first + 2] = Ori(r, value)
  PROVE  Does(j)
<1>1. j \in Nat /\ j + 1 \in Nat /\ EntryFrom \in Nat  BY DEF EntryFrom
<1>2. DOMAIN Reg = {28, 29, 31} /\ \A i \in Nat : After(i)[r] \in Word /\ After(i)[r] \in Nat
  <2>1. DOMAIN Reg = {28, 29, 31}  BY AfterIsWords
  <2>2. \A i \in Nat : After(i)[r] \in Word  BY AfterIsWords
  <2>3. Word \subseteq Nat  BY DEF Word
  <2> QED  BY <2>1, <2>2, <2>3
<1>3. Code[j + 1][2] = r /\ Result(Code[j + 1]) = <<r, After(j + 1)[r]>>
  <2>1. CASE j = first
    <3>1. Result(Lui(r, value)) = <<r, ((value \div HALFWORD) % HALFWORD) * HALFWORD>>
      BY DEF Result, Lui
    <3>2. After(j + 1)[r] = ((value \div HALFWORD) % HALFWORD) * HALFWORD
      BY <1>1, <2>1 DEF Loaded
    <3>3. Lui(r, value)[2] = r  BY DEF Lui
    <3> QED  BY <2>1, <3>1, <3>2, <3>3
  <2>2. CASE j = first + 1
    <3>1. Reg[r] = Loaded(value, first, first + 1)  BY <1>1, <2>2
    <3>2. Result(Ori(r, value)) = <<r, Loaded(value, first, first + 2)>>
      BY <1>2, <3>1, LoadsRegister
    <3>3. first + 2 \in Nat /\ j + 1 = first + 2  BY <2>2
    <3>4. After(j + 1)[r] = Loaded(value, first, first + 2)  BY <3>3
    <3>5. Ori(r, value)[2] = r  BY DEF Ori
    <3> QED  BY <3>2, <3>3, <3>4, <3>5
  <2> QED  BY <2>1, <2>2
<1>4. ResultOf(j) = <<r, After(j + 1)[r]>>
  <2>1. j < EntryFrom + 2  BY <1>1
  <2> QED  BY <1>3, <2>1 DEF ResultOf
<1>5. Written(ResultOf(j)) = After(j + 1)
  <2>1. Written(ResultOf(j)) = [q \in {28, 29, 31} |-> IF q = r THEN After(j + 1)[r] ELSE After(j)[q]]
    BY <1>2, <1>4 DEF Written
  <2>2. Written(ResultOf(j)) = [q \in {28, 29, 31} |-> After(j + 1)[q]]  BY <2>1
  <2> QED  BY <2>2, AfterIsWords
<1>6. r \in Nat  OBVIOUS
<1> QED  BY <1>1, <1>2, <1>3, <1>4, <1>5, <1>6 DEF Does

LEMMA Effects ==
  ASSUME FieldsFit, NEW j \in 0 .. EntryFrom + 3, Reg = After(j)
  PROVE  Does(j)
<1>1. EntryFrom = (IF HasGlobal THEN 4 ELSE 2)  BY DEF EntryFrom
<1>2. GSP \in Word /\ Entry \in Word /\ Global \in Word  BY DEF FieldsFit
<1>3. \A i : /\ After(i)[29] = Loaded(GSP, 0, i) /\ After(i)[31] = Loaded(Entry, EntryFrom, i)
             /\ After(i)[28] = IF HasGlobal THEN Loaded(Global, 2, i) ELSE 0
  BY DEF After
<1>4. CASE j \in {0, 1}
  <2>1. \A q \in {28, 29, 31} \ {29} : After(j + 1)[q] = After(j)[q]
    BY <1>1, <1>3, <1>4 DEF Loaded
  <2>2. Code[0 + 1] = Lui(29, GSP) /\ Code[0 + 2] = Ori(29, GSP)  BY CodeIs
  <2> QED  BY <1>1, <1>2, <1>3, <1>4, <2>1, <2>2, PairDoes
<1>5. CASE HasGlobal /\ j \in {2, 3}
  <2>1. \A q \in {28, 29, 31} \ {28} : After(j + 1)[q] = After(j)[q]
    BY <1>1, <1>3, <1>5 DEF Loaded
  <2>2. Code[2 + 1] = Lui(28, Global) /\ Code[2 + 2] = Ori(28, Global)  BY <1>5, CodeIs
  <2> QED  BY <1>1, <1>2, <1>3, <1>5, <2>1, <2>2, PairDoes
<1>6. CASE j \in {EntryFrom, EntryFrom + 1}
  <2>1. \A q \in {28, 29, 31} \ {31} : After(j + 1)[q] = After(j)[q]
    BY <1>1, <1>3, <1>6 DEF Loaded
  <2> QED  BY <1>1, <1>2, <1>3, <1>6, <2>1, CodeIs, PairDoes
<1>7. CASE j \in {EntryFrom + 2, EntryFrom + 3}
  <2>1. ResultOf(j) = NoResult  BY <1>1, <1>7 DEF ResultOf
  <2>2. Code[j + 1] \in {<<"jr", 31>>, NOP}
    <3>1. j + 1 \in {EntryFrom + 3, EntryFrom + 4}  BY <1>1, <1>7
    <3> QED  BY <3>1, CodeIs
  <2>3. Code[j + 1][1] \notin {"lui", "ori"}  BY <2>2 DEF NOP
  <2>4. Result(Code[j + 1]) = NoResult  BY <2>3 DEF Result
  <2>5. \A r \in {28, 29, 31} : After(j + 1)[r] = After(j)[r]
    BY <1>1, <1>3, <1>7 DEF Loaded
  <2>6. DOMAIN Reg = {28, 29, 31} /\ NoResult[1] = 0 /\ NoResult \in Nat \X Nat
    BY AfterIsWords DEF NoResult
  <2>7. Written(NoResult) = [r \in {28, 29, 31} |-> After(j + 1)[r]]
    BY <2>5, <2>6 DEF Written
  <2> QED  BY <2>1, <2>4, <2>6, <2>7, AfterIsWords DEF Does
<1> QED  BY <1>1, <1>4, <1>5, <1>6, <1>7

\* A nop changes nothing.
LEMMA NopDoesNothing ==
  ASSUME FieldsFit, NEW j, Reg = After(j)
  PROVE  Result(NOP) = NoResult /\ NoResult \in Nat \X Nat /\ Written(NoResult) = Reg
<1>1. DOMAIN Reg = {28, 29, 31} /\ Reg = [r \in {28, 29, 31} |-> Reg[r]]  BY AfterIsWords
<1>2. NoResult[1] = 0 /\ NoResult \in Nat \X Nat  BY DEF NoResult
<1>3. NOP[1] \notin {"lui", "ori"}  BY DEF NOP
<1>4. Result(NOP) = NoResult  BY <1>3 DEF Result
<1>5. Written(NoResult) = [r \in {28, 29, 31} |-> Reg[r]]  BY <1>1, <1>2 DEF Written
<1> QED  BY <1>1, <1>2, <1>4, <1>5

LEMMA QueueMoves ==
  ASSUME NEW S, NEW q \in Seq(S), NEW x \in S
  PROVE  /\ Append(q, x) \in Seq(S) /\ Len(Append(q, x)) = Len(q) + 1
         /\ \A i \in 1 .. Len(q) : Append(q, x)[i] = q[i]
         /\ Append(q, x)[Len(q) + 1] = x
         /\ Tail(Append(q, x)) \in Seq(S) /\ Len(Tail(Append(q, x))) = Len(q)
         /\ \A i \in 1 .. Len(q) : Tail(Append(q, x))[i] = Append(q, x)[i + 1]
OBVIOUS

\* The registers and the results in flight o words after instruction j.
Holds(j, o) ==
  /\ Reg = IF o > Len(results) THEN After(j + 1) ELSE After(j)
  /\ \A i \in 1 .. Len(results) :
       results[i] = IF i = Len(results) - o + 1 THEN ResultOf(j) ELSE NoResult

ProcessorTyped ==
  /\ delay \in Delays
  /\ results \in Seq(Nat \X Nat) /\ Len(results) < delay

\* One instruction more.
LEMMA Moves ==
  ASSUME ProcessorTyped, FieldsFit, Step, NEW j \in 0 .. EntryFrom + 3, NEW o \in 0 .. NOOP_LOOP,
         Holds(j, o), MAIN_MEMORY[pc] = IF o = 0 THEN Code[j + 1] ELSE NOP
  PROVE  /\ ProcessorTyped'
         /\ IF o = NOOP_LOOP THEN Holds(j + 1, 0)' ELSE Holds(j, o + 1)'
<1> DEFINE x == Result(MAIN_MEMORY[pc])
           flight == Append(results, x)
           L == Len(results)
<1>1. /\ results \in Seq(Nat \X Nat) /\ L \in Nat /\ NOOP_LOOP \in Nat
      /\ delay \in 1 .. NOOP_LOOP + 1 /\ L < delay /\ EntryFrom \in Nat
  BY BootCodeHasPlace, DelaysAreCovered DEF ProcessorTyped, EntryFrom
<1>2. /\ UNCHANGED <<exeFormat, delay>>
      /\ IF Len(flight) < delay THEN results' = flight /\ Reg' = Reg
         ELSE results' = Tail(flight) /\ Reg' = Written(flight[1])
  BY Zenon DEF Step, Written
<1>3. x = (IF o = 0 THEN ResultOf(j) ELSE NoResult) /\ x \in Nat \X Nat
      /\ Written(NoResult) = Reg
  <2>1. Reg = After(j) \/ Reg = After(j + 1)  BY DEF Holds
  <2>2. Result(NOP) = NoResult /\ NoResult \in Nat \X Nat /\ Written(NoResult) = Reg
    BY <2>1, NopDoesNothing
  <2>3. o = 0 => Does(j)
    <3>1. o = 0 => Reg = After(j)  BY <1>1 DEF Holds
    <3> QED  BY <3>1, Effects
  <2> QED  BY <2>2, <2>3 DEF Does
<1>4. Reg = After(j) => Written(ResultOf(j)) = After(j + 1)  BY Effects DEF Does
<1> HIDE DEF x
<1>5. /\ flight \in Seq(Nat \X Nat) /\ Len(flight) = L + 1
      /\ \A i \in 1 .. L : flight[i] = results[i]
      /\ flight[L + 1] = x
      /\ Tail(flight) \in Seq(Nat \X Nat) /\ Len(Tail(flight)) = L
      /\ \A i \in 1 .. L : Tail(flight)[i] = flight[i + 1]
  <2> DEFINE S == Nat \X Nat
  <2>1. results \in Seq(S) /\ x \in S  BY <1>1, <1>3
  <2> HIDE DEF S
  <2>2. /\ Append(results, x) \in Seq(S) /\ Len(Append(results, x)) = Len(results) + 1
        /\ \A i \in 1 .. Len(results) : Append(results, x)[i] = results[i]
        /\ Append(results, x)[Len(results) + 1] = x
        /\ Tail(Append(results, x)) \in Seq(S) /\ Len(Tail(Append(results, x))) = Len(results)
        /\ \A i \in 1 .. Len(results) : Tail(Append(results, x))[i] = Append(results, x)[i + 1]
    BY <2>1, QueueMoves
  <2> QED  BY <2>2, Zenon DEF S
<1> HIDE DEF flight
<1>6. \A i \in 1 .. L + 1 : flight[i] = IF i = L - o + 1 THEN ResultOf(j) ELSE NoResult
  <2> TAKE i \in 1 .. L + 1
  <2>1. CASE i = L + 1  BY <1>1, <1>3, <1>5, <2>1
  <2>2. CASE i # L + 1
    <3>1. i \in 1 .. L  BY <1>1, <2>2
    <3> QED  BY <1>5, <3>1 DEF Holds
  <2> QED  BY <2>1, <2>2
<1>7. \A i : After(i)' = After(i) /\ ResultOf(i)' = ResultOf(i) /\ NoResult' = NoResult
  BY <1>2 DEF After, ResultOf, Code, Entry, Global, HasGlobal, EntryFrom, NoResult
<1>8. ProcessorTyped'  BY <1>1, <1>2, <1>5 DEF ProcessorTyped
<1>9. ASSUME NEW j1, NEW o1,
             Reg' = IF o1 > Len(results') THEN After(j1 + 1) ELSE After(j1),
             \A i \in 1 .. Len(results') :
               results'[i] = IF i = Len(results') - o1 + 1 THEN ResultOf(j1) ELSE NoResult
      PROVE  Holds(j1, o1)'
  BY <1>7, <1>9 DEF Holds
<1>10. Reg = IF o > L THEN After(j + 1) ELSE After(j)  BY DEF Holds
<1>11. CASE L + 1 < delay
  <2>1. results' = flight /\ Reg' = Reg /\ Len(results') = L + 1  BY <1>2, <1>5, <1>11
  <2>2. CASE o = NOOP_LOOP
    <3>1. Reg' = IF 0 > Len(results') THEN After(j + 1 + 1) ELSE After(j + 1)
      BY <1>1, <1>10, <1>11, <2>1, <2>2
    <3>2. \A i \in 1 .. Len(results') :
            results'[i] = IF i = Len(results') - 0 + 1 THEN ResultOf(j + 1) ELSE NoResult
      BY <1>1, <1>6, <1>11, <2>1, <2>2
    <3> QED  BY <1>8, <1>9, <2>2, <3>1, <3>2
  <2>3. CASE o # NOOP_LOOP
    <3>1. Reg' = IF o + 1 > Len(results') THEN After(j + 1) ELSE After(j)
      BY <1>1, <1>10, <2>1
    <3>2. \A i \in 1 .. Len(results') :
            results'[i] = IF i = Len(results') - (o + 1) + 1 THEN ResultOf(j) ELSE NoResult
      BY <1>1, <1>6, <2>1
    <3> QED  BY <1>8, <1>9, <2>3, <3>1, <3>2
  <2> QED  BY <2>2, <2>3
<1>12. CASE ~(L + 1 < delay)
  <2>1. /\ results' = Tail(flight) /\ Reg' = Written(flight[1]) /\ Len(results') = L
        /\ \A i \in 1 .. L : results'[i] = flight[i + 1]
    BY <1>2, <1>5, <1>12
  <2>5. \A i \in 1 .. L : results'[i] = IF i = L - o THEN ResultOf(j) ELSE NoResult
    <3> TAKE i \in 1 .. L
    <3>1. i + 1 \in 1 .. L + 1 /\ (i + 1 = L - o + 1 <=> i = L - o)
      <4>1. L \in Nat /\ o \in Nat  BY <1>1
      <4> HIDE DEF L
      <4> QED  BY <4>1
    <3>2. flight[i + 1] = IF i + 1 = L - o + 1 THEN ResultOf(j) ELSE NoResult  BY <1>6, <3>1
    <3> QED  BY <2>1, <3>1, <3>2
  <2>2. Reg' = IF o >= L THEN After(j + 1) ELSE After(j)
    <3>1. flight[1] = IF o = L THEN ResultOf(j) ELSE NoResult
      <4>1. 1 \in 1 .. L + 1 /\ (1 = L - o + 1 <=> o = L)  BY <1>1
      <4> QED  BY <1>6, <4>1
    <3>2. CASE o = L  BY <1>1, <1>4, <1>10, <2>1, <3>1, <3>2
    <3>3. CASE o # L  BY <1>1, <1>3, <1>10, <2>1, <3>1, <3>3
    <3> QED  BY <3>2, <3>3
  <2>3. CASE o = NOOP_LOOP
    <3>1. Reg' = IF 0 > Len(results') THEN After(j + 1 + 1) ELSE After(j + 1)
      BY <1>1, <2>1, <2>2, <2>3
    <3>2. \A i \in 1 .. Len(results') :
            results'[i] = IF i = Len(results') - 0 + 1 THEN ResultOf(j + 1) ELSE NoResult
      <4>1. L \in Nat /\ L <= o /\ Len(results') = L  BY <1>1, <2>1, <2>3
      <4> HIDE DEF L
      <4>2. \A i \in 1 .. L : i # L - o /\ i # L - 0 + 1  BY <4>1
      <4> QED  BY <2>5, <4>1, <4>2
    <3> QED  BY <1>8, <1>9, <2>3, <3>1, <3>2
  <2>4. CASE o # NOOP_LOOP
    <3>1. Reg' = IF o + 1 > Len(results') THEN After(j + 1) ELSE After(j)
      BY <1>1, <2>1, <2>2
    <3>2. \A i \in 1 .. Len(results') :
            results'[i] = IF i = Len(results') - (o + 1) + 1 THEN ResultOf(j) ELSE NoResult
      <4>1. L \in Nat /\ o \in Nat /\ Len(results') = L  BY <1>1, <2>1
      <4> HIDE DEF L
      <4>2. L - (o + 1) + 1 = L - o  BY <4>1
      <4> QED  BY <2>5, <4>1, <4>2
    <3> QED  BY <1>8, <1>9, <2>4, <3>1, <3>2
  <2> QED  BY <2>3, <2>4
<1> QED  BY <1>11, <1>12

\* Where the processor is, o words after instruction j: the jump takes effect
\* after the word that follows it, and is then over.
EndOfCode == At(EntryFrom + 2) + 1

InBoot(j, o) ==
  /\ pc = RESET + (At(j) + o) /\ At(j) + o <= EndOfCode
  /\ npc = IF At(j) + o = EndOfCode THEN Entry ELSE pc + 1
  /\ Holds(j, o)

BootInv ==
  /\ ProcessorTyped
  /\ stage \notin {"boot", "running"} =>
       /\ pc = RESET /\ npc = RESET + 1
       /\ Reg = [r \in {28, 29, 31} |-> 0] /\ results = <<>>
  /\ stage \notin {"parse", "rejected"} => Entry = file.e_entry /\ FieldsFit
  /\ stage = "boot" => \E j \in 0 .. EntryFrom + 3, o \in 0 .. NOOP_LOOP : InBoot(j, o)
  /\ stage = "running" => pc = Entry /\ npc = Entry + 1 /\ Reg = After(EntryFrom + 2)

\* The code lies in the page of the reset address.
LEMMA CodeInPage ==
  /\ At(EntryFrom + 4) \in Nat /\ RESET \in Nat
  /\ \A k \in Nat : k < At(EntryFrom + 4) => RESET + k \in BootPage /\ RESET + k \in Addresses
<1>1. EntryFrom + 4 \in {6, 8}  BY DEF EntryFrom
<1>2. At(8) = 8 * (NOOP_LOOP + 1)  BY DEF At, Width
<1>3. At(EntryFrom + 4) \in Nat /\ At(EntryFrom + 4) <= At(8)
  <2>1. At(6) + Width <= At(8)  BY PlacesOrdered
  <2>2. At(6) \in Nat /\ At(8) \in Nat /\ Width \in Nat  BY Places
  <2> QED  BY <1>1, <2>1, <2>2
<1>4. RESET \in Nat /\ NOOP_LOOP \in Nat  BY BootCodeHasPlace
<1>5. ASSUME NEW k \in Nat, k < At(EntryFrom + 4)
      PROVE  RESET + k \in RESET .. RESET + 8 * (NOOP_LOOP + 1) - 1
  BY <1>2, <1>3, <1>4, <1>5
<1> QED  BY <1>3, <1>4, <1>5, BootCodeHasPlace

\* What memory has there.
LEMMA Fetches ==
  ASSUME MemoryIsImage, stage = "boot", NEW j \in 0 .. EntryFrom + 3, NEW o \in 0 .. NOOP_LOOP
  PROVE  MAIN_MEMORY[RESET + (At(j) + o)] = IF o = 0 THEN Code[j + 1] ELSE NOP
<1>1. j \in Nat /\ EntryFrom + 4 \in Nat /\ j < EntryFrom + 4 /\ o \in Nat /\ o < Width
  BY BootCodeHasPlace DEF EntryFrom, Width
<1>2. At(j) \in Nat /\ At(j) + Width <= At(EntryFrom + 4) /\ Width \in Nat
  BY <1>1, Places, PlacesOrdered
<1>3. Len(Vector) = At(EntryFrom + 4) /\ Len(Vector) \in Nat /\ RESET \in Nat
  BY VectorIsCode, CodeInPage
<1>4. ASSUME NEW k \in Nat, k < Len(Vector)
      PROVE  MAIN_MEMORY[RESET + k] = Vector[k + 1]
  <2>1. PICK a : a = RESET + k  OBVIOUS
  <2>2. a \in Addresses  BY <1>3, <1>4, <2>1, CodeInPage
  <2> DEFINE n == Len(Vector)
  <2>3. n \in Nat /\ RESET \in Nat /\ k \in Nat /\ k < n  BY <1>3, <1>4
  <2> HIDE DEF n
  <2>4. a \in RESET .. RESET + n - 1 /\ a - RESET + 1 = k + 1  BY <2>1, <2>3
  <2>5. MAIN_MEMORY[a] \in {Vector[a - RESET + 1]}
    BY <2>2, <2>4, Zenon DEF MemoryIsImage, n
  <2> QED  BY <2>1, <2>4, <2>5
<1>5. At(j) + o \in Nat /\ At(j) + o < Len(Vector)  BY <1>1, <1>2, <1>3
<1>6. Vector[At(j) + o + 1] = IF o = 0 THEN Code[j + 1] ELSE NOP  BY VectorIsCode
<1> QED  BY <1>4, <1>5, <1>6

\* The only jump of the code.
LEMMA Jump ==
  ASSUME NEW j \in 0 .. EntryFrom + 3
  PROVE  /\ j = EntryFrom + 2 => Code[j + 1] = <<"jr", 31>>
         /\ j # EntryFrom + 2 => Code[j + 1][1] # "jr"
         /\ NOP[1] # "jr"
<1>1. EntryFrom = (IF HasGlobal THEN 4 ELSE 2)  BY DEF EntryFrom
<1>2. \A r, v : Lui(r, v)[1] = "lui" /\ Ori(r, v)[1] = "ori"  BY DEF Lui, Ori
<1>3. NOP[1] = "nop"  BY DEF NOP
<1>4. CASE j = EntryFrom + 2  BY <1>1, <1>3, <1>4, CodeIs
<1>5. CASE j = EntryFrom + 3  BY <1>1, <1>3, <1>5, CodeIs
<1>6. CASE j = EntryFrom \/ j = EntryFrom + 1  BY <1>1, <1>2, <1>3, <1>6, CodeIs
<1>7. CASE j = 0 \/ j = 1  BY <1>1, <1>2, <1>3, <1>7, CodeIs
<1>8. CASE HasGlobal /\ (j = 2 \/ j = 3)  BY <1>1, <1>2, <1>3, <1>8, CodeIs
<1>9. j \in 0 .. 7  BY <1>1
<1> QED  BY <1>1, <1>4, <1>5, <1>6, <1>7, <1>8, <1>9

\* The place of the jump is no other's.
LEMMA PlaceOfJump ==
  ASSUME NEW j \in 0 .. EntryFrom + 3, NEW o \in 0 .. NOOP_LOOP
  PROVE  /\ At(j) + o = At(EntryFrom + 2) <=> j = EntryFrom + 2 /\ o = 0
         /\ At(j) + o >= At(EntryFrom + 2) => j >= EntryFrom + 2
         /\ o = NOOP_LOOP /\ At(j) + o < EndOfCode => j + 1 \in 0 .. EntryFrom + 3
         /\ o = NOOP_LOOP => At(j) + o + 1 = At(j + 1) + 0
         /\ At(j) \in Nat /\ At(EntryFrom + 2) \in Nat /\ EndOfCode <= At(EntryFrom + 4) - 1
<1>1. j \in Nat /\ EntryFrom + 2 \in Nat /\ o \in Nat /\ o < Width /\ NOOP_LOOP + 1 = Width
  BY BootCodeHasPlace DEF EntryFrom, Width
<1>2. /\ At(j) \in Nat /\ At(EntryFrom + 2) \in Nat /\ Width \in Nat /\ Width >= 1
      /\ At(j + 1) = At(j) + Width
  BY <1>1, Places
<1>3. j < EntryFrom + 2 => At(j) + Width <= At(EntryFrom + 2)  BY <1>1, PlacesOrdered
<1>4. j > EntryFrom + 2 => At(EntryFrom + 2) + Width <= At(j)  BY <1>1, PlacesOrdered
<1>5. At(EntryFrom + 3) = At(EntryFrom + 2) + Width /\ At(EntryFrom + 4) = At(EntryFrom + 3) + Width
  <2>1. EntryFrom + 3 \in Nat /\ (EntryFrom + 2) + 1 = EntryFrom + 3 /\ (EntryFrom + 3) + 1 = EntryFrom + 4
    BY DEF EntryFrom
  <2>2. At((EntryFrom + 2) + 1) = At(EntryFrom + 2) + Width  BY <1>1, Places
  <2>3. At((EntryFrom + 3) + 1) = At(EntryFrom + 3) + Width  BY <2>1, Places
  <2> QED  BY <2>1, <2>2, <2>3
<1>6. EntryFrom \in Nat  BY DEF EntryFrom
<1>7. j = EntryFrom + 3 => At(j) = At(EntryFrom + 2) + Width  BY <1>5
<1> QED  BY <1>1, <1>2, <1>3, <1>4, <1>5, <1>6, <1>7 DEF EndOfCode

\* What the code has done when it is over.
LEMMA Done ==
  ASSUME NEW j \in Nat, j >= EntryFrom + 2
  PROVE  After(j) = After(EntryFrom + 2) /\ After(j + 1) = After(EntryFrom + 2)
<1>1. EntryFrom \in {2, 4} /\ (HasGlobal => EntryFrom = 4)  BY DEF EntryFrom
<1> QED  BY <1>1 DEF After, Loaded

\* Every word of the code goes to the next, and the last to the program.
LEMMA BootMoves ==
  ASSUME LoadInv, BootInv, Step
  PROVE  BootInv'
<1>1. stage = "boot" /\ ProcessorTyped /\ FieldsFit /\ Entry = file.e_entry /\ file \in Files
      /\ MemoryIsImage
  BY DEF BootInv, LoadInv, Step
<1>2. PICK j \in 0 .. EntryFrom + 3, o \in 0 .. NOOP_LOOP : InBoot(j, o)
  BY <1>1 DEF BootInv
<1> DEFINE instruction == MAIN_MEMORY[pc]
           p == At(j) + o
<1>3. instruction = IF o = 0 THEN Code[j + 1] ELSE NOP
  BY <1>1, <1>2, Fetches DEF InBoot
<1>4. /\ ProcessorTyped'
      /\ IF o = NOOP_LOOP THEN Holds(j + 1, 0)' ELSE Holds(j, o + 1)'
  BY <1>1, <1>2, <1>3, Moves DEF InBoot
<1>5. /\ UNCHANGED <<file, exeFormat>>
      /\ pc' = npc /\ npc' = (IF instruction[1] = "jr" THEN Reg[instruction[2]] ELSE npc + 1)
      /\ stage' = IF npc \in BootPage THEN "boot" ELSE "running"
  BY Zenon DEF Step
<1>6. /\ p \in Nat /\ p <= EndOfCode /\ EndOfCode \in Nat /\ RESET \in Nat /\ o \in Nat /\ j \in Nat
      /\ EndOfCode <= At(EntryFrom + 4) - 1 /\ At(EntryFrom + 4) \in Nat
  BY <1>2, PlaceOfJump, BootCodeHasPlace, CodeInPage DEF InBoot, EndOfCode
<1>7. pc = RESET + p /\ npc = IF p = EndOfCode THEN Entry ELSE pc + 1  BY <1>2 DEF InBoot
<1>8. \A i : After(i)' = After(i) /\ EndOfCode' = EndOfCode /\ Entry' = Entry /\ EntryFrom' = EntryFrom
             /\ FieldsFit' = FieldsFit
  BY <1>5 DEF After, Entry, Global, HasGlobal, EntryFrom, EndOfCode, FieldsFit
<1>9. instruction[1] = "jr" => p = At(EntryFrom + 2) /\ instruction[2] = 31 /\ Reg[31] = Entry
  <2> SUFFICES ASSUME instruction[1] = "jr"
               PROVE  p = At(EntryFrom + 2) /\ instruction[2] = 31 /\ Reg[31] = Entry
    OBVIOUS
  <2>1. j = EntryFrom + 2 /\ o = 0 /\ instruction = <<"jr", 31>>  BY <1>3, Jump
  <2>2. Reg = After(EntryFrom + 2)
    <3>1. Len(results) \in Nat  BY <1>1 DEF ProcessorTyped
    <3> QED  BY <1>2, <2>1, <3>1 DEF InBoot, Holds
  <2>3. After(EntryFrom + 2)[31] = Entry
    <3>1. EntryFrom \in Nat  BY DEF EntryFrom
    <3> QED  BY <3>1 DEF After, Loaded
  <2> QED  BY <1>2, <2>1, <2>2, <2>3, PlaceOfJump
<1>10. p = At(EntryFrom + 2) => instruction = <<"jr", 31>>
  <2>1. p = At(EntryFrom + 2) => j = EntryFrom + 2 /\ o = 0  BY PlaceOfJump
  <2> QED  BY <1>3, <2>1, Jump
<1> HIDE DEF instruction
<1>11. CASE p = EndOfCode
  <2>1. Entry \notin BootPage  BY <1>1, ProgramsHavePlaces
  <2>2. pc' = Entry /\ stage' = "running"  BY <1>5, <1>7, <1>11, <2>1
  <2>3. npc' = Entry + 1
    <3>1. p # At(EntryFrom + 2)
      <4>1. At(EntryFrom + 2) \in Nat  BY PlaceOfJump
      <4> QED  BY <1>6, <1>11, <4>1 DEF EndOfCode
    <3> QED  BY <1>5, <1>7, <1>9, <1>11, <3>1
  <2>4. Reg' = After(EntryFrom + 2)
    <3>1. j >= EntryFrom + 2
      <4>1. p >= At(EntryFrom + 2)
        <5>1. At(EntryFrom + 2) \in Nat  BY PlaceOfJump
        <5> QED  BY <1>6, <1>11, <5>1 DEF EndOfCode
      <4> QED  BY <4>1, PlaceOfJump
    <3>2. Reg' \in {After(j), After(j + 1), After(j + 1 + 1)}
      BY <1>4, <1>8 DEF Holds
    <3>3. j + 1 \in Nat /\ j + 1 >= EntryFrom + 2
      <4>1. EntryFrom \in Nat  BY DEF EntryFrom
      <4> QED  BY <1>6, <3>1, <4>1
    <3> QED  BY <1>6, <3>1, <3>2, <3>3, Done
  <2>5. Reg' = After(EntryFrom + 2)'
    <3>1. After(EntryFrom + 2)' = After(EntryFrom + 2)
      BY <1>5 DEF After, Entry, Global, HasGlobal, EntryFrom
    <3> QED  BY <2>4, <3>1
  <2> QED  BY <1>1, <1>4, <1>5, <1>8, <2>2, <2>3, <2>5 DEF BootInv
<1>12. CASE p # EndOfCode
  <2>1. npc = RESET + (p + 1) /\ pc' = RESET + (p + 1)  BY <1>5, <1>6, <1>7, <1>12
  <2>2. stage' = "boot"
    <3>1. p + 1 \in Nat /\ p + 1 < At(EntryFrom + 4)  BY <1>6, <1>12
    <3>2. npc \in BootPage  BY <2>1, <3>1, CodeInPage
    <3> QED  BY <1>5, <3>2
  <2>3. npc' = IF p + 1 = EndOfCode THEN Entry ELSE RESET + (p + 1) + 1
    <3>1. p + 1 = EndOfCode <=> p = At(EntryFrom + 2)
      <4>1. At(EntryFrom + 2) \in Nat  BY PlaceOfJump
      <4> QED  BY <1>6, <4>1 DEF EndOfCode
    <3>2. CASE p = At(EntryFrom + 2)
      <4>1. instruction[1] = "jr"  BY <1>10, <3>2
      <4> QED  BY <1>5, <1>9, <3>1, <3>2, <4>1
    <3>3. CASE p # At(EntryFrom + 2)
      <4>1. npc' = npc + 1  BY <1>5, <1>9, <3>3
      <4> QED  BY <2>1, <3>1, <3>3, <4>1
    <3> QED  BY <3>2, <3>3
  <2>4. ASSUME NEW j1 \in 0 .. EntryFrom + 3, NEW o1 \in 0 .. NOOP_LOOP,
               At(j1) + o1 = p + 1, Holds(j1, o1)'
        PROVE  BootInv'
    <3>1. /\ pc' = RESET + (At(j1) + o1) /\ At(j1) + o1 <= EndOfCode'
          /\ npc' = IF At(j1) + o1 = EndOfCode' THEN Entry' ELSE pc' + 1
      BY <1>6, <1>8, <1>12, <2>1, <2>3, <2>4
    <3>2. InBoot(j1, o1)'  BY <2>4, <3>1 DEF InBoot
    <3>3. j1 \in (0 .. EntryFrom + 3)'
      <4>1. EntryFrom' = EntryFrom  BY <1>8
      <4> QED  BY <4>1
    <3>4. /\ stage' = "boot" /\ ProcessorTyped' /\ FieldsFit' /\ Entry' = file'.e_entry
      BY <1>1, <1>4, <1>5, <1>8, <2>2
    <3>5. \E a \in (0 .. EntryFrom + 3)', b \in 0 .. NOOP_LOOP : InBoot(a, b)'
      BY <3>2, <3>3
    <3> QED  BY <3>4, <3>5 DEF BootInv
  <2>5. CASE o = NOOP_LOOP
    <3>1. j + 1 \in 0 .. EntryFrom + 3 /\ At(j + 1) + 0 = p + 1
      <4>1. p < EndOfCode  BY <1>6, <1>12
      <4> QED  BY <2>5, <4>1, PlaceOfJump
    <3>2. Holds(j + 1, 0)'  BY <1>4, <2>5
    <3>3. 0 \in 0 .. NOOP_LOOP  BY BootCodeHasPlace
    <3> QED  BY <2>4, <3>1, <3>2, <3>3
  <2>6. CASE o # NOOP_LOOP
    <3>1. o + 1 \in 0 .. NOOP_LOOP /\ At(j) + (o + 1) = p + 1
      <4>1. At(j) \in Nat /\ NOOP_LOOP \in Nat  BY PlaceOfJump, BootCodeHasPlace
      <4> QED  BY <1>6, <2>6, <4>1
    <3>2. Holds(j, o + 1)'  BY <1>4, <2>6
    <3> QED  BY <2>4, <3>1, <3>2
  <2> QED  BY <2>5, <2>6
<1> QED  BY <1>11, <1>12

\* Reading the file sets what the code is made of.
LEMMA BootParsed ==
  ASSUME LoadInv, BootInv, ParseFile
  PROVE  BootInv'
<1>1. /\ stage = "parse" /\ stage' \in {"rejected", "segments"}
      /\ stage' = "segments" => \E garbage \in Garbage : exeFormat' = parse_elf(file, garbage)
      /\ UNCHANGED <<file, delay, pc, npc, Reg, results>>
  BY DEF ParseFile, processor
<1>2. stage' = "segments" => Entry' = file'.e_entry /\ FieldsFit'
  <2> SUFFICES ASSUME NEW garbage \in Garbage, exeFormat' = parse_elf(file, garbage)
               PROVE  Entry' = file'.e_entry /\ FieldsFit'
    BY <1>1
  <2>1. exeFormat'.entryAddr = file.e_entry /\ exeFormat'.globalPointer = GlobalPointer(file, garbage)
    BY DEF parse_elf
  <2>2. file \in Files  BY DEF LoadInv
  <2>3. GSP \in Word /\ file.e_entry \in Word /\ GlobalPointer(file, garbage) \in Word
    BY <2>2, FieldsAreWords
  <2> QED  BY <1>1, <2>1, <2>3 DEF Entry, Global, FieldsFit
<1>3. ProcessorTyped'  BY <1>1 DEF BootInv, ProcessorTyped
<1> QED  BY <1>1, <1>2, <1>3 DEF BootInv

\* The other steps leave the processor alone.
LEMMA BootUnchanged ==
  ASSUME BootInv, UNCHANGED <<file, exeFormat, delay, pc, npc, Reg, results>>,
         stage' = stage \/ (stage \in {"segments", "redirects"} /\ stage' \in {"redirects", "vector"})
  PROVE  BootInv'
<1>1. \A i : After(i)' = After(i) /\ ResultOf(i)' = ResultOf(i)
  BY DEF After, ResultOf, NoResult, Code, Entry, Global, HasGlobal, EntryFrom
<1>2. EndOfCode' = EndOfCode /\ Entry' = Entry /\ EntryFrom' = EntryFrom /\ FieldsFit' = FieldsFit
  BY DEF After, Entry, Global, HasGlobal, EntryFrom, EndOfCode, FieldsFit
<1>3. NoResult' = NoResult  BY DEF NoResult
<1>4. \A j, o : Holds(j, o)' = Holds(j, o)  BY <1>1, <1>3 DEF Holds
<1>5. \A j, o : InBoot(j, o)' = InBoot(j, o)  BY <1>2, <1>4 DEF InBoot
<1>6. After(EntryFrom + 2)' = After(EntryFrom + 2)
  BY DEF After, Entry, Global, HasGlobal, EntryFrom
<1>7. ProcessorTyped' = ProcessorTyped  BY DEF ProcessorTyped
<1> QED  BY <1>2, <1>5, <1>6, <1>7 DEF BootInv

\* Writing the code lets it begin.
LEMMA BootBegins ==
  ASSUME LoadInv, BootInv, WriteVector
  PROVE  BootInv'
<1>1. /\ stage = "vector" /\ stage' = "boot"
      /\ UNCHANGED <<file, exeFormat, delay, pc, npc, Reg, results>>
  BY DEF WriteVector, processor
<1>2. /\ pc = RESET /\ npc = RESET + 1 /\ Reg = [r \in {28, 29, 31} |-> 0] /\ results = <<>>
      /\ Entry = file.e_entry /\ FieldsFit /\ ProcessorTyped
  BY <1>1 DEF BootInv
<1>3. Reg = After(0)  BY <1>2 DEF After, Loaded, EntryFrom
<1>4. Holds(0, 0)
  <2>1. Len(results) = 0  BY <1>2
  <2> QED  BY <1>3, <2>1 DEF Holds
<1>5. At(0) = 0 /\ EndOfCode \in Nat /\ 0 < EndOfCode /\ 0 # EndOfCode
  <2>1. EntryFrom + 2 \in Nat  BY DEF EntryFrom
  <2>2. At(EntryFrom + 2) \in Nat /\ At(0) = 0  BY <2>1, Places
  <2> QED  BY <2>2 DEF EndOfCode
<1>6. InBoot(0, 0)
  <2>1. RESET \in Nat /\ At(0) + 0 = 0  BY <1>5, BootCodeHasPlace
  <2> QED  BY <1>2, <1>4, <1>5, <2>1 DEF InBoot
<1>7. 0 \in 0 .. EntryFrom + 3 /\ 0 \in 0 .. NOOP_LOOP  BY BootCodeHasPlace DEF EntryFrom
<1>8. (InBoot(0, 0))'
  <2>1. Holds(0, 0)' = Holds(0, 0)
    BY <1>1 DEF Holds, After, ResultOf, NoResult, Code, Entry, Global, HasGlobal, EntryFrom
  <2>2. EndOfCode' = EndOfCode /\ Entry' = Entry  BY <1>1 DEF EndOfCode, Entry, EntryFrom, HasGlobal, Global
  <2> QED  BY <1>1, <1>6, <2>1, <2>2 DEF InBoot
<1>9. ProcessorTyped' /\ FieldsFit' /\ Entry' = file'.e_entry /\ (0 \in 0 .. EntryFrom + 3)'
  BY <1>1, <1>2, <1>7 DEF ProcessorTyped, FieldsFit, Entry, Global, EntryFrom, HasGlobal
<1> QED  BY <1>1, <1>7, <1>8, <1>9 DEF BootInv

LEMMA BootInvHolds ==
  /\ Init => BootInv
  /\ LoadInv /\ BootInv /\ [Next]_vars => BootInv'
<1>1. Init => BootInv
  <2> SUFFICES ASSUME Init PROVE BootInv  OBVIOUS
  <2>1. delay \in Delays /\ results = <<>> /\ stage = "parse"  BY DEF Init
  <2>2. delay \in Nat /\ delay > 0  BY <2>1, DelaysAreCovered, BootCodeHasPlace
  <2>3. ProcessorTyped  BY <2>1, <2>2 DEF ProcessorTyped
  <2> QED  BY <2>1, <2>3 DEF Init, BootInv
<1>2. ASSUME LoadInv, BootInv, [Next]_vars PROVE BootInv'
  <2>1. CASE ParseFile  BY <1>2, <2>1, BootParsed
  <2>2. CASE CopySegment
    BY <1>2, <2>2, BootUnchanged DEF CopySegment, processor
  <2>3. CASE FillRedirect
    BY <1>2, <2>3, BootUnchanged DEF FillRedirect, processor
  <2>4. CASE WriteVector  BY <1>2, <2>4, BootBegins
  <2>5. CASE Step  BY <1>2, <2>5, BootMoves
  <2>6. CASE UNCHANGED vars  BY <1>2, <2>6, BootUnchanged DEF vars
  <2> QED  BY <1>2, <2>1, <2>2, <2>3, <2>4, <2>5, <2>6 DEF Next
<1> QED  BY <1>1, <1>2

\* Whatever the processor's delay, it leaves the code's page for the entry of
\* the program, with the pointers in their registers.
THEOREM EntersAtEntryHolds == Spec => []EntersAtEntry
<1>1. BootInv => EntersAtEntry
  <2> SUFFICES ASSUME BootInv, stage = "running" PROVE AtEntry  BY DEF EntersAtEntry
  <2>1. pc = Entry /\ Reg = After(EntryFrom + 2) /\ Entry = file.e_entry  BY DEF BootInv
  <2>2. EntryFrom = (IF HasGlobal THEN 4 ELSE 2)  BY DEF EntryFrom
  <2>3. /\ Reg[29] = GSP /\ Reg[31] = Entry
        /\ Reg[28] = IF HasGlobal THEN Global ELSE 0
    BY <2>1, <2>2 DEF After, Loaded
  <2> QED  BY <2>1, <2>3 DEF AtEntry, HasGlobal, Global
<1> QED  BY <1>1, LoadInvHolds, BootInvHolds, PTL DEF Spec

----------------------------------------------------------------------------
(* Types.                                                                  *)

\* The errors of the header are the nine that main can tell apart.
LEMMA HeaderErrors ==
  ASSUME NEW f
  PROVE  HeaderError(f) \in -10 .. 0
<1> DEFINE faults == {i \in 1 .. Len(HeaderFaults(f)) : HeaderFaults(f)[i]}
           first == IF faults # {} THEN Min(faults) ELSE 0
<1>1. Len(HeaderFaults(f)) = 9  BY DEF HeaderFaults
<1>2. HeaderError(f) = IF first = 0 THEN 0 ELSE -(first + 1)
  BY DEF HeaderError, SelectInSeq
<1>3. faults \subseteq 1 .. 9  BY <1>1
<1> HIDE DEF faults
<1>4. faults # {} => Min(faults) \in 1 .. 9
  <2>1. faults \subseteq Nat  BY <1>3
  <2> QED  BY <1>3, <2>1, Least
<1> QED  BY <1>2, <1>4

LEMMA LoadErrors == LoadError \in -10 .. 0
BY HeaderErrors DEF LoadError

\* What Assigned's loop has found after symbol i.
Find(found, symbols, addresses, pointers, i) ==
  IF i = 0 THEN addresses
  ELSE IF symbols[i].type = "STT_FUNC" /\ symbols[i].name \in DOMAIN pointers
       THEN [found[i - 1] EXCEPT ![pointers[symbols[i].name]] = symbols[i].value] ELSE found[i - 1]

IsFound(found, symbols, addresses, pointers, n) ==
  found = [i \in 0 .. n |-> Find(found, symbols, addresses, pointers, i)]

LEMMA SearchIsDefined ==
  ASSUME NEW symbols, NEW addresses, NEW pointers, NEW n \in Nat
  PROVE  \E found : IsFound(found, symbols, addresses, pointers, n)
<1> DEFINE F(k, i) == Find(k, symbols, addresses, pointers, i)
           Is(k, m) == IsFound(k, symbols, addresses, pointers, m)
           Defined == {m \in 0 .. n : \E k : Is(k, m)}
<1>1. 0 \in Defined
  <2> DEFINE k == [i \in 0 .. 0 |-> addresses]
  <2>1. Is(k, 0)  BY DEF IsFound, Find
  <2> QED  BY <2>1
<1>2. ASSUME NEW m \in 0 .. n - 1, m \in Defined
      PROVE  m + 1 \in Defined
  <2>1. PICK k : Is(k, m)  BY <1>2
  <2> DEFINE longer == [i \in 0 .. m + 1 |-> IF i = m + 1 THEN F(k, m + 1) ELSE k[i]]
  <2>2. ASSUME NEW i \in 0 .. m + 1 PROVE longer[i] = F(longer, i)
    <3>1. i # 0 => longer[i - 1] = k[i - 1]  OBVIOUS
    <3>2. F(longer, i) = F(k, i)
      <4> HIDE DEF longer
      <4> QED  BY <3>1 DEF Find
    <3>3. i # m + 1 => k[i] = F(k, i)
      <4>1. i # m + 1 => i \in 0 .. m  OBVIOUS
      <4> QED  BY <2>1, <4>1, Zenon DEF IsFound
    <3>4. longer[i] = IF i = m + 1 THEN F(k, m + 1) ELSE k[i]  OBVIOUS
    <3> HIDE DEF longer, F
    <3> QED  BY <3>2, <3>3, <3>4
  <2>3. longer = [i \in 0 .. m + 1 |-> longer[i]]  OBVIOUS
  <2> HIDE DEF longer
  <2>4. Is(longer, m + 1)  BY <2>2, <2>3, Zenon DEF IsFound
  <2>5. m + 1 \in 0 .. n  OBVIOUS
  <2> QED  BY <2>4, <2>5
<1>3. 0 .. n \subseteq Defined
  <2> HIDE DEF Defined
  <2> QED  BY <1>1, <1>2, UpTo
<1> QED  BY <1>3

\* Symbols put addresses in slots.
LEMMA AssignedIsTyped ==
  ASSUME NEW f, NEW addresses \in [Slots -> Addresses], NEW pointers,
         Symbols(f) \in Seq(SymbolEntries),
         \A symbol \in Range(Symbols(f)) : symbol.value \in Addresses
  PROVE  Assigned(addresses, pointers, f) \in [Slots -> Addresses]
<1> DEFINE symbols == Symbols(f)
           n == Len(symbols)
           found == CHOOSE k : IsFound(k, symbols, addresses, pointers, n)
<1>1. n \in Nat /\ \A i \in 1 .. n : symbols[i].value \in Addresses
  <2>1. symbols \in Seq(SymbolEntries) /\ \A symbol \in Range(symbols) : symbol.value \in Addresses
    OBVIOUS
  <2> HIDE DEF symbols
  <2> QED  BY <2>1 DEF Range
<1>2. IsFound(found, symbols, addresses, pointers, n)
  <2> HIDE DEF symbols, n
  <2> QED  BY <1>1, SearchIsDefined
<1>3. Assigned(addresses, pointers, f) = found[n]
  BY Zenon DEF Assigned, IsFound, Find
<1> HIDE DEF found, n, symbols
<1>4. \A i \in 0 .. n : found[i] = Find(found, symbols, addresses, pointers, i)
  BY <1>2, Zenon DEF IsFound
<1> DEFINE Typed == {m \in 0 .. n : found[m] \in [Slots -> Addresses]}
<1>5. 0 \in Typed
  <2>1. 0 \in 0 .. n  BY <1>1
  <2>2. found[0] = addresses  BY <1>4, <2>1 DEF Find
  <2> QED  BY <2>1, <2>2
<1>6. ASSUME NEW m \in 0 .. n - 1, m \in Typed
      PROVE  m + 1 \in Typed
  <2>1. m + 1 \in 0 .. n /\ m + 1 \in 1 .. n /\ m + 1 # 0 /\ (m + 1) - 1 = m  BY <1>1
  <2>2. found[m + 1] = Find(found, symbols, addresses, pointers, m + 1)  BY <1>4, <2>1
  <2>3. symbols[m + 1].value \in Addresses  BY <1>1, <2>1
  <2>4. found[m] \in [Slots -> Addresses]  BY <1>6
  <2>5. found[m + 1] \in {found[m], [found[m] EXCEPT ![pointers[symbols[m + 1].name]] = symbols[m + 1].value]}
    BY <2>1, <2>2 DEF Find
  <2> QED  BY <2>1, <2>3, <2>4, <2>5
<1>7. 0 .. n \subseteq Typed
  <2> HIDE DEF Typed
  <2> QED  BY <1>1, <1>5, <1>6, UpTo
<1> QED  BY <1>1, <1>3, <1>7

LEMMA SymbolsAreTyped ==
  ASSUME NEW f, WellFormed(f)
  PROVE  Symbols(f) \in Seq(SymbolEntries)
<1> DEFINE I(type) == {i \in 1 .. Len(f.shdrs) : f.shdrs[i].name = ".symtab" /\ f.shdrs[i].sh_type = type}
           tables == I("SHT_SYMTAB")
           symtab == IF tables # {} THEN Max(tables) ELSE 0
<1>1. f.shdrs \in Seq(SectionHeaders)  BY DEF WellFormed
<1>2. Len(f.shdrs) \in Nat /\ \A i \in 1 .. Len(f.shdrs) : f.shdrs[i] \in SectionHeaders
  <2> DEFINE shdrs == f.shdrs
  <2>1. shdrs \in Seq(SectionHeaders)  BY <1>1
  <2> HIDE DEF shdrs
  <2>2. Len(shdrs) \in Nat /\ \A i \in 1 .. Len(shdrs) : shdrs[i] \in SectionHeaders  BY <2>1
  <2> QED  BY <2>2 DEF shdrs
<1>3. Section(f, ".symtab", "SHT_SYMTAB") = symtab
  BY DEF Section, SelectLastInSeq
<1>4. tables \subseteq 1 .. Len(f.shdrs)  OBVIOUS
<1> HIDE DEF tables
<1>5. symtab # 0 => symtab \in 1 .. Len(f.shdrs)
  BY <1>2, <1>4, Largest
<1> HIDE DEF symtab
<1>6. symtab # 0 => f.shdrs[symtab].symbols \in Seq(SymbolEntries)
  <2> SUFFICES ASSUME symtab # 0 PROVE f.shdrs[symtab].symbols \in Seq(SymbolEntries)  OBVIOUS
  <2>1. PICK header : header = f.shdrs[symtab]  OBVIOUS
  <2>2. header \in SectionHeaders  BY <1>2, <1>5, <2>1
  <2>3. header.symbols \in Seq(SymbolEntries)  BY <2>2 DEF SectionHeaders
  <2> QED  BY <2>1, <2>3
<1>7. <<>> \in Seq(SymbolEntries)  OBVIOUS
<1>8. Symbols(f) \in {<<>>, f.shdrs[symtab].symbols} /\ (symtab = 0 => Symbols(f) = <<>>)
  BY <1>3, Zenon DEF Symbols
<1> QED  BY <1>6, <1>7, <1>8

TypeInv ==
  /\ stage \in {"parse", "rejected", "segments", "redirects", "vector", "boot", "running"}
  /\ rv \in -10 .. 0 /\ (rv # 0 <=> stage = "rejected")
  /\ syscalls \in [Slots -> Addresses]

LEMMA TypeInvHolds ==
  /\ Init => TypeInv
  /\ LoadInv /\ TypeInv /\ [Next]_vars => TypeInv'
<1>1. init_syscalls \in [Slots -> Addresses]
  BY ProgramsHavePlaces DEF init_syscalls
<1>2. Init => TypeInv  BY <1>1 DEF Init, TypeInv
<1>3. ASSUME LoadInv, TypeInv, [Next]_vars PROVE TypeInv'
  <2>1. CASE ParseFile
    <3>1. stage = "parse" /\ rv' = LoadError /\ LoadError \in -10 .. 0
      BY <2>1, LoadErrors DEF ParseFile
    <3>2. CASE LoadError # 0
      <4>1. stage' = "rejected" /\ syscalls' = syscalls  BY <2>1, <3>2, Zenon DEF ParseFile
      <4> QED  BY <1>3, <3>1, <3>2, <4>1 DEF TypeInv
    <3>3. CASE LoadError = 0
      <4>1. stage' = "segments" /\ syscalls' = Assigned(init_syscalls, function_pointers, file)
        BY <2>1, <3>3, Zenon DEF ParseFile
      <4>2. file \in Files  BY <1>3 DEF LoadInv
      <4>3. Assigned(init_syscalls, function_pointers, file) \in [Slots -> Addresses]
        <5>1. WellFormed(file) /\ \A symbol \in Range(Symbols(file)) : symbol.value \in Addresses
          BY <4>2, FilesAreWellFormed, ProgramsHavePlaces
        <5>2. Symbols(file) \in Seq(SymbolEntries)  BY <5>1, SymbolsAreTyped
        <5> QED  BY <1>1, <5>1, <5>2, AssignedIsTyped
      <4> QED  BY <3>1, <3>3, <4>1, <4>3 DEF TypeInv
    <3> QED  BY <3>2, <3>3
  <2>2. CASE CopySegment  BY <1>3, <2>2 DEF CopySegment, TypeInv
  <2>3. CASE FillRedirect  BY <1>3, <2>3 DEF FillRedirect, TypeInv
  <2>4. CASE WriteVector  BY <1>3, <2>4 DEF WriteVector, TypeInv
  <2>5. CASE Step
    <3>1. stage = "boot" /\ stage' \in {"boot", "running"} /\ UNCHANGED <<rv, syscalls>>
      BY <2>5 DEF Step
    <3> QED  BY <1>3, <3>1 DEF TypeInv
  <2>6. CASE UNCHANGED vars  BY <1>3, <2>6 DEF vars, TypeInv
  <2> QED  BY <1>3, <2>1, <2>2, <2>3, <2>4, <2>5, <2>6 DEF Next
<1> QED  BY <1>2, <1>3

\* Variables keep to their values.  The processor fetches from memory that
\* there is, registers hold words, and of the results in flight there are
\* fewer than the delay.
THEOREM TypeCorrect == Spec => []TypeOK
<1>1. LoadInv /\ BootInv /\ TypeInv => TypeOK
  <2> SUFFICES ASSUME LoadInv, BootInv, TypeInv PROVE TypeOK  OBVIOUS
  <2>1. DOMAIN MAIN_MEMORY = Addresses
    <3>1. MAIN_MEMORY = [a \in Addresses |-> MAIN_MEMORY[a]]  BY DEF LoadInv
    <3> QED  BY <3>1
  <2>2. Len(results) < delay  BY DEF BootInv, ProcessorTyped
  <2>3. 0 \in Word  BY FieldsAreWords DEF Word
  <2>4. /\ At(EntryFrom + 2) \in Nat /\ EndOfCode < At(EntryFrom + 4) /\ EndOfCode \in Nat
        /\ EndOfCode >= 1 /\ RESET \in Nat
    <3>1. 0 \in 0 .. EntryFrom + 3 /\ 0 \in 0 .. NOOP_LOOP  BY BootCodeHasPlace DEF EntryFrom
    <3>2. At(EntryFrom + 2) \in Nat /\ EndOfCode <= At(EntryFrom + 4) - 1  BY <3>1, PlaceOfJump
    <3>3. At(EntryFrom + 4) \in Nat /\ RESET \in Nat  BY CodeInPage
    <3> QED  BY <3>2, <3>3 DEF EndOfCode
  <2>5. \A k \in 0 .. EndOfCode : RESET + k \in Addresses
    <3> TAKE k \in 0 .. EndOfCode
    <3>1. k \in Nat /\ k < At(EntryFrom + 4)  BY <2>4, CodeInPage
    <3> QED  BY <3>1, CodeInPage
  <2>6. stage \notin {"parse", "rejected"} =>
          /\ Entry \in Addresses /\ Entry + 1 \in Addresses /\ FieldsFit
    BY ProgramsHavePlaces DEF LoadInv, BootInv
  <2>7. pc \in Addresses /\ npc \in Addresses
    <3>1. CASE stage \notin {"boot", "running"}
      <4>1. pc = RESET + 0 /\ npc = RESET + 1  BY <2>4, <3>1 DEF BootInv
      <4>2. 0 \in 0 .. EndOfCode /\ 1 \in 0 .. EndOfCode  BY <2>4
      <4> QED  BY <2>5, <4>1, <4>2
    <3>2. CASE stage = "boot"
      <4>1. PICK j \in 0 .. EntryFrom + 3, o \in 0 .. NOOP_LOOP : InBoot(j, o)
        BY <3>2 DEF BootInv
      <4>2. PICK p : p = At(j) + o  OBVIOUS
      <4>3. /\ p \in 0 .. EndOfCode /\ pc = RESET + p
            /\ npc = IF p = EndOfCode THEN Entry ELSE pc + 1
        <5>1. At(j) \in Nat /\ o \in Nat  BY PlaceOfJump, BootCodeHasPlace
        <5> QED  BY <2>4, <4>1, <4>2, <5>1 DEF InBoot
      <4>4. p # EndOfCode => npc = RESET + (p + 1) /\ p + 1 \in 0 .. EndOfCode
        BY <2>4, <4>3
      <4> QED  BY <2>5, <2>6, <3>2, <4>3, <4>4
    <3>3. CASE stage = "running"  BY <2>6, <3>3 DEF BootInv
    <3> QED  BY <3>1, <3>2, <3>3
  <2>8. \A r \in DOMAIN Reg : Reg[r] \in Word
    <3>1. CASE stage \notin {"boot", "running"}  BY <2>3, <3>1 DEF BootInv
    <3>2. CASE stage \in {"boot", "running"}
      <4>1. \E i : Reg = After(i)  BY <3>2 DEF BootInv, InBoot, Holds
      <4> QED  BY <2>6, <3>2, <4>1, AfterIsWords
    <3> QED  BY <3>1, <3>2
  <2> QED  BY <2>1, <2>2, <2>7, <2>8 DEF TypeOK, TypeInv
<1> QED  BY <1>1, LoadInvHolds, BootInvHolds, TypeInvHolds, PTL DEF Spec

----------------------------------------------------------------------------
(* The older loader.                                                       *)

\* What Taken's loop has after token i, and Data's after line i.
Take(taken, tokens, i) ==
  IF i = 0 THEN <<>>
  ELSE IF tokens[i].digits = 8 THEN Append(taken[i - 1], tokens[i].value) ELSE taken[i - 1]

IsTaken(taken, tokens, n) == taken = [i \in 0 .. n |-> Take(taken, tokens, i)]

Join(data, lines, i) ==
  IF i = 0 THEN <<>>
  ELSE IF lines[i].heading THEN data[i - 1] ELSE data[i - 1] \o Taken(lines[i])

IsJoined(data, lines, n) == data = [i \in 0 .. n |-> Join(data, lines, i)]

\* Each loop has one course only.
LEMMA TakenIs ==
  ASSUME NEW line, NEW c, Len(Cut(line)) \in Nat, IsTaken(c, Cut(line), Len(Cut(line)))
  PROVE  Taken(line) = c[Len(Cut(line))]
<1> DEFINE tokens == Cut(line)
           n == Len(tokens)
           k == CHOOSE k : IsTaken(k, tokens, n)
<1>1. IsTaken(k, tokens, n)  BY Zenon
<1>2. Taken(line) = k[n]  BY Zenon DEF Taken, IsTaken, Take
<1>3. n \in Nat /\ IsTaken(c, tokens, n)  OBVIOUS
<1> HIDE DEF k, n, tokens
<1>4. \A i \in 0 .. n : k[i] = Take(k, tokens, i) /\ c[i] = Take(c, tokens, i)
  BY <1>1, <1>3, Zenon DEF IsTaken
<1> DEFINE Same == {m \in 0 .. n : k[m] = c[m]}
<1>5. 0 \in Same  BY <1>3, <1>4 DEF Take
<1>6. ASSUME NEW m \in 0 .. n - 1, m \in Same PROVE m + 1 \in Same
  <2>1. m + 1 \in 0 .. n /\ m + 1 # 0 /\ (m + 1) - 1 = m /\ k[m] = c[m]  BY <1>3, <1>6
  <2>2. Take(k, tokens, m + 1) = Take(c, tokens, m + 1)  BY <2>1 DEF Take
  <2> QED  BY <1>4, <2>1, <2>2
<1>7. 0 .. n \subseteq Same
  <2> HIDE DEF Same
  <2> QED  BY <1>3, <1>5, <1>6, UpTo
<1>8. k[n] = c[n]  BY <1>3, <1>7
<1> QED  BY <1>2, <1>8 DEF n, tokens

LEMMA DataIs ==
  ASSUME NEW lines, NEW c, Len(lines) \in Nat, IsJoined(c, lines, Len(lines))
  PROVE  Data(lines) = c[Len(lines)]
<1> DEFINE n == Len(lines)
           k == CHOOSE k : IsJoined(k, lines, n)
<1>1. IsJoined(k, lines, n)  BY Zenon
<1>2. Data(lines) = k[n]  BY Zenon DEF Data, IsJoined, Join
<1>3. n \in Nat /\ IsJoined(c, lines, n)  OBVIOUS
<1> HIDE DEF k, n
<1>4. \A i \in 0 .. n : k[i] = Join(k, lines, i) /\ c[i] = Join(c, lines, i)
  BY <1>1, <1>3, Zenon DEF IsJoined
<1> DEFINE Same == {m \in 0 .. n : k[m] = c[m]}
<1>5. 0 \in Same  BY <1>3, <1>4 DEF Join
<1>6. ASSUME NEW m \in 0 .. n - 1, m \in Same PROVE m + 1 \in Same
  <2>1. m + 1 \in 0 .. n /\ m + 1 # 0 /\ (m + 1) - 1 = m /\ k[m] = c[m]  BY <1>3, <1>6
  <2>2. Join(k, lines, m + 1) = Join(c, lines, m + 1)  BY <2>1 DEF Join
  <2> QED  BY <1>4, <2>1, <2>2
<1>7. 0 .. n \subseteq Same
  <2> HIDE DEF Same
  <2> QED  BY <1>3, <1>5, <1>6, UpTo
<1>8. k[n] = c[n]  BY <1>3, <1>7
<1> QED  BY <1>2, <1>8 DEF n

\* The whole words of a section, and how many of them the first l lines have.
WordsOf(s) == [k \in 1 .. s.sh_size |-> file.words[s.sh_offset + k - 1]]
Values == {file.words[k] : k \in Int}

Shown(s, l) == IF 4 * l < s.sh_size THEN 4 * l ELSE s.sh_size

\* Words of a line, count of them whole, and perhaps one cut short.
Printed(line, s, from, count) ==
  \E m \in {count, count + 1} : \E cut :
    /\ cut.digits # 8
    /\ line.words = [w \in 1 .. m |->
                       IF w <= count THEN [digits |-> 8, value |-> WordsOf(s)[from + w]] ELSE cut]

\* A dump of those words, with n lines of data, whatever their addresses.
Shows(line, s, l) ==
  /\ "address" \in DOMAIN line /\ line.heading = FALSE /\ line.address.digits = 10
  /\ Printed(line, s, Shown(s, l - 1), Shown(s, l) - Shown(s, l - 1))

IsDump(lines, s, n) ==
  /\ Len(lines) = n + 1 /\ lines[1] = Heading
  /\ \A l \in 1 .. n : Shows(lines[l + 1], s, l)

\* The address of a line is not taken for a word, nor is one cut short; its
\* other words all are.
LEMMA LineTaken ==
  ASSUME NEW s, s.sh_size \in Nat, s.sh_offset \in Nat, NEW l \in Nat \ {0}, NEW line, Shows(line, s, l)
  PROVE  Taken(line) = SubSeq(WordsOf(s), Shown(s, l - 1) + 1, Shown(s, l))
<1> DEFINE from == Shown(s, l - 1)
           count == Shown(s, l) - from
           words == WordsOf(s)
           tokens == Cut(line)
<1>1. /\ from \in Nat /\ count \in Nat /\ from + count <= s.sh_size /\ from + count = Shown(s, l)
  BY DEF Shown
<1>2. /\ words \in Seq(Values) /\ Len(words) = s.sh_size
  <2>1. \A k \in 1 .. s.sh_size : file.words[s.sh_offset + k - 1] \in Values  BY DEF Values
  <2>2. words = [k \in 1 .. s.sh_size |-> file.words[s.sh_offset + k - 1]]  BY DEF WordsOf
  <2> HIDE DEF words
  <2> QED  BY <2>1, <2>2
<1>0. PICK m \in {count, count + 1} : \E cut :
        /\ cut.digits # 8
        /\ line.words = [w \in 1 .. m |->
                           IF w <= count THEN [digits |-> 8, value |-> words[from + w]] ELSE cut]
  BY Zenon DEF Shows, Printed
<1>3. PICK cut :
        /\ m \in {count, count + 1} /\ cut.digits # 8
        /\ line.words = [w \in 1 .. m |->
                           IF w <= count THEN [digits |-> 8, value |-> words[from + w]] ELSE cut]
  BY <1>0, Zenon
<1> DEFINE Token == {line.address, cut} \cup {[digits |-> 8, value |-> words[from + w]] : w \in 1 .. count}
           c == [i \in 0 .. m + 1 |->
                   IF i <= count + 1 THEN SubSeq(words, from + 1, from + i - 1)
                   ELSE SubSeq(words, from + 1, from + count)]
<1>4. /\ m \in Nat /\ line.words \in Seq(Token) /\ Len(line.words) = m
      /\ \A w \in 1 .. m : w <= count => line.words[w] = [digits |-> 8, value |-> words[from + w]]
      /\ \A w \in 1 .. m : w > count => line.words[w] = cut
  <2>1. \A w \in 1 .. count : [digits |-> 8, value |-> words[from + w]] \in Token  OBVIOUS
  <2>2. cut \in Token  OBVIOUS
  <2>3. m \in Nat /\ count \in Nat  BY <1>1, <1>3
  <2> HIDE DEF count, from, words, Token
  <2>4. \A w \in 1 .. m : w <= count => w \in 1 .. count  BY <2>3
  <2>5. \A w \in 1 .. m :
          (IF w <= count THEN [digits |-> 8, value |-> words[from + w]] ELSE cut) \in Token
    BY <2>1, <2>2, <2>4
  <2>6. line.words \in [1 .. m -> Token]  BY <1>3, <2>5
  <2>7. line.words \in Seq(Token)  BY <2>3, <2>6
  <2>8. Len(line.words) = m  BY <1>3, <2>3
  <2>9. \A w \in 1 .. m : w > count => ~(w <= count)  BY <2>3
  <2> QED  BY <1>3, <2>3, <2>7, <2>8, <2>9
<1>5. <<line.address>> \in Seq(Token) /\ Len(<<line.address>>) = 1  OBVIOUS
<1>6. tokens = <<line.address>> \o line.words  BY DEF Cut
<1>7. line.address.digits = 10  BY DEF Shows
<1> HIDE DEF Token, from, count, words, tokens
<1>8. /\ Len(tokens) = m + 1 /\ tokens[1] = line.address
      /\ \A i \in 2 .. m + 1 : tokens[i] = line.words[i - 1]
  BY <1>4, <1>5, <1>6, ConcatProperties
<1>9. ASSUME NEW i \in 0 .. m + 1 PROVE c[i] = Take(c, tokens, i)
  <2>1. /\ i <= count + 1 => c[i] = SubSeq(words, from + 1, from + i - 1)
        /\ i > count + 1 => c[i] = SubSeq(words, from + 1, from + count)
    BY <1>1
  <2>2. i # 0 /\ i <= count + 2 => c[i - 1] = SubSeq(words, from + 1, from + (i - 1) - 1)
    <3>1. i # 0 /\ i <= count + 2 => i - 1 \in 0 .. m + 1 /\ i - 1 <= count + 1  BY <1>1, <1>4
    <3> QED  BY <3>1
  <2> HIDE DEF c
  <2>3. CASE i = 0
    <3>1. SubSeq(words, from + 1, from + i - 1) = <<>>  BY <1>1, <2>3, SubSeqEmpty
    <3>2. i <= count + 1  BY <1>1, <2>3
    <3> QED  BY <2>1, <2>3, <3>1, <3>2 DEF Take
  <2>4. CASE i = 1
    <3>1. Take(c, tokens, i) = c[i - 1]  BY <1>7, <1>8, <2>4 DEF Take
    <3>2. /\ from + 1 \in Int /\ from + i - 1 \in Int /\ from + i - 1 < from + 1
          /\ from + (i - 1) - 1 \in Int /\ from + (i - 1) - 1 < from + 1 /\ i <= count + 1
      BY <1>1, <2>4
    <3>3. SubSeq(words, from + 1, from + i - 1) = <<>>  BY <3>2, SubSeqEmpty
    <3>4. SubSeq(words, from + 1, from + (i - 1) - 1) = <<>>  BY <3>2, SubSeqEmpty
    <3>5. c[i - 1] = SubSeq(words, from + 1, from + (i - 1) - 1)  BY <1>1, <2>2, <2>4
    <3> QED  BY <2>1, <3>1, <3>2, <3>3, <3>4, <3>5, Zenon
  <2>5. CASE i > 1 /\ i <= count + 1
    <3> DEFINE so == SubSeq(words, from + 1, from + (i - 1) - 1)
    <3>1. i - 1 \in 1 .. count /\ i - 1 \in 1 .. m /\ i - 1 <= count /\ i \in 2 .. m + 1 /\ i # 0
      BY <1>1, <1>4, <2>5
    <3>2. tokens[i] = [digits |-> 8, value |-> words[from + (i - 1)]]  BY <1>4, <1>8, <3>1
    <3>3. Take(c, tokens, i) = Append(so, words[from + (i - 1)])
      <4>1. c[i - 1] = so  BY <1>1, <2>2, <2>5, <3>1
      <4>2. tokens[i].digits = 8 /\ tokens[i].value = words[from + (i - 1)]  BY <3>2
      <4> QED  BY <3>1, <4>1, <4>2, Zenon DEF Take
    <3>4. /\ from + 1 \in 1 .. Len(words) /\ from + i - 1 \in from + 1 .. Len(words)
          /\ (from + i - 1) - 1 = from + (i - 1) - 1 /\ from + (i - 1) = from + i - 1
      BY <1>1, <1>2, <3>1
    <3>5. SubSeq(words, from + 1, from + i - 1) = so \o <<words[from + i - 1]>>
      BY <1>2, <3>4, SubSeqRecursiveSecond
    <3>6. so \in Seq(Values)
      <4>1. \A k \in from + 1 .. from + (i - 1) - 1 : words[k] \in Values
        BY <1>1, <1>2, <3>1
      <4>2. from + 1 \in Int /\ from + (i - 1) - 1 \in Int  BY <1>1
      <4> QED  BY <4>1, <4>2, SubSeqProperties
    <3>7. words[from + i - 1] \in Values  BY <1>2, <3>4
    <3> HIDE DEF so
    <3>8. so \o <<words[from + i - 1]>> = Append(so, words[from + i - 1])
      BY <3>6, <3>7, AppendIsConcat
    <3> QED  BY <2>1, <2>5, <3>3, <3>4, <3>5, <3>8
  <2>6. CASE i = count + 2
    <3>1. i - 1 \in 1 .. m /\ i - 1 > count /\ i \in 2 .. m + 1 /\ i # 0 /\ i > count + 1
      BY <1>1, <1>4, <2>6
    <3>2. tokens[i] = cut  BY <1>4, <1>8, <3>1
    <3>3. Take(c, tokens, i) = c[i - 1]  BY <1>3, <3>1, <3>2, Zenon DEF Take
    <3>4. from + (i - 1) - 1 = from + count /\ i <= count + 2  BY <1>1, <2>6
    <3>5. c[i - 1] = SubSeq(words, from + 1, from + count)  BY <2>2, <3>1, <3>4
    <3>6. c[i] = SubSeq(words, from + 1, from + count)  BY <2>1, <3>1
    <3> QED  BY <3>3, <3>5, <3>6, Zenon
  <2>7. i <= count + 1 \/ i = count + 2  BY <1>1, <1>3
  <2>8. i = 0 \/ i = 1 \/ (i > 1 /\ i <= count + 1) \/ i = count + 2  BY <1>1, <2>7
  <2> QED  BY <2>3, <2>4, <2>5, <2>6, <2>8
<1>10. IsTaken(c, tokens, m + 1)
  <2>1. c = [i \in 0 .. m + 1 |-> c[i]]  OBVIOUS
  <2> HIDE DEF c
  <2> QED  BY <1>9, <2>1, Zenon DEF IsTaken
<1>11. c[m + 1] = SubSeq(words, from + 1, from + count)
  <2>1. (m = count \/ m = count + 1) /\ m \in Nat  BY <1>3, <1>4
  <2>2. m + 1 \in 0 .. m + 1 /\ (m + 1 <= count + 1 => from + (m + 1) - 1 = from + count)
    BY <1>1, <2>1
  <2> QED  BY <2>2
<1> HIDE DEF c
<1>12. Taken(line) = c[m + 1]
  <2>1. Len(tokens) = m + 1 /\ m + 1 \in Nat  BY <1>4, <1>8
  <2>2. Len(Cut(line)) \in Nat /\ IsTaken(c, Cut(line), Len(Cut(line)))  BY <1>10, <2>1 DEF tokens
  <2>3. Taken(line) = c[Len(Cut(line))]  BY <2>2, TakenIs
  <2> QED  BY <2>1, <2>3 DEF tokens
<1> QED  BY <1>1, <1>11, <1>12 DEF from, words

\* The words of a dump are the section's, in their order.
LEMMA DumpData ==
  ASSUME NEW s, s.sh_size \in Nat, s.sh_offset \in Nat, NEW n \in Nat \ {0}, NEW lines,
         IsDump(lines, s, n), Shown(s, n) = s.sh_size
  PROVE  Data(lines) = WordsOf(s)
<1> DEFINE words == WordsOf(s)
           c == [i \in 0 .. n + 1 |-> SubSeq(words, 1, Shown(s, i - 1))]
<1>1. /\ words \in Seq(Values) /\ Len(words) = s.sh_size
  <2>1. \A k \in 1 .. s.sh_size : file.words[s.sh_offset + k - 1] \in Values  BY DEF Values
  <2>2. words = [k \in 1 .. s.sh_size |-> file.words[s.sh_offset + k - 1]]  BY DEF WordsOf
  <2> HIDE DEF words
  <2> QED  BY <2>1, <2>2
<1>2. \A l \in 1 .. n : Taken(lines[l + 1]) = SubSeq(words, Shown(s, l - 1) + 1, Shown(s, l))
  <2> TAKE l \in 1 .. n
  <2>1. l \in Nat \ {0} /\ Shows(lines[l + 1], s, l)  BY Zenon, SMT DEF IsDump
  <2> QED  BY <2>1, LineTaken, Zenon
<1>3. /\ Len(lines) = n + 1 /\ lines[1].heading = TRUE
      /\ \A l \in 1 .. n : lines[l + 1].heading = FALSE
  <2>1. Len(lines) = n + 1 /\ lines[1] = Heading /\ \A l \in 1 .. n : Shows(lines[l + 1], s, l)
    BY Zenon DEF IsDump
  <2>2. Heading.heading = TRUE  BY DEF Heading
  <2>3. \A l \in 1 .. n : lines[l + 1].heading = FALSE
    BY <2>1, Zenon DEF Shows
  <2> QED  BY <2>1, <2>2, <2>3, Zenon
<1> HIDE DEF words
<1>4. ASSUME NEW i \in 0 .. n + 1 PROVE c[i] = Join(c, lines, i)
  <2>1. c[i] = SubSeq(words, 1, Shown(s, i - 1))  OBVIOUS
  <2>2. i # 0 => c[i - 1] = SubSeq(words, 1, Shown(s, (i - 1) - 1))
    <3>1. i # 0 => i - 1 \in 0 .. n + 1  OBVIOUS
    <3> QED  BY <3>1, Zenon
  <2> HIDE DEF c
  <2>3. ASSUME NEW k \in Int, k < 1 PROVE SubSeq(words, 1, k) = <<>>
    BY <2>3, SubSeqEmpty
  <2>4. CASE i = 0
    <3>1. Shown(s, i - 1) \in Int /\ Shown(s, i - 1) < 1  BY <2>4 DEF Shown
    <3> QED  BY <2>1, <2>3, <2>4, <3>1 DEF Join
  <2>5. CASE i = 1
    <3>1. Shown(s, i - 1) \in Int /\ Shown(s, i - 1) < 1  BY <2>5 DEF Shown
    <3>2. Shown(s, (i - 1) - 1) \in Int /\ Shown(s, (i - 1) - 1) < 1  BY <2>5 DEF Shown
    <3>3. c[i] = <<>> /\ c[i - 1] = <<>>  BY <2>1, <2>2, <2>3, <2>5, <3>1, <3>2
    <3> QED  BY <1>3, <2>5, <3>3 DEF Join
  <2>6. CASE i > 1
    <3>1. PICK l \in 1 .. n : i = l + 1 /\ l = i - 1
      <4>1. i - 1 \in 1 .. n /\ i = (i - 1) + 1  BY <2>6
      <4> QED  BY <4>1
    <3>2. Shown(s, l - 1) \in 0 .. Len(words) /\ Shown(s, l) \in Shown(s, l - 1) .. Len(words)
      BY <1>1 DEF Shown
    <3>3. c[l] = SubSeq(words, 1, Shown(s, l - 1))  BY <2>2, <2>6, <3>1
    <3>4. c[i] = SubSeq(words, 1, Shown(s, l))  BY <2>1, <3>1
    <3>5. Join(c, lines, i) = c[l] \o Taken(lines[i])
      <4>1. lines[i].heading = FALSE /\ i # 0 /\ i - 1 = l  BY <1>3, <2>6, <3>1
      <4> QED  BY <4>1 DEF Join
    <3>6. Taken(lines[i]) = SubSeq(words, Shown(s, l - 1) + 1, Shown(s, l))  BY <1>2, <3>1
    <3>7. 1 \in 1 .. Len(words) + 1 /\ Shown(s, l - 1) \in 1 - 1 .. Len(words)  BY <1>1, <3>2
    <3>8. SubSeq(words, 1, Shown(s, l - 1)) \o SubSeq(words, Shown(s, l - 1) + 1, Shown(s, l))
            = SubSeq(words, 1, Shown(s, l))
      BY <1>1, <3>2, <3>7, ConcatAdjacentSubSeq
    <3> QED  BY <3>3, <3>4, <3>5, <3>6, <3>8
  <2> QED  BY <2>4, <2>5, <2>6
<1>5. IsJoined(c, lines, n + 1)
  <2>1. c = [i \in 0 .. n + 1 |-> c[i]]  OBVIOUS
  <2> HIDE DEF c
  <2> QED  BY <1>4, <2>1, Zenon DEF IsJoined
<1>6. c[n + 1] = words
  <2>1. c[n + 1] = SubSeq(words, 1, Shown(s, (n + 1) - 1))  OBVIOUS
  <2>2. Shown(s, (n + 1) - 1) = Len(words)  BY <1>1
  <2> HIDE DEF c
  <2> QED  BY <1>1, <2>1, <2>2, SubSeqFull
<1> HIDE DEF c
<1>7. Data(lines) = c[n + 1]  BY <1>3, <1>5, DataIs
<1> QED  BY <1>6, <1>7 DEF words

\* Its first line of data is the second.
LEMMA SecondLine ==
  ASSUME NEW s, NEW n \in Nat \ {0}, NEW lines, IsDump(lines, s, n)
  PROVE  FirstLine(lines) = 2
<1> DEFINE I == {i \in 1 .. Len(lines) : ~lines[i].heading}
<1>1. FirstLine(lines) = IF I # {} THEN Min(I) ELSE 0
  BY DEF FirstLine, SelectInSeq
<1>2. /\ Len(lines) = n + 1 /\ lines[1].heading = TRUE
      /\ \A l \in 1 .. n : lines[l + 1].heading = FALSE
  <2>1. Len(lines) = n + 1 /\ lines[1] = Heading /\ \A l \in 1 .. n : Shows(lines[l + 1], s, l)
    BY Zenon DEF IsDump
  <2>2. Heading.heading = TRUE  BY DEF Heading
  <2>3. \A l \in 1 .. n : lines[l + 1].heading = FALSE
    BY <2>1, Zenon DEF Shows
  <2> QED  BY <2>1, <2>2, <2>3, Zenon
<1>3. I = 2 .. n + 1
  <2>1. \A i \in 2 .. n + 1 : lines[i].heading = FALSE
    <3> TAKE i \in 2 .. n + 1
    <3>1. i - 1 \in 1 .. n /\ (i - 1) + 1 = i  OBVIOUS
    <3> QED  BY <1>2, <3>1
  <2> QED  BY <1>2, <2>1
<1> HIDE DEF I
<1>4. I # {} /\ I \subseteq Nat /\ 2 \in I /\ \A i \in I : i >= 2  BY <1>3
<1>5. Min(I) = 2
  <2>1. \A x \in I : (\A y \in I : x <= y) => x = 2  BY <1>4
  <2>2. \A y \in I : 2 <= y  BY <1>4
  <2> QED  BY <1>4, <2>1, <2>2, Zenon DEF Min
<1> QED  BY <1>1, <1>4, <1>5

\* The dump of a section, and that of a section the program does not have.
LEMMA DumpsAre ==
  ASSUME NEW s, s.sh_size \in Nat, s.rest \in 0 .. 3, Groups(s) > 0, s.sh_offset \in Nat,
         s.sh_addr \in Nat
  PROVE  \E n \in Nat \ {0} :
           /\ IsDump(Dump(s), s, n) /\ Shown(s, n) = s.sh_size
           /\ Dump(s)[2].address.value = s.sh_addr
           /\ Dump(s) \in Seq(Range(Dump(s)))
<1> DEFINE n == (Groups(s) + 3) \div 4
           lines == [l \in 1 .. n |-> Line(s, 4 * (l - 1))]
           S == {Heading} \cup {Line(s, 4 * (l - 1)) : l \in 1 .. n}
<1>0. /\ Groups(s) \in Nat \ {0} /\ Groups(s) \in {s.sh_size, s.sh_size + 1}
      /\ Groups(s) = s.sh_size + 1 => s.rest > 0
  BY DEF Groups
<1>1. /\ n \in Nat \ {0} /\ 4 * n >= Groups(s) /\ 4 * n < Groups(s) + 4
      /\ 4 * n >= s.sh_size
  <2>1. PICK g \in Nat \ {0} : g = Groups(s)  BY <1>0
  <2>2. n = (g + 3) \div 4  BY <2>1
  <2> HIDE DEF n
  <2>3. n \in Nat \ {0} /\ 4 * n >= g /\ 4 * n < g + 4  BY <2>1, <2>2
  <2>4. g >= s.sh_size  BY <1>0, <2>1
  <2> QED  BY <2>1, <2>3, <2>4
<1>2. Dump(s) = <<Heading>> \o lines  BY DEF Dump
<1> HIDE DEF n
<1>3. <<Heading>> \in Seq(S) /\ Len(<<Heading>>) = 1 /\ <<Heading>>[1] = Heading  OBVIOUS
<1>4. lines \in Seq(S) /\ Len(lines) = n /\ \A l \in 1 .. n : lines[l] = Line(s, 4 * (l - 1))
  <2>1. \A l \in 1 .. n : Line(s, 4 * (l - 1)) \in S  OBVIOUS
  <2> HIDE DEF S
  <2>2. lines \in [1 .. n -> S]  BY <2>1
  <2> QED  BY <1>1, <2>2
<1> HIDE DEF lines, S
<1>5. /\ Dump(s) \in Seq(S) /\ Len(Dump(s)) = n + 1 /\ Dump(s)[1] = Heading
      /\ \A l \in 1 .. n : Dump(s)[l + 1] = lines[l]
  BY <1>1, <1>2, <1>3, <1>4, ConcatProperties
<1>6. ASSUME NEW l \in 1 .. n PROVE Shows(Dump(s)[l + 1], s, l)
  <2> DEFINE from == 4 * (l - 1)
             whole == Shown(s, l) - from
             count == IF Groups(s) - from < 4 THEN Groups(s) - from ELSE 4
             cut == [digits |-> 2 * s.rest, value |-> file.words[s.sh_offset + from + count - 1]]
  <2>1. Dump(s)[l + 1] = Line(s, from)  BY <1>4, <1>5
  <2>2. /\ from \in Nat /\ Shown(s, l - 1) = from /\ whole \in Nat /\ from + whole <= s.sh_size
        /\ count \in {whole, whole + 1}
        /\ count = whole + 1 => s.rest > 0 /\ from + whole = s.sh_size
    BY <1>0, <1>1 DEF Shown
  <2>3. cut.digits # 8
    <3>1. cut.digits = 2 * s.rest  OBVIOUS
    <3> QED  BY <3>1
  <2>4. ASSUME NEW w \in 1 .. count
        PROVE  [digits |-> IF from + w <= s.sh_size THEN 8 ELSE 2 * s.rest,
                value |-> file.words[s.sh_offset + from + w - 1]]
                 = IF w <= whole THEN [digits |-> 8, value |-> WordsOf(s)[from + w]] ELSE cut
    <3>1. CASE w <= whole
      <4>1. from + w \in 1 .. s.sh_size /\ s.sh_offset + (from + w) - 1 = s.sh_offset + from + w - 1
        BY <2>2, <3>1
      <4>2. WordsOf(s)[from + w] = file.words[s.sh_offset + from + w - 1]  BY <4>1 DEF WordsOf
      <4>3. from + w <= s.sh_size  BY <4>1
      <4> QED  BY <3>1, <4>2, <4>3
    <3>2. CASE ~(w <= whole)
      <4>1. w = count /\ ~(from + w <= s.sh_size)
        <5> HIDE DEF from, whole, count
        <5> QED  BY <2>2, <3>2
      <4> QED  BY <3>2, <4>1
    <3> QED  BY <3>1, <3>2
  <2>5. /\ Line(s, from).heading = FALSE /\ Line(s, from).address.digits = 10
        /\ Line(s, from).words =
             [w \in 1 .. count |-> [digits |-> IF from + w <= s.sh_size THEN 8 ELSE 2 * s.rest,
                                    value |-> file.words[s.sh_offset + from + w - 1]]]
    BY DEF Line
  <2>6. "address" \in DOMAIN Line(s, from)  BY DEF Line
  <2> HIDE DEF from, count, whole, cut
  <2>7. Line(s, from).words =
          [w \in 1 .. count |->
             IF w <= whole THEN [digits |-> 8, value |-> WordsOf(s)[from + w]] ELSE cut]
    BY <2>4, <2>5
  <2>8. Printed(Line(s, from), s, from, whole)  BY <2>2, <2>3, <2>7, Zenon DEF Printed
  <2>9. Printed(Line(s, from), s, Shown(s, l - 1), Shown(s, l) - Shown(s, l - 1))
    BY <2>2, <2>8 DEF whole
  <2> QED  BY <2>1, <2>5, <2>6, <2>9, Zenon DEF Shows
<1>7. Shown(s, n) = s.sh_size  BY <1>1 DEF Shown
<1>8. Dump(s)[2].address.value = s.sh_addr
  <2>1. 1 \in 1 .. n /\ 1 + 1 = 2 /\ 4 * (1 - 1) = 0  BY <1>1
  <2>2. Dump(s)[2] = Line(s, 0)  BY <1>4, <1>5, <2>1
  <2> QED  BY <2>2 DEF Line
<1>9. Dump(s) \in Seq(Range(Dump(s)))
  <2> DEFINE d == Dump(s)
  <2>1. d \in Seq(S)  BY <1>5
  <2> HIDE DEF d
  <2>2. Len(d) \in Nat /\ d \in [1 .. Len(d) -> S] /\ DOMAIN d = 1 .. Len(d)  BY <2>1
  <2>3. d \in [1 .. Len(d) -> Range(d)]  BY <2>2 DEF Range
  <2> QED  BY <2>2, <2>3 DEF d
<1> QED  BY <1>1, <1>5, <1>6, <1>7, <1>8, <1>9 DEF IsDump

LEMMA NoDumpIs ==
  /\ Data(NoDump) = <<>> /\ FirstLine(NoDump) = 2
  /\ NoDump[2].address.value = 0
<1> DEFINE s == [sh_addr |-> 0, sh_offset |-> 0, sh_size |-> 0, rest |-> 0]
<1>1. NoDump = <<Heading, Line(s, 0)>>  BY DEF NoDump
<1>2. s.sh_size = 0 /\ s.sh_offset = 0 /\ s.sh_addr = 0 /\ Groups(s) = 0  BY DEF Groups
<1> HIDE DEF s
<1>3. Shown(s, 0) = 0 /\ Shown(s, 1) = 0  BY <1>2 DEF Shown
<1>4. Shows(Line(s, 0), s, 1)
  <2> DEFINE cut == [digits |-> 0, value |-> 0]
  <2>1. /\ Line(s, 0).heading = FALSE /\ Line(s, 0).address.digits = 10
        /\ Line(s, 0).words = [w \in 1 .. 0 |-> [digits |-> IF 0 + w <= s.sh_size THEN 8 ELSE 2 * s.rest,
                                                value |-> file.words[s.sh_offset + 0 + w - 1]]]
    BY <1>2 DEF Line
  <2>2. 1 - 1 = 0 /\ 0 - 0 = 0  OBVIOUS
  <2>3. \A w \in 1 .. 0 : FALSE  OBVIOUS
  <2>4. "address" \in DOMAIN Line(s, 0)  BY DEF Line
  <2>5. Line(s, 0).words =
          [w \in 1 .. 0 |-> IF w <= 0 THEN [digits |-> 8, value |-> WordsOf(s)[0 + w]] ELSE cut]
    BY <2>1, <2>3
  <2>6. cut.digits # 8  OBVIOUS
  <2> HIDE DEF cut
  <2>7. Printed(Line(s, 0), s, 0, 0)  BY <2>5, <2>6, Zenon DEF Printed
  <2> QED  BY <1>3, <2>1, <2>2, <2>4, <2>7 DEF Shows
<1>5. IsDump(NoDump, s, 1)
  <2>1. Len(NoDump) = 2 /\ NoDump[1] = Heading /\ NoDump[2] = Line(s, 0)  BY <1>1
  <2>2. \A l \in 1 .. 1 : l = 1 /\ l + 1 = 2  OBVIOUS
  <2> QED  BY <1>4, <2>1, <2>2 DEF IsDump
<1>6. Data(NoDump) = WordsOf(s)  BY <1>2, <1>3, <1>5, DumpData
<1>7. WordsOf(s) = <<>>  BY <1>2 DEF WordsOf
<1>8. FirstLine(NoDump) = 2  BY <1>5, SecondLine
<1>9. NoDump[2].address.value = 0  BY <1>1, <1>2 DEF Line
<1> QED  BY <1>6, <1>7, <1>8, <1>9

\* A dump that is given another address stays one.
LEMMA MovedDump ==
  ASSUME NEW s, NEW n \in Nat \ {0}, NEW lines, IsDump(lines, s, n), lines \in Seq(Range(lines)),
         NEW i \in Int, NEW offset
  PROVE  LET moved == WithSegmentOffset(i, offset, lines) IN
         /\ IsDump(moved, s, n)
         /\ moved[2].address.value = IF IsDebugging(i) THEN offset ELSE lines[2].address.value
<1> DEFINE line == [lines[2] EXCEPT !.address = [digits |-> 10, value |-> offset]]
           moved == [lines EXCEPT ![2] = line]
<1>1. Len(lines) = n + 1 /\ lines[1] = Heading /\ \A l \in 1 .. n : Shows(lines[l + 1], s, l)
  BY Zenon DEF IsDump
<1>2. WithSegmentOffset(i, offset, lines) = IF IsDebugging(i) THEN moved ELSE lines
  <2>1. PICK k : k = FirstLine(lines)  OBVIOUS
  <2>2. WithSegmentOffset(i, offset, lines) =
          IF IsDebugging(i) /\ k # 0
          THEN [lines EXCEPT ![k] = [lines[k] EXCEPT !.address = [digits |-> 10, value |-> offset]]] ELSE lines
    BY <2>1, Zenon DEF WithSegmentOffset
  <2>3. k = 2  BY <2>1, SecondLine
  <2> QED  BY <2>2, <2>3
<1>3. SUFFICES ASSUME IsDebugging(i)
               PROVE  IsDump(moved, s, n) /\ moved[2].address.value = offset
  BY <1>2, Zenon
<1>4. DOMAIN lines = 1 .. n + 1 /\ 2 \in 1 .. n + 1  BY <1>1
<1>5. DOMAIN moved = 1 .. n + 1 /\ moved[2] = line /\ \A k \in 1 .. n + 1 : k # 2 => moved[k] = lines[k]
  BY <1>4
<1>6. Len(moved) = n + 1
  <2> DEFINE S == Range(lines) \cup {line}
  <2>1. lines \in [1 .. n + 1 -> S]  BY <1>1, <1>4 DEF Range
  <2>2. moved \in [1 .. n + 1 -> S]  BY <2>1, <1>4
  <2> HIDE DEF S, moved
  <2> QED  BY <2>2
<1>7. Shows(lines[2], s, 1)
  <2>1. 1 \in 1 .. n /\ 1 + 1 = 2  OBVIOUS
  <2> QED  BY <1>1, <2>1
<1>8. /\ "address" \in DOMAIN line /\ line.heading = FALSE
      /\ line.words = lines[2].words /\ line.address = [digits |-> 10, value |-> offset]
  <2>1. "address" \in DOMAIN lines[2] /\ lines[2].heading = FALSE  BY <1>7, Zenon DEF Shows
  <2> QED  BY <2>1
<1>9. Shows(line, s, 1)
  <2> HIDE DEF line
  <2>1. line.address.digits = 10  BY <1>8
  <2>2. \A from, count : Printed(lines[2], s, from, count) => Printed(line, s, from, count)
    BY <1>8, Zenon DEF Printed
  <2> QED  BY <1>7, <1>8, <2>1, <2>2, Zenon DEF Shows
<1> HIDE DEF line, moved
<1>10. ASSUME NEW l \in 1 .. n PROVE Shows(moved[l + 1], s, l)
  <2>1. CASE l = 1
    <3>1. moved[l + 1] = line  BY <1>5, <2>1
    <3> QED  BY <1>9, <2>1, <3>1
  <2>2. CASE l # 1
    <3>1. l + 1 \in 1 .. n + 1 /\ l + 1 # 2  BY <2>2
    <3>2. moved[l + 1] = lines[l + 1]  BY <1>5, <3>1
    <3> QED  BY <1>1, <3>2
  <2> QED  BY <2>1, <2>2
<1>11. moved[1] = Heading
  <2>1. 1 \in 1 .. n + 1 /\ 1 # 2  OBVIOUS
  <2> QED  BY <1>1, <1>5, <2>1
<1>12. moved[2].address.value = offset  BY <1>5, <1>8
<1> QED  BY <1>6, <1>10, <1>11, <1>12, Zenon DEF IsDump

\* Section headers are typed.
LEMMA SectionIsTyped ==
  ASSUME file \in Files, NEW i \in DOMAIN file.shdrs
  PROVE  /\ file.shdrs[i].sh_size \in Nat /\ file.shdrs[i].sh_offset \in Nat
         /\ file.shdrs[i].sh_addr \in Nat /\ file.shdrs[i].rest \in 0 .. 3 /\ i \in Nat
<1> DEFINE shdrs == file.shdrs
<1>1. shdrs \in Seq(SectionHeaders)  BY FilesAreWellFormed DEF WellFormed
<1>2. i \in DOMAIN shdrs  OBVIOUS
<1> HIDE DEF shdrs
<1>3. shdrs[i] \in SectionHeaders /\ i \in Nat  BY <1>1, <1>2
<1>4. /\ shdrs[i].sh_size \in Nat /\ shdrs[i].sh_offset \in Nat /\ shdrs[i].sh_addr \in Nat
      /\ shdrs[i].rest \in 0 .. 3
  BY <1>3 DEF SectionHeaders
<1> QED  BY <1>3, <1>4 DEF shdrs

\* A section is put in its place, if it has data.
First(i, s) == IF IsDebugging(i) THEN s.sh_offset ELSE s.sh_addr

IsPut(i, a) == i \in DOMAIN file.shdrs /\ HasData(file.shdrs[i]) /\ a \in Place(i, file.shdrs[i])

LEMMA SectionLoads ==
  ASSUME file \in Files, NEW memory, NEW i \in 1 .. 32
  PROVE  LoadMemory(memory, Dumps[i]) =
           [a \in DOMAIN memory |->
              IF IsPut(i, a) THEN WordsOf(file.shdrs[i])[a - First(i, file.shdrs[i]) + 1] ELSE memory[a]]
<1> DEFINE s == file.shdrs[i]
           has == i \in DOMAIN file.shdrs /\ HasData(s)
<1>1. Dumps[i] = IF has THEN WithSegmentOffset(i, s.sh_offset, Dump(s)) ELSE NoDump
  BY DEF Dumps
<1>2. CASE has
  <2>1. /\ s.sh_size \in Nat /\ s.sh_offset \in Nat /\ s.sh_addr \in Nat /\ i \in Int
        /\ s.rest \in 0 .. 3 /\ Groups(s) > 0
    BY <1>2, SectionIsTyped DEF HasData
  <2>2. PICK n \in Nat \ {0} : /\ IsDump(Dump(s), s, n) /\ Shown(s, n) = s.sh_size
                               /\ Dump(s)[2].address.value = s.sh_addr
                               /\ Dump(s) \in Seq(Range(Dump(s)))
    BY <2>1, DumpsAre
  <2>3. Dumps[i] = WithSegmentOffset(i, s.sh_offset, Dump(s))  BY <1>1, <1>2
  <2>4. IsDump(Dumps[i], s, n) /\ Dumps[i][2].address.value = First(i, s)
    <3>1. PICK lines : lines = Dump(s)  OBVIOUS
    <3>2. PICK offset : offset = s.sh_offset  OBVIOUS
    <3>3. /\ IsDump(WithSegmentOffset(i, offset, lines), s, n)
          /\ WithSegmentOffset(i, offset, lines)[2].address.value =
               IF IsDebugging(i) THEN offset ELSE lines[2].address.value
      <4>1. IsDump(lines, s, n) /\ lines \in Seq(Range(lines))  BY <2>2, <3>1, Zenon
      <4>2. i \in Int  OBVIOUS
      <4> HIDE DEF s
      <4> QED  BY <4>1, <4>2, MovedDump
    <3> QED  BY <2>2, <2>3, <3>1, <3>2, <3>3, Zenon DEF First
  <2>5. Data(Dumps[i]) = WordsOf(s)  BY <2>1, <2>2, <2>4, DumpData
  <2>6. FirstLine(Dumps[i]) = 2  BY <2>4, SecondLine
  <2>7. Len(WordsOf(s)) = s.sh_size  BY <2>1 DEF WordsOf
  <2>8. Place(i, s) = First(i, s) .. First(i, s) + s.sh_size - 1  BY DEF Place, First
  <2>9. LoadMemory(memory, Dumps[i]) = Filled(memory, First(i, s), WordsOf(s))
    BY <2>4, <2>5, <2>6 DEF LoadMemory
  <2>10. \A a : IsPut(i, a) <=> a \in First(i, s) .. First(i, s) + Len(WordsOf(s)) - 1
    BY <1>2, <2>7, <2>8 DEF IsPut
  <2> HIDE DEF s, has
  <2>11. LoadMemory(memory, Dumps[i]) =
           [a \in DOMAIN memory |-> IF IsPut(i, a) THEN WordsOf(s)[a - First(i, s) + 1] ELSE memory[a]]
    BY <2>9, <2>10 DEF Filled
  <2> QED  BY <2>11 DEF s
<1>3. CASE ~has
  <2>1. Dumps[i] = NoDump  BY <1>1, <1>3
  <2>2. LoadMemory(memory, Dumps[i]) = Filled(memory, 0, <<>>)
    BY <2>1, NoDumpIs DEF LoadMemory
  <2>3. Len(<<>>) = 0 /\ 0 .. 0 + 0 - 1 = {}  OBVIOUS
  <2>4. \A a : ~IsPut(i, a)  BY <1>3 DEF IsPut
  <2> HIDE DEF has
  <2> QED  BY <2>2, <2>3, <2>4 DEF Filled
<1> QED  BY <1>2, <1>3

\* What the older loader has in memory after section i.
Load(loaded, memory, dumps, i) ==
  IF i = 0 THEN getArguments(memory, GSP)
  ELSE IF i \in SectionsRead(FALSE) THEN LoadMemory(loaded[i - 1], dumps[i]) ELSE loaded[i - 1]

IsLoaded(loaded, memory, dumps, n) == loaded = [i \in 0 .. n |-> Load(loaded, memory, dumps, i)]

LEMMA LoadIsDefined ==
  ASSUME NEW memory, NEW dumps, NEW n \in Nat
  PROVE  \E loaded : IsLoaded(loaded, memory, dumps, n)
<1> DEFINE F(k, i) == Load(k, memory, dumps, i)
           Is(k, m) == IsLoaded(k, memory, dumps, m)
           Defined == {m \in 0 .. n : \E k : Is(k, m)}
<1>1. 0 \in Defined
  <2> DEFINE k == [i \in 0 .. 0 |-> getArguments(memory, GSP)]
  <2>1. Is(k, 0)  BY DEF IsLoaded, Load
  <2> QED  BY <2>1
<1>2. ASSUME NEW m \in 0 .. n - 1, m \in Defined
      PROVE  m + 1 \in Defined
  <2>1. PICK k : Is(k, m)  BY <1>2
  <2> DEFINE longer == [i \in 0 .. m + 1 |-> IF i = m + 1 THEN F(k, m + 1) ELSE k[i]]
  <2>2. ASSUME NEW i \in 0 .. m + 1 PROVE longer[i] = F(longer, i)
    <3>1. i # 0 => longer[i - 1] = k[i - 1]  OBVIOUS
    <3>2. F(longer, i) = F(k, i)
      <4> HIDE DEF longer
      <4> QED  BY <3>1 DEF Load
    <3>3. i # m + 1 => k[i] = F(k, i)
      <4>1. i # m + 1 => i \in 0 .. m  OBVIOUS
      <4> QED  BY <2>1, <4>1, Zenon DEF IsLoaded
    <3>4. longer[i] = IF i = m + 1 THEN F(k, m + 1) ELSE k[i]  OBVIOUS
    <3> HIDE DEF longer, F
    <3> QED  BY <3>2, <3>3, <3>4
  <2>3. longer = [i \in 0 .. m + 1 |-> longer[i]]  OBVIOUS
  <2> HIDE DEF longer
  <2>4. Is(longer, m + 1)  BY <2>2, <2>3, Zenon DEF IsLoaded
  <2>5. m + 1 \in 0 .. n  OBVIOUS
  <2> QED  BY <2>4, <2>5
<1>3. 0 .. n \subseteq Defined
  <2> HIDE DEF Defined
  <2> QED  BY <1>1, <1>2, UpTo
<1> QED  BY <1>3

\* An address outside the arguments that only one section may be put at has
\* that section's word, if it is put there.
LEMMA OnlySection ==
  ASSUME file \in Files, NEW p \in DOMAIN file.shdrs, NEW a \in Addresses \ (GSP .. GSP + 5),
         \A j \in SectionsRead(FALSE) : IsPut(j, a) => j = p,
         IsPut(p, a) => p \in SectionsRead(FALSE)
  PROVE  LoadOSMemoryTXT([b \in Addresses |-> NOP], GSP, Dumps, FALSE)[a] =
           IF IsPut(p, a) THEN WordsOf(file.shdrs[p])[a - First(p, file.shdrs[p]) + 1] ELSE NOP
<1> DEFINE clear == [b \in Addresses |-> NOP]
           arguments == <<<<"data", 1>>, NOP, <<"data", GSP + 5>>, NOP, NOP, <<"data", "noio">> >>
           k == CHOOSE k : IsLoaded(k, clear, Dumps, 32)
           word == WordsOf(file.shdrs[p])[a - First(p, file.shdrs[p]) + 1]
<1>1. IsLoaded(k, clear, Dumps, 32)  BY LoadIsDefined
<1>2. LoadOSMemoryTXT(clear, GSP, Dumps, FALSE) = k[32]
  BY Zenon DEF LoadOSMemoryTXT, IsLoaded, Load
<1> HIDE DEF k
<1>3. \A i \in 0 .. 32 : k[i] = Load(k, clear, Dumps, i)
  BY <1>1, Zenon DEF IsLoaded
<1>4. getArguments(clear, GSP)[a] = NOP /\ DOMAIN getArguments(clear, GSP) = Addresses
  <2>1. Len(arguments) = 6 /\ GSP \in Nat  BY FieldsAreWords DEF Word
  <2>2. getArguments(clear, GSP) = Filled(clear, GSP, arguments)  BY DEF getArguments
  <2> HIDE DEF arguments
  <2>3. a \notin GSP .. GSP + Len(arguments) - 1 /\ a \in Addresses  BY <2>1
  <2> QED  BY <2>2, <2>3 DEF Filled
<1> HIDE DEF clear, word
<1> DEFINE Good == {m \in 0 .. 32 : /\ DOMAIN k[m] = Addresses
                                    /\ k[m][a] = IF IsPut(p, a) /\ p <= m THEN word ELSE NOP}
<1>5. p \in Nat  BY SectionIsTyped
<1>6. IsPut(p, a) => p \in 1 .. 32
  <2>1. SectionsRead(FALSE) \subseteq 1 .. 32  BY DEF SectionsRead
  <2> QED  BY <2>1, Zenon
<1>7. 0 \in Good
  <2>1. k[0] = getArguments(clear, GSP)  BY <1>3 DEF Load
  <2>2. IsPut(p, a) => ~(p <= 0)  BY <1>6
  <2> QED  BY <1>4, <2>1, <2>2
<1>8. ASSUME NEW m \in 0 .. 32 - 1, m \in Good PROVE m + 1 \in Good
  <2>1. m + 1 \in 0 .. 32 /\ m + 1 \in 1 .. 32 /\ m + 1 # 0 /\ (m + 1) - 1 = m  OBVIOUS
  <2>2. /\ DOMAIN k[m] = Addresses
        /\ k[m][a] = IF IsPut(p, a) /\ p <= m THEN word ELSE NOP
    BY <1>8
  <2>3. k[m + 1] = IF m + 1 \in SectionsRead(FALSE) THEN LoadMemory(k[m], Dumps[m + 1]) ELSE k[m]
    BY <1>3, <2>1 DEF Load
  <2>4. CASE m + 1 \in SectionsRead(FALSE)
    <3> DEFINE s == file.shdrs[m + 1]
    <3>1. k[m + 1] = [b \in DOMAIN k[m] |->
            IF IsPut(m + 1, b) THEN WordsOf(s)[b - First(m + 1, s) + 1] ELSE k[m][b]]
      BY <2>1, <2>3, <2>4, SectionLoads
    <3>2. IsPut(m + 1, a) => m + 1 = p  BY <2>4
    <3>3. IsPut(m + 1, a) => WordsOf(s)[a - First(m + 1, s) + 1] = word  BY <3>2 DEF word
    <3> HIDE DEF s
    <3>4. /\ DOMAIN k[m + 1] = Addresses
          /\ k[m + 1][a] = IF IsPut(m + 1, a) THEN word ELSE k[m][a]
      BY <2>2, <3>1, <3>3
    <3>5. IsPut(p, a) /\ p = m + 1 => IsPut(m + 1, a)  OBVIOUS
    <3>6. p <= m + 1 <=> p <= m \/ p = m + 1  BY <1>5
    <3>7. ~(m + 1 <= m)  OBVIOUS
    <3>8. k[m + 1][a] = IF IsPut(p, a) /\ p <= m + 1 THEN word ELSE NOP
      BY <2>2, <3>2, <3>4, <3>5, <3>6, <3>7
    <3> QED  BY <2>1, <3>4, <3>8
  <2>5. CASE m + 1 \notin SectionsRead(FALSE)
    <3>1. IsPut(p, a) => (p <= m + 1 <=> p <= m)
      <4>1. IsPut(p, a) => p # m + 1  BY <2>5
      <4> QED  BY <1>5, <4>1
    <3>2. k[m + 1] = k[m]  BY <2>3, <2>5
    <3>3. k[m + 1][a] = IF IsPut(p, a) /\ p <= m + 1 THEN word ELSE NOP  BY <2>2, <3>1, <3>2
    <3> QED  BY <2>1, <2>2, <3>2, <3>3
  <2> QED  BY <2>4, <2>5
<1>9. 0 .. 32 \subseteq Good
  <2> HIDE DEF Good
  <2>1. 32 \in Nat  OBVIOUS
  <2> QED  BY <1>7, <1>8, <2>1, UpTo
<1>10. k[32][a] = IF IsPut(p, a) THEN word ELSE NOP
  <2>1. 32 \in 0 .. 32  OBVIOUS
  <2>2. IsPut(p, a) => p <= 32  BY <1>6
  <2> QED  BY <1>9, <2>1, <2>2
<1> QED  BY <1>2, <1>10 DEF clear, word

\* Past parsing, the header was right.
ParsedInv == stage \notin {"parse", "rejected"} => HeaderError(file) = 0

LEMMA ParsedInvHolds ==
  /\ Init => ParsedInv
  /\ ParsedInv /\ [Next]_vars => ParsedInv'
<1>1. Init => ParsedInv  BY DEF Init, ParsedInv
<1>2. ASSUME ParsedInv, [Next]_vars PROVE ParsedInv'
  <2>1. CASE ParseFile
    <3>1. stage' \notin {"parse", "rejected"} => LoadError = 0  BY <2>1 DEF ParseFile
    <3>2. LoadError = 0 => HeaderError(file) = 0  BY DEF LoadError
    <3>3. file' = file  BY <2>1 DEF ParseFile
    <3> QED  BY <3>1, <3>2, <3>3 DEF ParsedInv
  <2>2. CASE CopySegment  BY <1>2, <2>2 DEF CopySegment, ParsedInv
  <2>3. CASE FillRedirect  BY <1>2, <2>3 DEF FillRedirect, ParsedInv
  <2>4. CASE WriteVector  BY <1>2, <2>4 DEF WriteVector, ParsedInv
  <2>5. CASE Step  BY <1>2, <2>5 DEF Step, ParsedInv
  <2>6. CASE UNCHANGED vars  BY <1>2, <2>6 DEF vars, ParsedInv
  <2> QED  BY <1>2, <2>1, <2>2, <2>3, <2>4, <2>5, <2>6 DEF Next
<1> QED  BY <1>1, <1>2

\* Before it is redirected, memory has every whole word of the sections of the
\* running program where and as the older loader, reading dumps of the same
\* file, has it; where a section ends in a part of a word, that loader has
\* nothing.
THEOREM TextLoaderAgreesHolds == Spec => []TextLoaderAgrees
<1>1. LoadInv /\ ParsedInv => TextLoaderAgrees
  <2> SUFFICES ASSUME LoadInv, ParsedInv, stage = "redirects", redirect = 0,
                      NEW p \in DOMAIN file.shdrs, file.shdrs[p].alloc,
                      NEW a \in file.shdrs[p].sh_addr .. file.shdrs[p].sh_addr + Groups(file.shdrs[p]) - 1
               PROVE  LoadOSMemoryTXT([b \in Addresses |-> NOP], GSP, Dumps, FALSE)[a] =
                        IF a < file.shdrs[p].sh_addr + file.shdrs[p].sh_size THEN MAIN_MEMORY[a] ELSE NOP
    BY Zenon DEF TextLoaderAgrees, Range
  <2> DEFINE s == file.shdrs[p]
             list == SegmentList(file)
             Covering == {k \in DOMAIN list : Covers(list[k], a)}
  <2>1. file \in Files /\ HeaderError(file) = 0  BY DEF LoadInv, ParsedInv
  <2>2. /\ HasData(s) => p \in SectionsRead(FALSE) /\ ~IsDebugging(p)
        /\ a \in Addresses \ (GSP .. GSP + 5)
        /\ HasData(s) <=> \E k \in DOMAIN list : Covers(list[k], a)
        /\ \A k \in DOMAIN list : Covers(list[k], a) =>
             list[k].offsetInFile + a - list[k].startAddress = s.sh_offset + a - s.sh_addr
        /\ \A j \in DOMAIN file.shdrs \cap SectionsRead(FALSE) :
             j # p /\ HasData(file.shdrs[j]) => a \notin Place(j, file.shdrs[j])
    BY <2>1, SectionsAreLinked
  <2>3. \A j \in SectionsRead(FALSE) : IsPut(j, a) => j = p  BY <2>2 DEF IsPut
  <2>4. IsPut(p, a) => p \in SectionsRead(FALSE)  BY <2>2 DEF IsPut
  <2>5. LoadOSMemoryTXT([b \in Addresses |-> NOP], GSP, Dumps, FALSE)[a] =
          IF IsPut(p, a) THEN WordsOf(s)[a - First(p, s) + 1] ELSE NOP
    BY <2>1, <2>2, <2>3, <2>4, OnlySection
  <2>6. MAIN_MEMORY[a] = LinkedWord(a)
    <3>1. MAIN_MEMORY[a] \in RedirectedBy(a, 0)  BY <2>2 DEF LoadInv
    <3>2. RedirectedBy(a, 0) = {LinkedBy(file, a, Len(SegmentList(file)))}  BY DEF RedirectedBy
    <3> QED  BY <2>1, <3>1, <3>2, LinkedByAll
  <2>7. LinkedWord(a) = IF Covering = {} THEN NOP
          ELSE file.words[list[Max(Covering)].offsetInFile + a - list[Max(Covering)].startAddress]
    BY DEF LinkedWord, Covers
  <2>8. HasData(s) <=> Covering # {}  BY <2>2
  <2>9. s.sh_size \in Nat /\ s.sh_offset \in Nat /\ s.sh_addr \in Nat /\ s.rest \in 0 .. 3
    BY <2>1, SectionIsTyped
  <2>10. /\ a \in Int /\ a >= s.sh_addr
         /\ a < s.sh_addr + s.sh_size <=> a \in s.sh_addr .. s.sh_addr + s.sh_size - 1
    BY <2>9 DEF Groups
  <2>11. CASE HasData(s) /\ a < s.sh_addr + s.sh_size
    <3>1. First(p, s) = s.sh_addr /\ IsPut(p, a)  BY <2>2, <2>10, <2>11 DEF First, IsPut, Place
    <3>2. WordsOf(s)[a - s.sh_addr + 1] = file.words[s.sh_offset + a - s.sh_addr]
      <4>1. /\ a - s.sh_addr + 1 \in 1 .. s.sh_size
            /\ s.sh_offset + (a - s.sh_addr + 1) - 1 = s.sh_offset + a - s.sh_addr
        BY <2>9, <2>10, <2>11
      <4> QED  BY <4>1 DEF WordsOf
    <3>3. Max(Covering) \in Covering
      <4>1. DOMAIN list = 1 .. Len(list) /\ Len(list) \in Nat
        <5>1. list \in Seq(Segments)  BY <2>1, FileIsTyped
        <5> HIDE DEF list
        <5> QED  BY <5>1
      <4>2. Covering \subseteq 1 .. Len(list) /\ Covering # {}  BY <2>8, <2>11, <4>1
      <4> HIDE DEF Covering, list
      <4> QED  BY <4>1, <4>2, Largest
    <3>4. list[Max(Covering)].offsetInFile + a - list[Max(Covering)].startAddress
            = s.sh_offset + a - s.sh_addr
      BY <2>2, <3>3
    <3> HIDE DEF Covering, list, s
    <3> QED  BY <2>5, <2>6, <2>7, <2>8, <2>11, <3>1, <3>2, <3>4 DEF s
  <2>12. CASE ~HasData(s)
    <3>1. ~IsPut(p, a)  BY <2>12 DEF IsPut
    <3> HIDE DEF Covering, list, s
    <3> QED  BY <2>5, <2>6, <2>7, <2>8, <2>12, <3>1 DEF s
  <2>13. CASE HasData(s) /\ ~(a < s.sh_addr + s.sh_size)
    <3>1. ~IsPut(p, a)  BY <2>2, <2>10, <2>13 DEF IsPut, Place
    <3> HIDE DEF Covering, list, s
    <3> QED  BY <2>5, <2>13, <3>1 DEF s
  <2> QED  BY <2>11, <2>12, <2>13
<1> QED  BY <1>1, LoadInvHolds, ParsedInvHolds, PTL DEF Spec

=============================================================================
