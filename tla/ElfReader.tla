----------------------------- MODULE ElfReader ------------------------------
(***************************************************************************)
(* parse_elf of elf_reader.cpp: what it takes from an executable file.  A  *)
(* file is a record of the header's fields and of the tables the header    *)
(* leads to; its data are words, by their offset.  Addresses, offsets and  *)
(* sizes count words; a section may have up to three bytes more.           *)
(***************************************************************************)
EXTENDS Integers, SequencesExt

\* The kinds of program headers, sections and symbols (common.h, mips.h).
SegmentTypes ==
  {"PT_NULL", "PT_LOAD", "PT_DYNAMIC", "PT_INTERP", "PT_NOTE", "PT_SHLIB", "PT_PHDR", "PT_TLS",
   "PT_GNU_EH_FRAME", "PT_GNU_STACK", "PT_GNU_RELRO", "PT_MIPS_REGINFO"}
SectionTypes ==
  {"SHT_NULL", "SHT_PROGBITS", "SHT_SYMTAB", "SHT_STRTAB", "SHT_NOTE", "SHT_NOBITS", "SHT_MIPS_REGINFO"}
SymbolTypes ==
  {"STT_NOTYPE", "STT_OBJECT", "STT_FUNC", "STT_SECTION", "STT_FILE", "STT_COMMON", "STT_TLS",
   "STT_RELC", "STT_SRELC", "STT_GNU_IFUNC"}

\* The entries of the tables, fields named as in elf.h.
ProgramHeaders ==
  [p_type : SegmentTypes, p_offset : Nat, p_vaddr : Nat, p_filesz : Nat, p_memsz : Nat]
SymbolEntries == [name : STRING, type : SymbolTypes, value : Nat]
SectionHeaders ==
  [name : STRING, sh_type : SectionTypes, alloc : BOOLEAN, sh_addr : Nat, sh_offset : Nat,
   sh_size : Nat, rest : 0 .. 3, sh_entsize : Nat, symbols : Seq(SymbolEntries)]

\* What the first bytes of a file must be.
Ident == [magic |-> "ELF", class |-> "ELFCLASS32", data |-> "ELFDATA2MSB", version |-> 1,
          osabi |-> "ELFOSABI_NONE"]
EM_MIPS == 8

\* The header, its fields named as in Elf32_External_Ehdr.
HeaderSize == 52
ProgramHeaderSize == 32

\* The tables of a file, and data for every segment that would be loaded.
WellFormed(file) ==
  /\ file.phdrs \in Seq(ProgramHeaders) /\ file.shdrs \in Seq(SectionHeaders)
  /\ file.shdrs # <<>> => file.e_shstrndx \in 0 .. Len(file.shdrs)
  /\ \A i \in DOMAIN file.phdrs :
       file.phdrs[i].p_offset .. file.phdrs[i].p_offset + file.phdrs[i].p_filesz - 1
         \subseteq DOMAIN file.words

\* The tests of the header, in the order they are done.
HeaderFaults(file) ==
  <<file.ident.magic # Ident.magic, file.ident.class # Ident.class, file.ident.data # Ident.data,
    file.ident.version # Ident.version, file.ident.osabi # Ident.osabi,
    file.e_machine # EM_MIPS, Len(file.phdrs) < 1,
    file.e_ehsize # HeaderSize, file.e_phentsize # ProgramHeaderSize>>

\* (The sign forgotten, which main does not take for an error.)
HeaderErrorUnsigned(file) ==
  LET first == SelectInSeq(HeaderFaults(file), LAMBDA fault : fault) IN
  IF first = 0 THEN 0 ELSE first + 1

\* -2 to -10 for the first test that fails, or 0.
HeaderError(file) ==
  LET first == SelectInSeq(HeaderFaults(file), LAMBDA fault : fault) IN
  IF first = 0 THEN 0 ELSE -(first + 1)

\* An Exe_Segment.
Segment(phdr) ==
  [offsetInFile |-> phdr.p_offset, lengthInFile |-> phdr.p_filesz, startAddress |-> phdr.p_vaddr,
   sizeInMemory |-> phdr.p_memsz, type |-> phdr.p_type]

SegmentList(file) ==
  LET kept[i \in 0 .. Len(file.phdrs)] ==
        IF i = 0 THEN <<>>
        ELSE IF file.phdrs[i].p_type \in {"PT_MIPS_REGINFO", "PT_NOTE", "PT_LOAD"}
             THEN Append(kept[i - 1], Segment(file.phdrs[i])) ELSE kept[i - 1]
  IN  kept[Len(file.phdrs)]

\* ri_gp_value is the sixth word of the last register information there is;
\* without any, globalPointer stays what it was, which nothing has set.
GlobalPointer(file, garbage) ==
  LET last == SelectLastInSeq(file.phdrs, LAMBDA p : p.p_type = "PT_MIPS_REGINFO") IN
  IF last = 0 THEN garbage ELSE file.words[file.phdrs[last].p_offset + 5][2]

\* (Kept when the end is below it: it never leaves 0.)
MaxUsedAddr(file) ==
  LET Lower(max, end) == IF end < max THEN end ELSE max
      ends == [i \in DOMAIN SegmentList(file) |->
                 SegmentList(file)[i].startAddress + SegmentList(file)[i].sizeInMemory]
      allocated == SelectSeq(file.shdrs, LAMBDA s : s.alloc)
  IN  FoldLeft(Lower, 0, ends \o [i \in DOMAIN allocated |->
                                    allocated[i].sh_addr + allocated[i].sh_entsize])

\* The last section of a name and type; a section may have no name.
Section(file, name, type) ==
  SelectLastInSeq(file.shdrs, LAMBDA s : s.name = name /\ s.sh_type = type)

\* The symbols, when there is a table of section names, one of symbols and
\* one of their names.
Symbols(file) ==
  LET symtab == Section(file, ".symtab", "SHT_SYMTAB") IN
  IF file.e_shstrndx # 0 /\ symtab # 0 /\ Section(file, ".strtab", "SHT_STRTAB") # 0
  THEN file.shdrs[symtab].symbols ELSE <<>>

\* The addresses after those of the functions that function_pointers lists
\* were put where it points.
Assigned(addresses, function_pointers, file) ==
  LET symbols == Symbols(file)
      found[i \in 0 .. Len(symbols)] ==
        IF i = 0 THEN addresses
        ELSE IF symbols[i].type = "STT_FUNC" /\ symbols[i].name \in DOMAIN function_pointers
             THEN [found[i - 1] EXCEPT ![function_pointers[symbols[i].name]] = symbols[i].value]
             ELSE found[i - 1]
  IN  found[Len(symbols)]

\* An Exe_Format.
parse_elf(file, garbage) ==
  [segmentList |-> SegmentList(file), entryAddr |-> file.e_entry,
   globalPointer |-> GlobalPointer(file, garbage), maxUsedAddr |-> MaxUsedAddr(file)]

=============================================================================
