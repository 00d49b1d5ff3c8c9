------------------------------ MODULE MCLoader ------------------------------
(***************************************************************************)
(* Small executables for Loader: one program with every kind of segment,   *)
(* section and symbol, variants of its tables, and files that are refused. *)
(***************************************************************************)
EXTENDS Loader

\* The entry is at 11, functions before and after it.
Function(name, value) == [name |-> name, type |-> "STT_FUNC", value |-> value]
SomeSymbols ==
  <<Function("__uname", 1), [name |-> "__libc_open", type |-> "STT_OBJECT", value |-> 12],
    Function("exchange_and_add", 5), Function("main", 11), Function("atomic_add", 12),
    Function("__libc_write", 18), Function("__libc_open", 22)>>

Header(type, offset, vaddr, filesz, memsz) ==
  [p_type |-> type, p_offset |-> offset, p_vaddr |-> vaddr, p_filesz |-> filesz, p_memsz |-> memsz]
Reginfo == Header("PT_MIPS_REGINFO", 0, 27, 6, 6)
Load    == Header("PT_LOAD", 0, 1, 26, 33)
Note    == Header("PT_NOTE", 2, 29, 2, 2)
Stack   == Header("PT_GNU_STACK", 0, 0, 30, 30)

\* The size in bytes.
TableHeader(name, type, alloc, addr, offset, size, symbols) ==
  [name |-> name, sh_type |-> type, alloc |-> alloc, sh_addr |-> addr, sh_offset |-> offset,
   sh_size |-> size \div 4, rest |-> size % 4, sh_entsize |-> 1, symbols |-> symbols]
Unused == TableHeader("", "SHT_NULL", FALSE, 0, 0, 0, <<>>)
Sections(symbols) ==
  <<TableHeader(".reginfo", "SHT_MIPS_REGINFO", TRUE, 27, 0, 8, <<>>),
    TableHeader(".text", "SHT_PROGBITS", TRUE, 1, 0, 62, <<>>),
    TableHeader(".data", "SHT_PROGBITS", TRUE, 17, 16, 40, <<>>),
    TableHeader(".symtab", "SHT_SYMTAB", FALSE, 0, 0, 0, symbols),
    TableHeader(".strtab", "SHT_STRTAB", FALSE, 0, 0, 0, <<>>)>>
  \o [i \in 1 .. 10 |-> Unused]
  \o <<TableHeader(".bss", "SHT_NOBITS", TRUE, 33, 26, 3, <<>>), Unused, Unused,
       TableHeader(".comment", "SHT_PROGBITS", FALSE, 0, 30, 11, <<>>)>>

Program ==
  [opens |-> TRUE, measures |-> TRUE, maps |-> TRUE, ident |-> Ident, e_machine |-> EM_MIPS,
   e_entry |-> 11, e_ehsize |-> HeaderSize, e_phentsize |-> ProgramHeaderSize, e_shstrndx |-> 5,
   phdrs |-> <<Reginfo, Stack, Load, Note>>, shdrs |-> Sections(SomeSymbols),
   words |-> [o \in 0 .. 35 |-> <<"data", o + 20>>]]

\* The functions that share an address.
Mixtures == <<Function("__libc_write", 0), Function("__munmap", 4), Function("__libc_read", 8)>>

MCFiles ==
  {Program, [Program EXCEPT !.shdrs = Sections(Mixtures)],
   [Program EXCEPT !.phdrs = <<Load, Reginfo>>, !.e_shstrndx = 0],
   [Program EXCEPT !.phdrs = <<Load>>, !.shdrs = <<Unused>> \o Tail(Sections(Tail(SomeSymbols))),
      !.e_entry = 26],
   [Program EXCEPT !.shdrs = <<>>, !.words[5] = <<"data", NO_GP>>],
   [Program EXCEPT !.opens = FALSE], [Program EXCEPT !.measures = FALSE],
   [Program EXCEPT !.maps = FALSE],
   [Program EXCEPT !.ident.magic = "MZ"], [Program EXCEPT !.ident.class = "ELFCLASS64"],
   [Program EXCEPT !.ident.data = "ELFDATA2LSB", !.e_machine = 3],
   [Program EXCEPT !.ident.version = 0], [Program EXCEPT !.ident.osabi = "HPUX"],
   [Program EXCEPT !.e_machine = 3], [Program EXCEPT !.phdrs = <<>>],
   [Program EXCEPT !.e_ehsize = 64], [Program EXCEPT !.e_phentsize = 56]}

MCGarbage == {NO_GP, 0, 17}
MCAddresses == 0 .. 117
MCBootPage == 40 .. 103

=============================================================================
