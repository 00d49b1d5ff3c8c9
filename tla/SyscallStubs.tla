---------------------------- MODULE SyscallStubs ----------------------------
(***************************************************************************)
(* The instructions that sm_syscalls.cpp puts into a program's memory:     *)
(* system calls in place of some of its functions, versions of two others  *)
(* without ll and sc, and the code at the reset address that sets up       *)
(* registers and jumps to the program.  A word of memory is a tuple of an  *)
(* operation and its operands; addresses count words.                      *)
(***************************************************************************)
EXTENDS Integers, SequencesExt, FiniteSets

CONSTANTS
  HALFWORD,    \* 2^16, the values of the half of a word that lui or ori has
  NOOP_LOOP,   \* nops after an instruction: 7, or 0 in builds with NO_NOOP
  DEFAULT,     \* the address 0xFFFFFFF0
  DEFAULT_CXX, \* the address 0xFFFFFFE0
  NO_GP        \* 0xFFFFFFFF

NOP == <<"nop">>

\* Where syscall_addresses has an address.
Slots ==
  {"CFREE", "EXIT", "FXSTAT64", "LIBC_MALLOC", "LIBC_OPEN", "LIBC_READ", "LIBC_WRITE", "MMAP",
   "MUNMAP", "UNAME", "CXX_EX_AND_ADD", "CXX_ATOMIC_ADD",
   "GETGID", "GETEGID", "GETPID", "GETEUID", "GETUID"}

init_syscalls ==
  [slot \in Slots |-> IF slot \in {"CXX_EX_AND_ADD", "CXX_ATOMIC_ADD"} THEN DEFAULT_CXX ELSE DEFAULT]

fill_syscall(call) == <<<<"li", 2, call>>, <<"syscall">>, <<"jr", 31>>, NOP>>

fill_ex_and_add ==
  <<<<"lw", 2, 4>>, NOP, <<"addu", 3, 5, 2>>, <<"sw", 3, 4>>, <<"jr", 31>>, <<"li", 3, 1>> >>

fill_atomic_add ==
  <<<<"lw", 2, 4>>, NOP, <<"addu", 2, 5, 2>>, <<"sw", 2, 4>>, <<"jr", 31>>, <<"li", 2, 1>> >>

\* The slots and what is written at their addresses, in that order.
fill_syscall_redirects(EMULATE_LLSC) ==
  << <<"CFREE", fill_syscall(4091)>>,     <<"EXIT", fill_syscall(4001)>>,
     <<"FXSTAT64", fill_syscall(4028)>>,  <<"LIBC_MALLOC", fill_syscall(4555)>>,
     <<"LIBC_OPEN", fill_syscall(4005)>>, <<"LIBC_READ", fill_syscall(4003)>>,
     <<"LIBC_WRITE", fill_syscall(4004)>>, <<"MMAP", fill_syscall(4090)>>,
     <<"MUNMAP", fill_syscall(4091)>>,    <<"UNAME", fill_syscall(4122)>> >>
  \o IF EMULATE_LLSC THEN << <<"CXX_EX_AND_ADD", fill_ex_and_add>>,
                             <<"CXX_ATOMIC_ADD", fill_atomic_add>> >> ELSE <<>>

\* The memory after words were written from an address on.
Filled(memory, address, words) ==
  [a \in DOMAIN memory |->
     IF a \in address .. address + Len(words) - 1 THEN words[a - address + 1] ELSE memory[a]]

----------------------------------------------------------------------------

\* (Without room for the results.)
WriteAlone(instruction) == <<instruction>>

write_instruction(instruction) == <<instruction>> \o [i \in 1 .. NOOP_LOOP |-> NOP]

write_load_immediate(regno, value) ==
  write_instruction(<<"lui", regno, (value \div HALFWORD) % HALFWORD>>)
    \o write_instruction(<<"ori", regno, value % HALFWORD>>)

write_initialization_vector(sp, gp, start) ==
  write_load_immediate(29, sp)
    \o (IF gp # NO_GP THEN write_load_immediate(28, gp) ELSE <<>>)
    \o write_load_immediate(31, start)
    \o write_instruction(<<"jr", 31>>) \o write_instruction(NOP)

----------------------------------------------------------------------------
(* functionBypass takes the addresses from a listing instead, whose lines  *)
(* have an address and may mention a function; its last mention counts.    *)

Tags ==
  [getgid |-> "GETGID", getegid |-> "GETEGID", getpid |-> "GETPID", geteuid |-> "GETEUID",
   getuid |-> "GETUID", __uname |-> "UNAME", __libc_malloc |-> "LIBC_MALLOC", __cfree |-> "CFREE",
   ___fxstat64 |-> "FXSTAT64", __mmap |-> "MMAP", __libc_write |-> "LIBC_WRITE",
   __munmap |-> "MUNMAP", _exit |-> "EXIT", __libc_read |-> "LIBC_READ", __libc_open |-> "LIBC_OPEN",
   exchange_and_add |-> "CXX_EX_AND_ADD", atomic_add |-> "CXX_ATOMIC_ADD"]

functionBypass(addresses, listing) ==
  FoldLeft(LAMBDA found, line :
             IF line.name \in DOMAIN Tags THEN [found EXCEPT ![Tags[line.name]] = line.address]
             ELSE found,
           addresses, listing)

=============================================================================
