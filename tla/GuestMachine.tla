---------------------------- MODULE GuestMachine ----------------------------
(***************************************************************************)
(* The hello-world guest (guest/hello.S) on a machine of its own, where    *)
(* HLT simply completes.  This is what the guest must not be able to tell  *)
(* from running under the hypervisor: registers and instruction pointer    *)
(* evolve as below, whatever the intercepts do in between.                 *)
(***************************************************************************)
EXTENDS Naturals

\* The general-purpose registers host_entry saves, all but RSP.
GPR == {"rax", "rcx", "rdx", "rbx", "rbp", "rsi", "rdi", "r8",
        "r9", "r10", "r11", "r12", "r13", "r14", "r15"}

\* What a register can hold: its own value at launch (named like the register),
\* one of the two immediates, or something the host left in it.
RegValue == GPR \cup {"0xDEADBEEF", "0x12345678", "host"}

\* Offsets of the instructions in guest/hello.bin: mov edi (5 bytes),
\* mov ebx (5), hlt (1), jmp -3 (2).
MovEdi == 0
MovEbx == 5
Hlt == 10
Jmp == 11

InstructionStart == {MovEdi, MovEbx, Hlt, Jmp}

VARIABLES rip, regs

guestVars == <<rip, regs>>

GuestTypeOK == rip \in InstructionStart /\ regs \in [GPR -> RegValue]

GuestInit == rip = MovEdi /\ regs = [r \in GPR |-> r]

\* The instructions that do not leave the guest.
Compute ==
  \/ /\ rip = MovEdi
     /\ rip' = MovEbx
     /\ regs' = [regs EXCEPT !["rdi"] = "0xDEADBEEF"]
  \/ /\ rip = MovEbx
     /\ rip' = Hlt
     /\ regs' = [regs EXCEPT !["rbx"] = "0x12345678"]
  \/ /\ rip = Jmp
     /\ rip' = Hlt
     /\ UNCHANGED regs

Halt ==
  /\ rip = Hlt
  /\ rip' = Jmp
  /\ UNCHANGED regs

GuestSpec == GuestInit /\ [][Compute \/ Halt]_guestVars
=============================================================================
