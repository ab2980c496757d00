-------------------------- MODULE RefinementProofs --------------------------
(***************************************************************************)
(* Hypervisor implements its two abstract specifications.  The mappings    *)
(* are those of Hypervisor itself: GuestRegs for the machine of the guest, *)
(* SessionPhase and EXIT_COUNT for the session.  Each step of Next maps to *)
(* a step of the abstract specification or to a stutter, from any state    *)
(* that satisfies the invariant.                                           *)
(***************************************************************************)
EXTENDS HypervisorProofs

----------------------------------------------------------------------------
(* The guest                                                               *)

\* The registers of the guest survive the pushes: they are on the stack when
\* exit_handler overwrites the ones it may.
LEMMA ExitKeepsGuestRegs ==
  ASSUME IInv, HandleExit
  PROVE  GuestRegs' = GuestRegs
<1>1. stack = << >> BY DEF IInv, ExitInv, HandleExit
<1>2. stack' = Pushed /\ Pushed # << >> /\ Unwound(Pushed) = regs
  BY UnwoundPushed DEF HandleExit, IInv, TypeOK
<1> QED BY <1>1, <1>2 DEF GuestRegs

\* Every step is a step of the guest's own machine, or nothing to the guest.
LEMMA GuestStep ==
  ASSUME IInv, [Next]_vars
  PROVE  [Guest!Compute \/ Guest!Halt]_Guest!guestVars
<1> USE DEF Guest!guestVars, guestVars, exitVars, GuestRegs
<1>1. CASE GuestComputes
  <2>1. GuestRegs = regs /\ GuestRegs' = regs'
    BY <1>1 DEF GuestComputes, IInv, ExitInv
  <2>2. Compute BY <1>1 DEF GuestComputes
  <2>3. Guest!Compute
    BY <2>1, <2>2 DEF Compute, MovEdi, MovEbx, Hlt, Jmp,
       Guest!Compute, Guest!MovEdi, Guest!MovEbx, Guest!Hlt, Guest!Jmp
  <2> QED BY <2>3
<1>2. CASE HandleExit
  <2>1. GuestRegs' = GuestRegs BY <1>2, ExitKeepsGuestRegs
  <2>2. CASE reason = "hlt" /\ rip' = Jmp
    <3>1. rip = Hlt BY <1>2, <2>2 DEF HandleExit, IInv, ExitInv
    <3>2. Guest!Halt
      BY <2>1, <2>2, <3>1 DEF Hlt, Jmp, Guest!Halt, Guest!Hlt, Guest!Jmp
    <3> QED BY <3>2
  <2>3. CASE reason # "hlt" /\ UNCHANGED rip BY <2>1, <2>3
  <2> QED BY <1>2, <2>2, <2>3, HandleExitEffect
<1>3. CASE Resume \/ Stop
  <2>1. stack # << >> /\ stack' = << >> /\ regs' = Unwound(stack) /\ rip' = rip
    BY <1>3 DEF Resume, Stop, IInv, ExitInv
  <2> QED BY <2>1
<1>4. CASE EnterGuest BY <1>4 DEF EnterGuest
<1>5. CASE GuestHalts \/ GuestInterrupted
  BY <1>5 DEF GuestHalts, GuestInterrupted, VmExit
<1>6. CASE \/ Probe \/ FeatureControl \/ ApplyFixedBits \/ AllocVmxon \/ Vmxon
           \/ Alloc \/ Vmclear \/ Vmptrld \/ WriteState
  BY <1>6 DEF Probe, FeatureControl, ApplyFixedBits, AllocVmxon, Vmxon,
     Alloc, Vmclear, Vmptrld, WriteState
<1>7. CASE AtRest \/ UNCHANGED vars BY <1>7 DEF AtRest, vars
<1> QED BY <1>1, <1>2, <1>3, <1>4, <1>5, <1>6, <1>7 DEF Next

\* Interception is transparent to the guest: its registers and instruction
\* pointer evolve as on a machine of its own where HLT completes, through every
\* exit, push, call of exit_handler, pop and resume.
THEOREM Transparency == Spec => Transparent
<1>1. Init => Guest!GuestInit
  BY DEF Init, GuestInit, Guest!GuestInit, GuestRegs, MovEdi, Guest!MovEdi, GPR, Guest!GPR
<1>2. IInv /\ [Next]_vars => [Guest!Compute \/ Guest!Halt]_Guest!guestVars
  BY GuestStep
<1> QED BY <1>1, <1>2, Invariance, PTL DEF Spec, Transparent, Guest!GuestSpec

----------------------------------------------------------------------------
(* The session                                                             *)

\* A handled exit is counted below the limit, is the last one, or abandons the
\* session: the three ways of VmxSession out of the hypervisor's phase.
LEMMA ExitIsSessionStep ==
  ASSUME IInv, HandleExit
  PROVE  [Session!SessionNext]_Session!sessionVars
<1> USE DEF Session!sessionVars, Session!SessionNext, SessionPhase, Rest
<1>1. /\ pc = "host_entry" /\ mode = "root" /\ SessionPhase = "hypervisor"
      /\ EXIT_COUNT \in Nat
  BY DEF HandleExit, IInv, ModeInv, OnExit, TypeOK
<1>2. CASE pc' = "resume" /\ UNCHANGED mode
  <2>1. EXIT_COUNT' = EXIT_COUNT + 1 /\ EXIT_COUNT' < MAX_HLT_EXITS
    BY <1>2, HandleExitEffect
  <2>2. Session!Count BY <1>1, <1>2, <2>1 DEF Session!Count
  <2> QED BY <2>2
<1>3. CASE pc' \in {"stop", "fault"} /\ mode' = "off"
  <2>1. SessionPhase' = "over" BY <1>3
  <2>2. CASE EXIT_COUNT' = EXIT_COUNT + 1 /\ EXIT_COUNT' = MAX_HLT_EXITS
    <3>1. Session!CountLast BY <1>1, <2>1, <2>2 DEF Session!CountLast
    <3> QED BY <3>1
  <2>3. CASE UNCHANGED EXIT_COUNT
    <3>1. Session!Abandon BY <1>1, <2>1, <2>3 DEF Session!Abandon
    <3> QED BY <3>1
  <2> QED BY <1>3, <2>2, <2>3, HandleExitEffect
<1> QED BY <1>2, <1>3, HandleExitEffect

\* Every step is a step of the session, or nothing to it.
LEMMA SessionStep ==
  ASSUME IInv, [Next]_vars
  PROVE  [Session!SessionNext]_Session!sessionVars
<1> USE DEF Session!sessionVars, Session!SessionNext, SessionPhase,
            BeforeVmxon, NoVmcsYet, VmcsLoaded, OnExit, Rest, exitVars
<1>1. CASE Probe
  BY <1>1 DEF Probe, IInv, ModeInv, cpuVars, Session!Refuse
<1>2. CASE FeatureControl
  BY <1>2 DEF FeatureControl, IInv, ModeInv, Session!Refuse
<1>3. CASE ApplyFixedBits
  BY <1>3 DEF ApplyFixedBits, IInv, ModeInv, Session!Refuse
<1>4. CASE AllocVmxon
  BY <1>4 DEF AllocVmxon, IInv, ModeInv, cpuVars, Session!Refuse
<1>5. CASE Vmxon
  BY <1>5 DEF Vmxon, vmxon, Reported, IInv, ModeInv, Session!Refuse, Session!Enter
<1>6. CASE Alloc
  BY <1>6 DEF Alloc, AfterAlloc, vmxoff_and_clear, vmxoff, undoVars, IInv, ModeInv,
     Session!Abandon
<1>7. CASE Vmclear
  BY <1>7 DEF Vmclear, Checked, vmxoff_and_clear, vmxoff, undoVars, IInv, ModeInv,
     Session!Abandon
<1>8. CASE Vmptrld
  BY <1>8 DEF Vmptrld, Checked, vmxoff_and_clear, vmxoff, undoVars, IInv, ModeInv,
     Session!Abandon
<1>9. CASE WriteState BY <1>9 DEF WriteState, IInv, ModeInv
<1>10. CASE EnterGuest
  BY <1>10 DEF EnterGuest, VmEntry, IInv, ModeInv, ExitInv, Session!RunGuest
<1>11. CASE GuestComputes BY <1>11 DEF GuestComputes, cpuVars
<1>12. CASE GuestHalts \/ GuestInterrupted
  BY <1>12 DEF GuestHalts, GuestInterrupted, VmExit, IInv, ModeInv, Session!LeaveGuest
<1>13. CASE HandleExit BY <1>13, ExitIsSessionStep
<1>14. CASE Resume
  BY <1>14 DEF Resume, VmEntry, IInv, ModeInv, ExitInv, Session!RunGuest
<1>15. CASE Stop BY <1>15 DEF Stop, IInv, ModeInv, cpuVars
<1>16. CASE AtRest \/ UNCHANGED vars BY <1>16 DEF AtRest, vars, cpuVars
<1> QED BY <1>1, <1>2, <1>3, <1>4, <1>5, <1>6, <1>7, <1>8, <1>9, <1>10,
           <1>11, <1>12, <1>13, <1>14, <1>15, <1>16 DEF Next

\* The hypervisor keeps the promise of VmxSession for every limit: VMX operation
\* is entered at most once, the guest runs only inside it and is intercepted at
\* most MAX_HLT_EXITS times, and what is over stays over with VMX off.
THEOREM Promise == Spec => OneSession
<1>1. Init => Session!SessionInit
  BY DEF Init, CpuInit, Session!SessionInit, SessionPhase, Rest
<1>2. IInv /\ [Next]_vars => [Session!SessionNext]_Session!sessionVars
  BY SessionStep
<1> QED BY <1>1, <1>2, Invariance, PTL DEF Spec, OneSession, Session!SessionSpec
=============================================================================
