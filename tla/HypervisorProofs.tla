-------------------------- MODULE HypervisorProofs --------------------------
(***************************************************************************)
(* The invariant of HypervisorInv, proved inductive for every number of    *)
(* frames and every limit MAX_HLT_EXITS, and the safety properties of the  *)
(* runs as its consequences.  One lemma per action of Next that disturbs   *)
(* more than pc; the exit path rests on the lemmas about its stack.        *)
(***************************************************************************)
EXTENDS HypervisorInv, SequenceTheorems, TLAPS

----------------------------------------------------------------------------
(* The host stack of the exit path                                         *)

\* Each register is popped exactly once, by the pop that mirrors its push: the
\* k-th of the 15 pops takes the (16 - k)-th of the 16 words pushed.
LEMMA PopMirrorsPush ==
  \A r \in GPR : \E k \in 1 .. 15 :
    /\ PopOrder[k] = r
    /\ PushOrder[16 - k] = r
    /\ \A j \in 1 .. 15 : PopOrder[j] = r => j = k
BY DEF GPR, PopOrder, PushOrder

\* The same of the pop that Unwound chooses for a register.
LEMMA ChosenPop ==
  ASSUME NEW r \in GPR
  PROVE  LET k == CHOOSE k \in DOMAIN PopOrder : PopOrder[k] = r
         IN  k \in 1 .. 15 /\ PushOrder[16 - k] = r
<1>1. DOMAIN PopOrder = 1 .. 15 BY DEF PopOrder
<1>2. \E k \in 1 .. 15 : PopOrder[k] = r BY PopMirrorsPush
<1>3. \A k \in 1 .. 15 : PopOrder[k] = r => PushOrder[16 - k] = r
  BY PopMirrorsPush
<1> QED BY <1>1, <1>2, <1>3

\* What host_entry pushes is 16 words long.
LEMMA StackDepth ==
  ASSUME NEW S, NEW s \in [DOMAIN PushOrder -> S]
  PROVE  Len(s) = 16 /\ s # << >>
<1>1. DOMAIN PushOrder = 1 .. 16 BY DEF PushOrder
<1>2. s \in Seq(S) BY <1>1, SeqDef
<1>3. Len(s) = 16 BY <1>1, <1>2, LenProperties
<1>4. s # << >> BY <1>3
<1> QED BY <1>3, <1>4

\* Popping a stack of register values leaves register values.
LEMMA UnwoundType ==
  ASSUME NEW s \in [DOMAIN PushOrder -> RegValue]
  PROVE  Unwound(s) \in [GPR -> RegValue]
<1>1. DOMAIN PushOrder = 1 .. 16 BY DEF PushOrder
<1>2. Len(s) = 16 BY StackDepth
<1>3. ASSUME NEW r \in GPR
      PROVE  s[Len(s) - (CHOOSE k \in DOMAIN PopOrder : PopOrder[k] = r)] \in RegValue
  <2> DEFINE k == CHOOSE k \in DOMAIN PopOrder : PopOrder[k] = r
  <2>1. k \in 1 .. 15 BY ChosenPop
  <2> HIDE DEF k
  <2>2. s[16 - k] \in RegValue BY <1>1, <2>1
  <2> QED BY <1>2, <2>2 DEF k
<1> QED BY <1>3 DEF Unwound

\* The pops restore exactly the registers that were pushed.
LEMMA UnwoundPushed ==
  ASSUME regs \in [GPR -> RegValue]
  PROVE  /\ Pushed \in [DOMAIN PushOrder -> RegValue]
         /\ Pushed # << >>
         /\ Unwound(Pushed) = regs
<1>1. DOMAIN PushOrder = 1 .. 16 BY DEF PushOrder
<1>2. \A i \in 1 .. 16 : PushOrder[i] \in GPR BY DEF PushOrder, GPR
<1>3. Pushed \in [DOMAIN PushOrder -> RegValue] BY <1>1, <1>2 DEF Pushed
<1>4. Len(Pushed) = 16 BY <1>3, StackDepth
<1>5. Pushed # << >> BY <1>3, StackDepth
<1>6. ASSUME NEW r \in GPR PROVE Unwound(Pushed)[r] = regs[r]
  <2> DEFINE k == CHOOSE k \in DOMAIN PopOrder : PopOrder[k] = r
  <2>1. k \in 1 .. 15 /\ PushOrder[16 - k] = r BY ChosenPop
  <2>2. Unwound(Pushed)[r] = Pushed[16 - k] BY <1>4 DEF Unwound
  <2> HIDE DEF k
  <2>3. Pushed[16 - k] = regs[r] BY <1>1, <2>1 DEF Pushed
  <2> QED BY <2>2, <2>3
<1>7. Unwound(Pushed) = [r \in GPR |-> regs[r]] BY <1>6 DEF Unwound
<1> QED BY <1>3, <1>5, <1>7

----------------------------------------------------------------------------
(* The effect of the two steps that do most                                *)

\* With a current VMCS no VMWRITE of write_state is reported as failed.
LEMMA VmwriteSucceeds ==
  ASSUME mode = "root", current # None, fields \in [SdmField -> FieldValue],
         NEW result, vmwrite(StateWrites, result)
  PROVE  result = "ok" /\ fields' \in [SdmField -> FieldValue]
<1>1. \A w \in StateWrites : w.value \in FieldValue
  BY DEF StateWrites, FieldValue, HostSelector
<1>2. \A f \in SdmField :
        (\E w \in StateWrites : w.field = f) =>
          (CHOOSE w \in StateWrites : w.field = f).value \in FieldValue
  BY <1>1
<1> QED BY <1>2 DEF vmwrite

\* What a handled exit does: resume below the limit with VMX as it was, or
\* stop with the VMCS cleared and VMX off (a fault may strike after that).
LEMMA HandleExitEffect ==
  ASSUME IInv, HandleExit
  PROVE  /\ \/ /\ reason = "hlt" /\ rip' = Jmp
               /\ EXIT_COUNT' = EXIT_COUNT + 1
               /\ \/ pc' = "resume" /\ EXIT_COUNT' < MAX_HLT_EXITS
                  \/ pc' # "resume" /\ EXIT_COUNT' = MAX_HLT_EXITS
            \/ /\ reason # "hlt" /\ pc' # "resume"
               /\ UNCHANGED <<EXIT_COUNT, rip>>
         /\ \/ /\ pc' = "resume" /\ reason = "hlt"
               /\ UNCHANGED <<launch, current, mode, vmxonPtr, cr4Vmxe, VMX_ACTIVE>>
            \/ /\ pc' \in {"stop", "fault"}
               /\ launch' = [launch EXCEPT ![current] = "clear"]
               /\ current' = None /\ mode' = "off" /\ vmxonPtr' = None
               /\ cr4Vmxe' \in BOOLEAN /\ VMX_ACTIVE' \in BOOLEAN
               /\ pc' = "stop" => ~VMX_ACTIVE'
<1>1. /\ pc = "host_entry" /\ mode = "root" /\ VMX_ACTIVE
      /\ EXIT_COUNT \in Nat /\ EXIT_COUNT < MAX_HLT_EXITS
      /\ current = mem[VMCS_REGION] /\ ~BadPointer(current)
      /\ cr4Vmxe \in BOOLEAN
  BY DEF HandleExit, IInv, TypeOK, CpuTypeOK, ModeInv, StaticsInv, VmcsInv,
       ExitInv, OnExit
<1>2. exit_handler(reason)
  BY <1>1 DEF HandleExit, vmread, BadPointer
<1>3. \/ /\ reason = "hlt" /\ rip' = Jmp
         /\ EXIT_COUNT' = EXIT_COUNT + 1
         /\ \/ pc' = "resume" /\ EXIT_COUNT' < MAX_HLT_EXITS
            \/ pc' # "resume" /\ EXIT_COUNT' = MAX_HLT_EXITS
      \/ /\ reason # "hlt" /\ pc' # "resume"
         /\ UNCHANGED <<EXIT_COUNT, rip>>
  <2>1. CASE reason = "hlt" /\ CountHlt
    <3>1. rip = Hlt BY <1>1, <2>1 DEF IInv, ExitInv
    <3>2. EXIT_COUNT' = EXIT_COUNT + 1 /\ rip' = Jmp
      BY <2>1, <3>1 DEF CountHlt, Count, HltLength, Hlt, Jmp
    <3>3. IF EXIT_COUNT + 1 >= MAX_HLT_EXITS THEN teardown("stop") ELSE pc' = "resume"
      BY <2>1 DEF CountHlt, Count, LimitReached
    <3>4. teardown("stop") => pc' # "resume" BY DEF teardown
    <3> QED BY <1>1, <2>1, <3>2, <3>3, <3>4, MaxHltExitsAssumption
  <2>2. CASE reason # "hlt" /\ teardown("stop") /\ UNCHANGED <<EXIT_COUNT, rip>>
    BY <2>2 DEF teardown
  <2> QED BY <1>2, <2>1, <2>2 DEF exit_handler
<1>4. ASSUME teardown("stop")
      PROVE  /\ pc' \in {"stop", "fault"}
             /\ launch' = [launch EXCEPT ![current] = "clear"]
             /\ current' = None /\ mode' = "off" /\ vmxonPtr' = None
             /\ cr4Vmxe' \in BOOLEAN /\ VMX_ACTIVE' \in BOOLEAN
             /\ pc' = "stop" => ~VMX_ACTIVE'
  <2>1. PICK cleared \in {"ok", "err", "ud"}, left \in {"ok", "ud"} :
          /\ vmclear(mem, VMCS_REGION, cleared)
          /\ vmxoff(left)
          /\ \/ "ud" \in {cleared, left}
             \/ read_cr4("off", "ok") /\ VMX_ACTIVE' = FALSE /\ pc' = "stop"
             \/ read_cr4("off", "fault") /\ UNCHANGED VMX_ACTIVE /\ pc' = "fault"
    BY <1>1, <1>4 DEF teardown
  <2>2. /\ cleared = "ok" /\ current' = None
        /\ launch' = [launch EXCEPT ![current] = "clear"]
    BY <1>1, <2>1 DEF vmclear
  <2>3. left = "ok" /\ mode' = "off" /\ vmxonPtr' = None
    BY <1>1, <2>1 DEF vmxoff
  <2>4. \/ read_cr4("off", "ok") /\ VMX_ACTIVE' = FALSE /\ pc' = "stop"
        \/ read_cr4("off", "fault") /\ UNCHANGED VMX_ACTIVE /\ pc' = "fault"
    BY <2>1, <2>2, <2>3
  <2> QED BY <1>1, <2>2, <2>3, <2>4 DEF read_cr4
<1>5. \/ /\ pc' = "resume" /\ reason = "hlt"
         /\ UNCHANGED <<launch, current, mode, vmxonPtr, cr4Vmxe, VMX_ACTIVE>>
      \/ teardown("stop")
  BY <1>2 DEF exit_handler, CountHlt
<1> QED BY <1>3, <1>4, <1>5

USE FrameCountAssumption, MaxHltExitsAssumption

\* The frames the model names are frames, and none of them is no frame.
LEMMA FramesInUse ==
  /\ Null \in Frame /\ None \notin Frame
  /\ \A k \in 1 .. 5 : k \in Frame /\ k # Null
  /\ \A k \in 1 .. 5 : Page(k) \in Frame
BY DEF Null, None, Frame, Page

----------------------------------------------------------------------------
(* Every action keeps the invariant                                        *)

\* CPUID decides between the two ways out of the first step.
LEMMA KeepsProbe == IInv /\ Probe => IInv'
<1> SUFFICES ASSUME IInv, Probe PROVE IInv' OBVIOUS
<1> USE DEF Probe, cpuVars, controlVars, crVars, pointerVars, vmcsVars,
            guestVars, statics, exitVars, BeforeVmxon, NoVmcsYet, VmcsLoaded,
            OnExit, PagesAt, Step, Rest
<1>1. TypeOK' BY DEF IInv, TypeOK, CpuTypeOK
<1>2. ModeInv' BY DEF IInv, ModeInv
<1>3. StaticsInv' BY DEF IInv, StaticsInv
<1>4. VmcsInv' BY DEF VmcsInv
<1>5. ExitInv' BY DEF IInv, ExitInv
<1>6. NullPageInv' BY DEF IInv, NullPageInv
<1> QED BY <1>1, <1>2, <1>3, <1>4, <1>5, <1>6 DEF IInv

\* IA32_FEATURE_CONTROL is read, and written if it is not locked.
LEMMA KeepsFeatureControl == IInv /\ FeatureControl => IInv'
<1> SUFFICES ASSUME IInv, FeatureControl PROVE IInv' OBVIOUS
<1> USE DEF FeatureControl, feature_control, cpuVars, controlVars, crVars,
            pointerVars, vmcsVars, guestVars, statics, exitVars, BeforeVmxon,
            NoVmcsYet, VmcsLoaded, OnExit, PagesAt, Step, Rest
<1>1. TypeOK'
  <2>1. feature' \in SUBSET {"lock", "smx", "outside"} /\ pc' \in Step \cup Rest
    BY DEF IInv, TypeOK, CpuTypeOK
  <2> HIDE DEF feature_control
  <2> QED BY <2>1 DEF IInv, TypeOK, CpuTypeOK
<1>2. ModeInv' BY DEF IInv, ModeInv
<1>3. StaticsInv' BY DEF IInv, StaticsInv
<1>4. VmcsInv' BY DEF VmcsInv
<1>5. ExitInv' BY DEF IInv, ExitInv
<1>6. NullPageInv' BY DEF IInv, NullPageInv
<1> QED BY <1>1, <1>2, <1>3, <1>4, <1>5, <1>6 DEF IInv

\* CR0 and CR4 may take any value before VMXON.
LEMMA KeepsApplyFixedBits == IInv /\ ApplyFixedBits => IInv'
<1> SUFFICES ASSUME IInv, ApplyFixedBits PROVE IInv' OBVIOUS
<1> USE DEF ApplyFixedBits, apply_fixed_bits, read_cr0, read_cr4, controlVars,
            pointerVars, vmcsVars, guestVars, statics, exitVars, BeforeVmxon,
            NoVmcsYet, VmcsLoaded, OnExit, PagesAt, Step, Rest
<1>1. TypeOK' BY DEF IInv, TypeOK, ModeInv, CpuTypeOK
<1>2. ModeInv' BY DEF IInv, ModeInv
<1>3. StaticsInv' BY DEF IInv, ModeInv, StaticsInv
<1>4. VmcsInv' BY DEF VmcsInv
<1>5. ExitInv' BY DEF IInv, ExitInv
<1>6. NullPageInv' BY DEF IInv, ModeInv, NullPageInv
<1> QED BY <1>1, <1>2, <1>3, <1>4, <1>5, <1>6 DEF IInv

\* The page for the VMXON region is the first allocation.
LEMMA KeepsAllocVmxon == IInv /\ AllocVmxon => IInv'
<1> SUFFICES ASSUME IInv, AllocVmxon PROVE IInv' OBVIOUS
<1> USE DEF AllocVmxon, allocate_pages, cpuVars, controlVars, crVars,
            pointerVars, vmcsVars, guestVars, statics, exitVars, BeforeVmxon,
            NoVmcsYet, VmcsLoaded, OnExit, PagesAt, Step, Rest
<1>1. TypeOK' BY DEF IInv, TypeOK, StaticsInv, CpuTypeOK
<1>2. ModeInv' BY DEF IInv, ModeInv
<1>3. StaticsInv' BY DEF IInv, StaticsInv
<1>4. VmcsInv' BY DEF VmcsInv
<1>5. ExitInv' BY DEF IInv, ExitInv
<1>6. NullPageInv' BY DEF IInv, NullPageInv
<1> QED BY <1>1, <1>2, <1>3, <1>4, <1>5, <1>6 DEF IInv

\* VMXON turns VMX operation on, fails or faults.
LEMMA KeepsVmxon == IInv /\ Vmxon => IInv'
<1> SUFFICES ASSUME IInv, Vmxon PROVE IInv' OBVIOUS
<1> USE DEF Vmxon, vmxon, Reported, controlVars, crVars, vmcsVars, guestVars,
            exitVars, statics, BeforeVmxon, NoVmcsYet, VmcsLoaded, OnExit, PagesAt,
            Step, Rest, Address
<1>1. Page(1) \in Frame /\ Null \in Frame /\ None \in Address
  BY FramesInUse
<1>2. /\ pc = "vmxon" /\ pages = 1 /\ mode = "off" /\ VMXON_REGION = Null
      /\ EXIT_COUNT = 0 /\ reason = "none" /\ ~VMX_ACTIVE /\ stack = << >>
  BY DEF IInv, ModeInv, StaticsInv, ExitInv
<1>3. mem' \in [Frame -> Address]
  BY <1>1, <1>2 DEF IInv, TypeOK, CpuTypeOK
<1>4. /\ UNCHANGED <<controlVars, crVars, vmcsVars, guestVars, pages, launch>>
      /\ UNCHANGED <<SYSTEM_TABLE, VMCS_REGION, VMX_ACTIVE, exitVars>>
      /\ \/ /\ pc' = "alloc_vmcs" /\ VMXON_REGION' = Page(1)
            /\ mode' = "root" /\ current' = None
            /\ vmxonPtr' \in Frame /\ mem'[Page(1)] = vmxonPtr'
         \/ /\ pc' \in {"returned", "fault"}
            /\ UNCHANGED <<mode, vmxonPtr, current, VMXON_REGION>>
  BY <1>1, <1>2 DEF IInv, TypeOK, CpuTypeOK
<1> HIDE DEF Vmxon, vmxon
<1>5. TypeOK' BY <1>1, <1>2, <1>3, <1>4 DEF IInv, TypeOK, CpuTypeOK
<1>6. ModeInv' BY <1>2, <1>4 DEF ModeInv
<1>7. StaticsInv' BY <1>2, <1>4 DEF StaticsInv, Page
<1>8. NullPageInv' BY <1>2, <1>4 DEF NullPageInv, Page
<1>9. VmcsInv' BY <1>2, <1>4 DEF VmcsInv
<1>10. ExitInv' BY <1>2, <1>4 DEF ExitInv
<1> QED BY <1>5, <1>6, <1>7, <1>8, <1>9, <1>10 DEF IInv

\* An allocation of setup after VMXON succeeds, or everything is undone.
LEMMA KeepsAlloc == IInv /\ Alloc => IInv'
<1> SUFFICES ASSUME IInv, Alloc PROVE IInv' OBVIOUS
<1> USE DEF BadPointer, Address, cpuVars, controlVars, crVars, pointerVars,
            vmcsVars, guestVars, statics, exitVars, undoVars, BeforeVmxon,
            NoVmcsYet, VmcsLoaded, OnExit, PagesAt, Step, Rest
<1>1. Null \in Frame /\ (SYSTEM_TABLE = "efi.rs" => Page(1) # Null)
  BY FramesInUse DEF Page, Null
<1>2. /\ pc \in DOMAIN AfterAlloc /\ mode = "root" /\ VMXON_REGION = Page(1)
      /\ ~VMX_ACTIVE /\ stack = << >> /\ cr4Vmxe \in BOOLEAN
  BY DEF Alloc, AfterAlloc, IInv, TypeOK, CpuTypeOK, ModeInv, StaticsInv, ExitInv
<1>3. /\ UNCHANGED <<controlVars, cr0Fixed, current, launch, mem, vmcsVars>>
      /\ UNCHANGED <<guestVars, SYSTEM_TABLE, VMCS_REGION, VMX_ACTIVE, exitVars>>
  BY DEF Alloc
<1>4. \/ pc' = AfterAlloc[pc] /\ pages' = pages + 1 /\ UNCHANGED undoVars
      \/ /\ pc' \in {"returned", "fault"} /\ UNCHANGED pages
         /\ cr4Vmxe' \in BOOLEAN /\ VMXON_REGION' \in {VMXON_REGION, Null}
         /\ \/ UNCHANGED <<mode, vmxonPtr>>
            \/ mode' = "off" /\ vmxonPtr' = None
         /\ pc' = "returned" /\ SYSTEM_TABLE = "efi.rs" => mode' = "off"
  BY <1>1, <1>2 DEF Alloc, allocate_pages, vmxoff_and_clear, vmxoff, read_cr4
<1>5. TypeOK' BY <1>1, <1>2, <1>3, <1>4 DEF AfterAlloc, IInv, TypeOK, StaticsInv, CpuTypeOK
<1>6. ModeInv' BY <1>2, <1>3, <1>4 DEF AfterAlloc, ModeInv
<1>7. StaticsInv' BY <1>2, <1>3, <1>4 DEF AfterAlloc, IInv, StaticsInv, Page
<1>8. NullPageInv' BY <1>2, <1>3, <1>4 DEF AfterAlloc, IInv, NullPageInv
<1>9. VmcsInv' BY <1>2, <1>3, <1>4 DEF AfterAlloc, IInv, VmcsInv
<1>10. ExitInv' BY <1>2, <1>3, <1>4 DEF AfterAlloc, IInv, ExitInv
<1> QED BY <1>5, <1>6, <1>7, <1>8, <1>9, <1>10 DEF IInv

\* What setup does with the Result of VMCLEAR or VMPTRLD, in VMX operation: it
\* goes on, or undoes what it did and returns, unless the region is page 0.
LEMMA CheckedEffect ==
  ASSUME TypeOK, mode = "root", VMXON_REGION = Page(1),
         NEW result \in {"ok", "err"}, NEW next, Checked(result, next)
  PROVE  \/ result = "ok" /\ pc' = next /\ UNCHANGED undoVars
         \/ /\ result = "err"
            /\ pc' \in {"returned", "fault"}
            /\ cr4Vmxe' \in BOOLEAN /\ VMXON_REGION' \in {VMXON_REGION, Null}
            /\ \/ UNCHANGED <<mode, vmxonPtr>>
               \/ mode' = "off" /\ vmxonPtr' = None
            /\ pc' = "returned" /\ SYSTEM_TABLE = "efi.rs" => mode' = "off"
<1>1. SYSTEM_TABLE = "efi.rs" => Page(1) # Null
  BY FramesInUse DEF Page, Null
<1> QED BY <1>1 DEF Checked, vmxoff_and_clear, vmxoff, read_cr4, undoVars, TypeOK, CpuTypeOK

\* VMPTRLD makes the cleared VMCS current.
LEMMA KeepsVmptrld == IInv /\ Vmptrld => IInv'
<1> SUFFICES ASSUME IInv, Vmptrld PROVE IInv' OBVIOUS
<1> USE DEF BadPointer, Address, controlVars, vmcsVars, guestVars, exitVars,
            undoVars, BeforeVmxon, NoVmcsYet, VmcsLoaded, OnExit, PagesAt, Step, Rest
<1>1. /\ pc = "vmptrld" /\ pages = 2 /\ SYSTEM_TABLE = "efi.rs"
      /\ mode = "root" /\ VMXON_REGION = Page(1) /\ ~VMX_ACTIVE /\ stack = << >>
      /\ current = None /\ launch[mem[2]] = "clear" /\ ~BadPointer(mem[2])
      /\ mem \in [Frame -> Address]
  BY DEF Vmptrld, IInv, TypeOK, CpuTypeOK, ModeInv, StaticsInv, NullPageInv, VmcsInv, ExitInv
<1>2. /\ Page(2) = 2 /\ 2 \in Frame /\ Null \in Frame BY <1>1, FramesInUse DEF Page
<1>3. /\ UNCHANGED <<controlVars, cr0Fixed, launch, mem, vmcsVars, guestVars, pages>>
      /\ UNCHANGED <<SYSTEM_TABLE, VMX_ACTIVE, exitVars>>
  BY DEF Vmptrld
<1>4. PICK result \in {"ok", "err"} :
        /\ vmptrld(2, result) /\ Checked(result, "alloc_host_stack")
        /\ VMCS_REGION' = IF result = "ok" THEN 2 ELSE VMCS_REGION
  BY <1>1, <1>2 DEF Vmptrld, vmptrld, Reported
<1>5. current' = IF result = "ok" THEN mem[2] ELSE None
  BY <1>1, <1>4 DEF vmptrld, Reported, VMfail
<1>6. \/ result = "ok" /\ pc' = "alloc_host_stack" /\ UNCHANGED undoVars
      \/ /\ result = "err"
         /\ pc' \in {"returned", "fault"}
         /\ cr4Vmxe' \in BOOLEAN /\ VMXON_REGION' \in {VMXON_REGION, Null}
         /\ \/ UNCHANGED <<mode, vmxonPtr>>
            \/ mode' = "off" /\ vmxonPtr' = None
         /\ pc' = "returned" /\ SYSTEM_TABLE = "efi.rs" => mode' = "off"
  BY <1>1, <1>4, CheckedEffect DEF IInv
<1>7. TypeOK' BY <1>1, <1>2, <1>3, <1>4, <1>5, <1>6 DEF IInv, TypeOK, CpuTypeOK
<1>8. ModeInv' BY <1>1, <1>3, <1>6 DEF ModeInv
<1>9. StaticsInv' BY <1>1, <1>3, <1>6 DEF StaticsInv, Page
<1>10. NullPageInv' BY <1>1, <1>3, <1>6 DEF NullPageInv
<1>11. VmcsInv' BY <1>1, <1>2, <1>3, <1>4, <1>5, <1>6 DEF VmcsInv
<1>12. ExitInv' BY <1>1, <1>3, <1>6 DEF IInv, ExitInv
<1> QED BY <1>7, <1>8, <1>9, <1>10, <1>11, <1>12 DEF IInv

\* The guest runs an instruction of its own.
LEMMA KeepsGuestComputes == IInv /\ GuestComputes => IInv'
<1> SUFFICES ASSUME IInv, GuestComputes PROVE IInv' OBVIOUS
<1> USE DEF GuestComputes, Compute, InstructionStart, MovEdi, GPR, RegValue,
            BadPointer, cpuVars, controlVars, crVars, pointerVars, vmcsVars,
            statics, exitVars
<1>1. TypeOK' BY DEF IInv, TypeOK, CpuTypeOK
<1>2. ModeInv' BY DEF IInv, ModeInv
<1>3. StaticsInv' BY DEF IInv, StaticsInv, Page
<1>4. VmcsInv' BY DEF IInv, VmcsInv
<1>5. ExitInv' BY DEF IInv, ExitInv
<1>6. NullPageInv' BY DEF IInv, NullPageInv
<1> QED BY <1>1, <1>2, <1>3, <1>4, <1>5, <1>6 DEF IInv

\* HLT in the guest is a VM exit.
LEMMA KeepsGuestHalts == IInv /\ GuestHalts => IInv'
<1> SUFFICES ASSUME IInv, GuestHalts PROVE IInv' OBVIOUS
<1> USE DEF GuestHalts, VmExit, BadPointer, controlVars, crVars, pointerVars,
            vmcsVars, guestVars, statics, BeforeVmxon, NoVmcsYet, VmcsLoaded,
            OnExit, PagesAt, Step
<1>1. TypeOK' BY DEF IInv, TypeOK, CpuTypeOK, ExitReason
<1>2. ModeInv' BY DEF ModeInv
<1>3. StaticsInv' BY DEF IInv, StaticsInv
<1>4. VmcsInv' BY DEF IInv, VmcsInv
<1>5. ExitInv' BY DEF IInv, ExitInv
<1>6. NullPageInv' BY DEF IInv, NullPageInv
<1> QED BY <1>1, <1>2, <1>3, <1>4, <1>5, <1>6 DEF IInv

\* So is whatever else interrupts the guest.
LEMMA KeepsGuestInterrupted == IInv /\ GuestInterrupted => IInv'
<1> SUFFICES ASSUME IInv, GuestInterrupted PROVE IInv' OBVIOUS
<1> USE DEF GuestInterrupted, VmExit, BadPointer, controlVars, crVars,
            pointerVars, vmcsVars, guestVars, statics, BeforeVmxon, NoVmcsYet,
            VmcsLoaded, OnExit, PagesAt, Step
<1>1. TypeOK' BY DEF IInv, TypeOK, CpuTypeOK, ExitReason
<1>2. ModeInv' BY DEF ModeInv
<1>3. StaticsInv' BY DEF IInv, StaticsInv
<1>4. VmcsInv' BY DEF IInv, VmcsInv
<1>5. ExitInv' BY DEF IInv, ExitInv
<1>6. NullPageInv' BY DEF IInv, NullPageInv
<1> QED BY <1>1, <1>2, <1>3, <1>4, <1>5, <1>6 DEF IInv

\* VMCLEAR clears the VMCS it finds, or everything is undone.
LEMMA KeepsVmclear == IInv /\ Vmclear => IInv'
<1> SUFFICES ASSUME IInv, Vmclear PROVE IInv' OBVIOUS
<1> USE DEF controlVars, vmcsVars, guestVars, exitVars, undoVars, BeforeVmxon,
            NoVmcsYet, VmcsLoaded, OnExit, PagesAt, Step, Rest
<1>1. /\ pc = "vmclear" /\ pages = 2 /\ mode = "root" /\ VMXON_REGION = Page(1)
      /\ current = None /\ ~VMX_ACTIVE /\ stack = << >>
      /\ SYSTEM_TABLE = "UEFI" => mem[Null] = vmxonPtr
      /\ mem \in [Frame -> Address]
      /\ launch \in [Frame -> {"unknown", "clear", "launched"}]
  BY DEF Vmclear, IInv, TypeOK, CpuTypeOK, ModeInv, StaticsInv, NullPageInv, VmcsInv, ExitInv
<1>2. /\ Page(2) \in Frame /\ Null \in Frame
      /\ SYSTEM_TABLE = "efi.rs" => Page(2) = 2 /\ 2 \in Frame
      /\ SYSTEM_TABLE # "efi.rs" => Page(2) = Null /\ Page(1) = Null
  BY FramesInUse DEF Page
<1>3. /\ UNCHANGED <<controlVars, cr0Fixed, vmcsVars, guestVars, pages>>
      /\ UNCHANGED <<SYSTEM_TABLE, VMCS_REGION, VMX_ACTIVE, exitVars>>
  BY DEF Vmclear
<1>4. /\ mem' \in [Frame -> Address]
      /\ SYSTEM_TABLE = "UEFI" => mem'[Null] = vmxonPtr
  BY <1>1, <1>2 DEF Vmclear
<1>5. PICK result \in {"ok", "err"} :
        vmclear(mem', Page(2), result) /\ Checked(result, "vmptrld")
  BY <1>1 DEF Vmclear, vmclear, Reported
<1>6. /\ current' = None
      /\ launch' \in [Frame -> {"unknown", "clear", "launched"}]
      /\ result = "ok" =>
           /\ ~BadPointer(mem'[Page(2)])
           /\ launch'[mem'[Page(2)]] = "clear"
           /\ SYSTEM_TABLE = "efi.rs"
  <2> DEFINE addr == mem'[Page(2)]
  <2>1. addr \in Address BY <1>2, <1>4
  <2>2. CASE BadPointer(addr)
    BY <1>1, <1>5, <2>2 DEF vmclear, Reported, VMfail
  <2>3. CASE ~BadPointer(addr)
    <3>1. addr \in Frame BY <2>1, <2>3 DEF BadPointer, Address
    <3>2. /\ launch' = [launch EXCEPT ![addr] = "clear"]
          /\ current' = IF current = addr THEN None ELSE current
      BY <1>1, <1>5, <2>3 DEF vmclear
    <3>3. SYSTEM_TABLE = "efi.rs"
      BY <1>1, <1>2, <1>4, <2>3 DEF BadPointer, IInv, TypeOK
    <3> QED BY <1>1, <2>3, <3>1, <3>2, <3>3
  <2> QED BY <2>2, <2>3
<1>7. \/ result = "ok" /\ pc' = "vmptrld" /\ UNCHANGED undoVars
      \/ /\ result = "err"
         /\ pc' \in {"returned", "fault"}
         /\ cr4Vmxe' \in BOOLEAN /\ VMXON_REGION' \in {VMXON_REGION, Null}
         /\ \/ UNCHANGED <<mode, vmxonPtr>>
            \/ mode' = "off" /\ vmxonPtr' = None
         /\ pc' = "returned" /\ SYSTEM_TABLE = "efi.rs" => mode' = "off"
  BY <1>1, <1>5, CheckedEffect DEF IInv
<1>8. TypeOK' BY <1>1, <1>2, <1>3, <1>4, <1>6, <1>7 DEF IInv, TypeOK, CpuTypeOK, Address
<1>9. ModeInv' BY <1>1, <1>3, <1>7 DEF ModeInv
<1>10. StaticsInv' BY <1>1, <1>3, <1>7 DEF StaticsInv, Page
<1>11. NullPageInv' BY <1>1, <1>3, <1>6, <1>7 DEF NullPageInv
<1>12. VmcsInv' BY <1>1, <1>2, <1>3, <1>6, <1>7 DEF VmcsInv, BadPointer
<1>13. ExitInv' BY <1>1, <1>3, <1>7 DEF IInv, ExitInv
<1> QED BY <1>8, <1>9, <1>10, <1>11, <1>12, <1>13 DEF IInv

\* write_state fills the current VMCS or faults; it does not panic.
LEMMA KeepsWriteState == IInv /\ WriteState => IInv'
<1> SUFFICES ASSUME IInv, WriteState PROVE IInv' OBVIOUS
<1> USE DEF cpuVars, controlVars, crVars, pointerVars, vmcsVars, guestVars,
            statics, exitVars, undoVars, BeforeVmxon, NoVmcsYet, VmcsLoaded,
            OnExit, PagesAt, Step, Rest, None
<1>1. /\ pc = "write_state" /\ mode = "root" /\ current # None
      /\ fields \in [SdmField -> FieldValue]
      /\ UNCHANGED <<controlVars, mode, pointerVars, guestVars, pages>>
      /\ UNCHANGED <<SYSTEM_TABLE, VMXON_REGION, VMCS_REGION, exitVars>>
  BY DEF WriteState, BadPointer, IInv, TypeOK, CpuTypeOK, ModeInv, VmcsInv
<1>2. cr0Fixed' \in BOOLEAN /\ cr4Vmxe' \in BOOLEAN
  BY <1>1 DEF WriteState, read_cr0, read_cr4, IInv, TypeOK, CpuTypeOK
<1>3. \/ pc' = "fault" /\ UNCHANGED <<fields, entry, VMX_ACTIVE>>
      \/ /\ pc' = "enter_guest" /\ VMX_ACTIVE' = TRUE
         /\ fields' \in [SdmField -> FieldValue] /\ entry' \in Verdict
  <2>1. CASE pc' = "fault" /\ UNCHANGED <<vmcsVars, VMX_ACTIVE>> BY <2>1
  <2>2. CASE \E result \in {"ok", "err", "ud"} :
               /\ vmwrite(StateWrites, result)
               /\ pc' = [ok |-> "enter_guest", err |-> "panicked", ud |-> "ud"][result]
               /\ VMX_ACTIVE' = (result = "ok")
               /\ entry' \in Verdict \ {"unwritten"}
    <3>1. PICK result \in {"ok", "err", "ud"} :
               /\ vmwrite(StateWrites, result)
               /\ pc' = [ok |-> "enter_guest", err |-> "panicked", ud |-> "ud"][result]
               /\ VMX_ACTIVE' = (result = "ok")
               /\ entry' \in Verdict \ {"unwritten"}
      BY <2>2
    <3>2. result = "ok" /\ fields' \in [SdmField -> FieldValue]
      BY <1>1, <3>1, VmwriteSucceeds
    <3> QED BY <3>1, <3>2
  <2> QED BY <2>1, <2>2 DEF WriteState
<1>4. TypeOK' BY <1>1, <1>2, <1>3 DEF IInv, TypeOK, CpuTypeOK
<1>5. ModeInv' BY <1>1, <1>2, <1>3 DEF ModeInv
<1>6. StaticsInv' BY <1>1, <1>2, <1>3 DEF StaticsInv
<1>7. VmcsInv' BY <1>1, <1>2, <1>3 DEF IInv, VmcsInv, BadPointer
<1>8. ExitInv' BY <1>1, <1>2, <1>3 DEF IInv, ExitInv
<1>9. NullPageInv' BY <1>1, <1>2, <1>3 DEF IInv, NullPageInv
<1> QED BY <1>4, <1>5, <1>6, <1>7, <1>8, <1>9 DEF IInv

\* VMLAUNCH starts the guest, refuses it or falls through.
LEMMA KeepsEnterGuest == IInv /\ EnterGuest => IInv'
<1> SUFFICES ASSUME IInv, EnterGuest PROVE IInv' OBVIOUS
<1> USE DEF EnterGuest, VmEntry, EntryOutcome, controlVars, crVars, vmcsVars,
            guestVars, statics, BeforeVmxon, NoVmcsYet, VmcsLoaded, OnExit,
            PagesAt, Step, Rest
<1>1. TypeOK' BY DEF IInv, TypeOK, CpuTypeOK, ExitReason, Address
<1>2. ModeInv' BY DEF IInv, ModeInv
<1>3. StaticsInv' BY DEF IInv, ModeInv, StaticsInv
<1>4. VmcsInv'
  <2>1. CASE EntryOutcome("clear") = "guest"
    BY <2>1 DEF BadPointer, Address, Verdict, IInv, TypeOK, CpuTypeOK, VmcsInv
  <2>2. CASE EntryOutcome("clear") # "guest"
    BY <2>2 DEF BadPointer, IInv, VmcsInv
  <2> QED BY <2>1, <2>2
<1>5. ExitInv' BY DEF IInv, ExitInv
<1>6. NullPageInv' BY DEF IInv, ModeInv, NullPageInv
<1> QED BY <1>1, <1>2, <1>3, <1>4, <1>5, <1>6 DEF IInv

\* The exit handler resumes or tears everything down.
LEMMA KeepsHandleExit == IInv /\ HandleExit => IInv'
<1> SUFFICES ASSUME IInv, HandleExit PROVE IInv' OBVIOUS
<1> USE DEF cpuVars, controlVars, crVars, pointerVars, vmcsVars, guestVars,
            statics, exitVars, undoVars, BeforeVmxon, NoVmcsYet, VmcsLoaded,
            OnExit, PagesAt, Step, Rest, Frame, None
<1>1. /\ stack' \in [DOMAIN PushOrder -> RegValue] /\ stack' # << >>
      /\ regs' \in [GPR -> RegValue]
  <2>1. regs \in [GPR -> RegValue] BY DEF IInv, TypeOK
  <2>2. stack' \in [DOMAIN PushOrder -> RegValue] /\ stack' # << >>
    BY <2>1, UnwoundPushed DEF HandleExit
  <2>3. regs' \in [GPR -> RegValue] BY <2>1 DEF HandleExit, RegValue
  <2> QED BY <2>2, <2>3
<1>2. /\ pc = "host_entry" /\ VMX_ACTIVE /\ mode = "root" /\ EXIT_COUNT \in Nat
      /\ VMCS_REGION \in Frame /\ current = mem[VMCS_REGION]
      /\ ~BadPointer(current)
      /\ UNCHANGED <<controlVars, cr0Fixed, mem, vmcsVars, pages>>
      /\ UNCHANGED <<SYSTEM_TABLE, VMXON_REGION, VMCS_REGION, reason>>
  BY DEF HandleExit, IInv, TypeOK, ModeInv, StaticsInv, VmcsInv
<1>3. TypeOK'
  <2>1. rip' \in InstructionStart /\ EXIT_COUNT' \in Nat
    <3>1. rip \in InstructionStart /\ Jmp \in InstructionStart
      BY DEF InstructionStart, IInv, TypeOK
    <3> QED BY <1>2, <3>1, HandleExitEffect
  <2>2. launch' \in [Frame -> {"unknown", "clear", "launched"}]
    BY HandleExitEffect DEF IInv, TypeOK, CpuTypeOK
  <2>3. /\ current' \in Address /\ vmxonPtr' \in Address
        /\ mode' \in {"off", "root", "nonroot"} /\ cr4Vmxe' \in BOOLEAN
        /\ VMX_ACTIVE' \in BOOLEAN /\ pc' \in Step \cup Rest
    BY HandleExitEffect DEF Address, IInv, TypeOK, CpuTypeOK
  <2> QED BY <1>1, <1>2, <2>1, <2>2, <2>3 DEF IInv, TypeOK, CpuTypeOK
<1>4. ModeInv' BY <1>2, HandleExitEffect DEF ModeInv
<1>5. StaticsInv' BY <1>2, HandleExitEffect DEF StaticsInv
<1>6. VmcsInv' BY <1>2, HandleExitEffect DEF BadPointer, Address, IInv, TypeOK,
     CpuTypeOK, VmcsInv
<1>7. ExitInv' BY <1>1, <1>2, HandleExitEffect DEF ExitInv
<1>8. NullPageInv' BY <1>2, HandleExitEffect DEF IInv, NullPageInv
<1> QED BY <1>3, <1>4, <1>5, <1>6, <1>7, <1>8 DEF IInv

\* VMRESUME finds its VMCS current and launched: it starts the guest.
LEMMA KeepsResume == IInv /\ Resume => IInv'
<1> SUFFICES ASSUME IInv, Resume PROVE IInv' OBVIOUS
<1> USE DEF cpuVars, controlVars, crVars, pointerVars, vmcsVars, guestVars,
            statics, exitVars, undoVars, BeforeVmxon, NoVmcsYet, VmcsLoaded,
            OnExit, PagesAt, Step, Frame, None
<1>1. stack' = << >> /\ regs' \in [GPR -> RegValue]
  BY UnwoundType DEF Resume, IInv, TypeOK, ExitInv
<1>2. /\ pc = "resume" /\ pc' = "guest" /\ mode' = "nonroot" /\ reason' = reason
      /\ launch' = [launch EXCEPT ![current] = "launched"]
  BY DEF Resume, VmEntry, EntryOutcome, BadPointer, IInv, ModeInv, VmcsInv
<1>3. /\ UNCHANGED <<controlVars, crVars, vmxonPtr, current, mem, vmcsVars>>
      /\ UNCHANGED <<rip, pages, statics, EXIT_COUNT>>
  BY DEF Resume
<1>4. TypeOK' BY <1>1, <1>2, <1>3 DEF IInv, TypeOK, CpuTypeOK, ModeInv,
     StaticsInv, VmcsInv
<1>5. ModeInv' BY <1>1, <1>2, <1>3 DEF ModeInv
<1>6. StaticsInv' BY <1>1, <1>2, <1>3 DEF IInv, StaticsInv
<1>7. VmcsInv' BY <1>1, <1>2, <1>3 DEF IInv, VmcsInv, BadPointer
<1>8. ExitInv' BY <1>1, <1>2, <1>3 DEF IInv, ExitInv
<1>9. NullPageInv' BY <1>1, <1>2, <1>3 DEF IInv, NullPageInv
<1> QED BY <1>4, <1>5, <1>6, <1>7, <1>8, <1>9 DEF IInv

\* The pops of the stop path.
LEMMA KeepsStop == IInv /\ Stop => IInv'
<1> SUFFICES ASSUME IInv, Stop PROVE IInv' OBVIOUS
<1> USE DEF cpuVars, controlVars, crVars, pointerVars, vmcsVars, statics,
            BeforeVmxon, NoVmcsYet, VmcsLoaded, OnExit, PagesAt, Rest
<1>1. stack' = << >> /\ regs' \in [GPR -> RegValue]
  BY UnwoundType DEF Stop, IInv, TypeOK, ExitInv
<1>2. /\ pc = "stop" /\ pc' = "halted"
      /\ UNCHANGED <<cpuVars, rip, pages, statics, EXIT_COUNT, reason>>
  BY DEF Stop
<1>3. TypeOK' BY <1>1, <1>2 DEF IInv, TypeOK, CpuTypeOK
<1>4. ModeInv' BY <1>1, <1>2 DEF IInv, ModeInv
<1>5. StaticsInv' BY <1>1, <1>2 DEF IInv, StaticsInv
<1>6. VmcsInv' BY <1>1, <1>2 DEF IInv, VmcsInv
<1>7. ExitInv' BY <1>1, <1>2 DEF IInv, ExitInv
<1>8. NullPageInv' BY <1>1, <1>2 DEF IInv, NullPageInv
<1> QED BY <1>3, <1>4, <1>5, <1>6, <1>7, <1>8 DEF IInv

----------------------------------------------------------------------------
(* The invariant and its consequences                                      *)

\* The firmware's hand-over satisfies the invariant.
LEMMA InitInv == Init => IInv
<1> SUFFICES ASSUME Init PROVE IInv OBVIOUS
<1> USE DEF Init, CpuInit, GuestInit, NoVmcsYet, VmcsLoaded, OnExit, PagesAt, Step
<1>1. TypeOK
  <2>1. CpuTypeOK BY DEF CpuTypeOK, FieldValue, Verdict, Address
  <2>2. rip \in InstructionStart /\ regs \in [GPR -> RegValue]
    BY DEF InstructionStart, RegValue
  <2>3. pc \in Step \cup Rest OBVIOUS
  <2>4. pages \in 0 .. 5 /\ EXIT_COUNT \in Nat OBVIOUS
  <2>5. /\ VMXON_REGION \in Frame /\ VMCS_REGION \in Frame
        /\ SYSTEM_TABLE \in {"efi.rs", "UEFI"}
    BY FramesInUse
  <2>6. /\ stack = << >> /\ VMX_ACTIVE \in BOOLEAN
        /\ reason \in {"none"} \cup ExitReason
    OBVIOUS
  <2> HIDE DEF Init
  <2> QED BY <2>1, <2>2, <2>3, <2>4, <2>5, <2>6 DEF TypeOK
<1>2. ModeInv BY DEF ModeInv
<1>3. StaticsInv BY DEF StaticsInv
<1>4. VmcsInv BY DEF VmcsInv
<1>5. ExitInv BY DEF ExitInv
<1>6. NullPageInv BY DEF NullPageInv
<1> QED BY <1>1, <1>2, <1>3, <1>4, <1>5, <1>6 DEF IInv

\* A step that changes nothing keeps the invariant.
LEMMA KeepsStuttering == IInv /\ UNCHANGED vars => IInv'
<1> SUFFICES ASSUME IInv, UNCHANGED vars PROVE IInv' OBVIOUS
<1> USE DEF vars, cpuVars, controlVars, crVars, pointerVars, vmcsVars,
            guestVars, statics, exitVars
<1>1. TypeOK' BY DEF IInv, TypeOK, CpuTypeOK
<1>2. ModeInv' BY DEF IInv, ModeInv
<1>3. StaticsInv' BY DEF IInv, StaticsInv, Page
<1>4. VmcsInv' BY DEF IInv, VmcsInv, BadPointer
<1>5. ExitInv' BY DEF IInv, ExitInv
<1>6. NullPageInv' BY DEF IInv, NullPageInv
<1> QED BY <1>1, <1>2, <1>3, <1>4, <1>5, <1>6 DEF IInv

\* Every step of the hypervisor keeps the invariant.
LEMMA NextInv == IInv /\ [Next]_vars => IInv'
BY KeepsStuttering,
   KeepsProbe, KeepsFeatureControl, KeepsApplyFixedBits, KeepsAllocVmxon,
   KeepsVmxon, KeepsAlloc, KeepsVmclear, KeepsVmptrld, KeepsWriteState,
   KeepsEnterGuest, KeepsGuestComputes, KeepsGuestHalts, KeepsGuestInterrupted,
   KeepsHandleExit, KeepsResume, KeepsStop
   DEF Next, AtRest

\* At each place of the program the state is what IInv says of that place, on
\* every path through bring-up, the exits and shutdown, faults included.
THEOREM Invariance == Spec => []IInv
BY InitInv, NextInv, PTL DEF Spec

\* Every variable keeps to its type; in particular exit_handler's arithmetic on
\* the guest's instruction pointer always ends on an instruction.
THEOREM TypeCorrect == Spec => []TypeOK
<1>1. IInv => TypeOK BY DEF IInv
<1> QED BY <1>1, Invariance, PTL

\* Whichever step of setup fails, the firmware gets the processor back with VMX
\* operation off, unless the page it gave out for the VMXON region is page 0.
THEOREM ReturnsOff == Spec => []ReturnsWithVmxOff
<1>1. IInv => ReturnsWithVmxOff
  BY DEF IInv, TypeOK, ModeInv, ReturnsWithVmxOff, Page
<1> QED BY <1>1, Invariance, PTL

\* No VMX instruction of setup, of its undo or of the exit path is executed
\* outside VMX operation, VMXON apart.
THEOREM NoUndefinedOpcode == Spec => []NoStrayVmxInstruction
<1>1. IInv => NoStrayVmxInstruction BY DEF IInv, ModeInv, NoStrayVmxInstruction
<1> QED BY <1>1, Invariance, PTL

\* The expect() calls of write_state never fire.
THEOREM NoPanic == Spec => []SetupNeverPanics
<1>1. IInv => SetupNeverPanics BY DEF IInv, ModeInv, SetupNeverPanics
<1> QED BY <1>1, Invariance, PTL

\* The stop branch is only taken with the VMCS cleared, none current and VMX
\* operation off.
THEOREM CleanStop == Spec => []StopIsClean
<1>1. IInv => StopIsClean
  BY DEF IInv, ModeInv, StaticsInv, VmcsInv, StopIsClean, OnExit
<1> QED BY <1>1, Invariance, PTL

\* VMRESUME never falls through: only the first VM entry can.
THEOREM ResumeSucceeds == Spec => []OnlyLaunchCanFail
<1>1. IInv => OnlyLaunchCanFail BY DEF IInv, ExitInv, OnlyLaunchCanFail
<1> QED BY <1>1, Invariance, PTL

\* The guest never runs with the limit reached, and a HLT ends the session at
\* the limit and not before.
THEOREM LimitHolds == Spec => []LimitEndsTheSession
<1>1. IInv => LimitEndsTheSession BY DEF IInv, ExitInv, LimitEndsTheSession,
     OnExit
<1> QED BY <1>1, Invariance, PTL
=============================================================================
