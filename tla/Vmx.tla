-------------------------------- MODULE Vmx --------------------------------
(***************************************************************************)
(* One logical processor as mochivm drives it through src/x86.rs and       *)
(* src/hv/vmx.rs.  Each wrapper that changes processor state is an action  *)
(* fragment over the processor's variables; its last parameter is what the *)
(* wrapper gave back to its caller:                                        *)
(*                                                                         *)
(*   "ok"     the wrapper returned (Ok(()) where it has a Result)          *)
(*   "err"    it returned Err                                              *)
(*   "fault"  an instruction raised #GP, #UD or #PF: the firmware's        *)
(*            exception handler has the processor and does not give it back*)
(*   "ud"     a VMX instruction other than VMXON was executed outside VMX  *)
(*            root operation, which raises #UD                             *)
(*                                                                         *)
(* The instructions themselves are external (Intel SDM vol. 3, the book    *)
(* vmcs.rs line 6 refers to); what the wrappers do with them is translated *)
(* from the code, operand order and all.                                   *)
(*                                                                         *)
(* Frames of physical memory are numbered.  Frame 0 is the page at address *)
(* 0, which is memory like any other to the processor.                     *)
(***************************************************************************)
EXTENDS Naturals

CONSTANT FrameCount     \* frames of physical memory the model tells apart

ASSUME FrameCountAssumption == FrameCount \in Nat /\ FrameCount >= 5

Frame == 0 .. FrameCount

\* The page a null pointer points to; also what a static of vmcs.rs holds that
\* has not been set.
Null == 0

\* No frame: an invalid VMX pointer, an address that VMXON, VMCLEAR and VMPTRLD
\* refuse (not 4K aligned, or beyond physical memory).
None == FrameCount + 1

Address == Frame \cup {None}

VARIABLES
  cpuid,        \* the features CPUID reports, of {"vmx", "smx"}
  feature,      \* bits set in IA32_FEATURE_CONTROL: 0 "lock", 1 "smx", 2 "outside"
  cr0Fixed,     \* CR0 satisfies IA32_VMX_CR0_FIXED0/1
  cr4Vmxe,      \* CR4 satisfies IA32_VMX_CR4_FIXED0/1, CR4.VMXE included
  mode,         \* "off", or VMX "root" / "nonroot" operation
  vmxonPtr,     \* the VMXON pointer: frame of the VMXON region
  current,      \* the current-VMCS pointer
  launch,       \* launch state of the VMCS in each frame
  mem,          \* the first quadword of each frame, as an address
  fields,       \* what the current VMCS holds in the fields the model follows
  entry         \* what VM entry's checks will say of the current VMCS

controlVars == <<cpuid, feature>>
crVars == <<cr0Fixed, cr4Vmxe>>
pointerVars == <<vmxonPtr, current, launch, mem>>
vmcsVars == <<fields, entry>>
cpuVars == <<controlVars, crVars, mode, pointerVars, vmcsVars>>

----------------------------------------------------------------------------
(* VMCS fields (SDM appendix B), at the encodings the processor gives them *)

HostSelector == [es |-> \h0C00, cs |-> \h0C02, ss |-> \h0C04, ds |-> \h0C06,
                 fs |-> \h0C08, gs |-> \h0C0A, tr |-> \h0C0C]

GuestSysenterCs == \h482A

\* The fields the model follows: those whose encodings decide whether VM entry
\* accepts the host state, and one more that vmcs.rs writes.
SdmField == {HostSelector[r] : r \in DOMAIN HostSelector} \cup {GuestSysenterCs}

\* What a field can hold: the selector of a host register, zero, or what the
\* memory of the VMCS happened to hold before.
FieldValue == DOMAIN HostSelector \cup {"zero", "leftover"}

\* A verdict of VM entry's checks on a VMCS.
Verdict == {"unwritten", "host_invalid", "guest_invalid", "valid"}

CpuTypeOK ==
  /\ cpuid \in SUBSET {"vmx", "smx"}
  /\ feature \in SUBSET {"lock", "smx", "outside"}
  /\ cr0Fixed \in BOOLEAN
  /\ cr4Vmxe \in BOOLEAN
  /\ mode \in {"off", "root", "nonroot"}
  /\ vmxonPtr \in Address
  /\ current \in Address
  /\ launch \in [Frame -> {"unknown", "clear", "launched"}]
  /\ mem \in [Frame -> Address]
  /\ fields \in [SdmField -> FieldValue]
  /\ entry \in Verdict

\* The processor as the firmware hands it over: VMX off, IA32_FEATURE_CONTROL
\* in any state the firmware can have left it in.  The SMX bit cannot be set on
\* a processor without SMX.
CpuInit ==
  /\ cpuid \in SUBSET {"vmx", "smx"}
  /\ feature \in SUBSET {"lock", "smx", "outside"}
  /\ "smx" \in feature => "smx" \in cpuid
  /\ cr0Fixed \in BOOLEAN
  /\ cr4Vmxe = FALSE
  /\ mode = "off"
  /\ vmxonPtr = None
  /\ current = None
  /\ launch = [f \in Frame |-> "unknown"]
  /\ mem = [f \in Frame |-> None]
  /\ fields = [f \in SdmField |-> "leftover"]
  /\ entry = "unwritten"

----------------------------------------------------------------------------
(* Control registers                                                       *)

\* x86.rs:48: "mov cr0, {0}" with {0} an output is, in the Intel syntax asm!
\* uses, a write of CR0 from a register nothing has set.  The write faults or
\* it loads some value; in VMX operation (m is the mode it runs in) a value that
\* breaks the fixed bits always faults.
read_cr0(m, result) ==
  \/ /\ result = "ok"
     /\ cr0Fixed' \in IF m = "off" THEN BOOLEAN ELSE {TRUE}
  \/ /\ result = "fault"
     /\ UNCHANGED cr0Fixed

\* x86.rs:62: the same for CR4.
read_cr4(m, result) ==
  \/ /\ result = "ok"
     /\ cr4Vmxe' \in IF m = "off" THEN BOOLEAN ELSE {TRUE}
  \/ /\ result = "fault"
     /\ UNCHANGED cr4Vmxe

\* x86.rs:55: the same for CR3, whose value nothing here depends on: the next
\* instruction is fetched through whatever page tables it now points to.
read_cr3(result) == result \in {"ok", "fault"}

\* vmx.rs:37.  Each write_cr ("mov {0}, cr0" with {0} an input) only reads the
\* control register, so what is left behind is what each read_cr loaded.
apply_fixed_bits(result) ==
  \/ /\ result = "fault"
     /\ read_cr0(mode, "fault")
     /\ UNCHANGED cr4Vmxe
  \/ /\ read_cr0(mode, "ok")
     /\ read_cr4(mode, result)

----------------------------------------------------------------------------
(* Capability checks                                                       *)

vmx_supported == "vmx" \in cpuid

\* vmx.rs:23.  msr & 1 is the lock bit, msr & 2 the bit that allows VMXON
\* inside SMX; WRMSR faults when it sets that one without SMX.
feature_control(result) ==
  \/ /\ "lock" \in feature
     /\ result = IF "smx" \in feature THEN "ok" ELSE "err"
     /\ UNCHANGED feature
  \/ /\ "lock" \notin feature
     /\ "smx" \in cpuid
     /\ result = "ok"
     /\ feature' = feature \cup {"lock", "smx"}
  \/ /\ "lock" \notin feature
     /\ "smx" \notin cpuid
     /\ result = "fault"
     /\ UNCHANGED feature

----------------------------------------------------------------------------
(* VMX instructions                                                        *)

\* SDM: an instruction that fails sets CF alone when there is no current VMCS
\* (VMfailInvalid) and ZF alone, with an error number, when there is one
\* (VMfailValid).
VMfail == IF current = None THEN "CF" ELSE "ZF"

\* Every wrapper captures RFLAGS and tests bit 0, which is CF.
Reported(flags) == IF flags = "CF" THEN "err" ELSE "ok"

\* VMXON outside VMX operation faults unless CR4.VMXE, the fixed bits and
\* IA32_FEATURE_CONTROL (lock, and VMXON outside SMX) allow it.
VmxonAllowed ==
  /\ cr0Fixed
  /\ cr4Vmxe
  /\ {"lock", "outside"} \subseteq feature

\* vmx.rs:53.  The wrapper stores the revision identifier in the low half of
\* the region's first quadword and then passes the region itself as the memory
\* operand: the address the processor takes is that quadword, the identifier
\* under whatever the upper half of the page held.  The revision identifier the
\* processor finds in the frame at that address may be the wrong one.  The page
\* at address 0 may not be mapped, and then the store faults.
vmxon(region, result) ==
  \/ /\ region = Null
     /\ result = "fault"
     /\ UNCHANGED <<mem, launch, mode, vmxonPtr, current>>
  \/ \E addr \in Address :
       /\ mem' = [mem EXCEPT ![region] = addr]
       /\ UNCHANGED launch
       /\ \/ /\ ~VmxonAllowed
             /\ result = "fault"
             /\ UNCHANGED <<mode, vmxonPtr, current>>
          \/ /\ VmxonAllowed
             /\ result = Reported("CF")
             /\ UNCHANGED <<mode, vmxonPtr, current>>
          \/ /\ VmxonAllowed
             /\ addr # None
             /\ result = "ok"
             /\ mode' = "root"
             /\ vmxonPtr' = addr
             /\ current' = None

\* vmx.rs:71.  Inside VMX operation VMXOFF only fails under dual-monitor SMM,
\* which no firmware here sets up.
vmxoff(result) ==
  \/ /\ mode # "root"
     /\ result = "ud"
     /\ UNCHANGED <<mode, vmxonPtr>>
  \/ /\ mode = "root"
     /\ result = "ok"
     /\ mode' = "off"
     /\ vmxonPtr' = None

\* What VMCLEAR and VMPTRLD make of their operand, which is again the first
\* quadword of the region they are given.
BadPointer(addr) == addr = None \/ addr = vmxonPtr

\* vmx.rs:85; memory is mem as the instruction finds it.
vmclear(memory, region, result) ==
  LET addr == memory[region] IN
  IF mode # "root"
  THEN result = "ud" /\ UNCHANGED <<launch, current>>
  ELSE IF BadPointer(addr)
  THEN result = Reported(VMfail) /\ UNCHANGED <<launch, current>>
  ELSE /\ result = "ok"
       /\ launch' = [launch EXCEPT ![addr] = "clear"]
       /\ current' = IF current = addr THEN None ELSE current

\* vmx.rs:100.  VMPTRLD also compares the revision identifier in the frame.
vmptrld(region, result) ==
  LET addr == mem[region] IN
  \/ /\ mode # "root"
     /\ result = "ud"
     /\ UNCHANGED current
  \/ /\ mode = "root"
     /\ result = Reported(VMfail)
     /\ UNCHANGED current
  \/ /\ mode = "root"
     /\ ~BadPointer(addr)
     /\ result = "ok"
     /\ current' = addr

\* vmx.rs:115, for a whole series of VMWRITEs [field, value].  With no current
\* VMCS each fails with CF; with one, a write to a component the processor does
\* not have fails with ZF and stores nothing.
vmwrite(writes, result) ==
  \/ /\ mode # "root"
     /\ result = "ud"
     /\ UNCHANGED fields
  \/ /\ mode = "root"
     /\ current = None
     /\ result = Reported(VMfail)
     /\ UNCHANGED fields
  \/ /\ mode = "root"
     /\ current # None
     /\ result = "ok"
     /\ fields' = [f \in SdmField |->
                     IF \E w \in writes : w.field = f
                     THEN (CHOOSE w \in writes : w.field = f).value
                     ELSE fields[f]]

\* vmx.rs:131, of a field that holds content.  The flags are not looked at: with
\* no current VMCS, value is whatever rax held.
vmread(content, value, result) ==
  \/ /\ mode # "root"
     /\ result = "ud"
  \/ /\ mode = "root"
     /\ result = "ok"
     /\ current # None => value = content

\* VMLAUNCH wants the current VMCS clear, VMRESUME wants it launched.  The
\* instruction fails and falls through, or the processor runs the guest, or
\* finds the guest state unusable and takes a VM exit at once.
EntryOutcome(wanted) ==
  IF mode # "root" THEN "ud"
  ELSE IF \/ current = None
          \/ launch[current] # wanted
          \/ entry \in {"unwritten", "host_invalid"} THEN "fail"
  ELSE IF entry = "guest_invalid" THEN "exit"
  ELSE "guest"
=============================================================================
