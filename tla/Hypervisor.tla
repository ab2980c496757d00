----------------------------- MODULE Hypervisor -----------------------------
(***************************************************************************)
(* mochivm itself: bring-up (hv::init, vmcs::setup), the guest, the VM     *)
(* exit path (host_entry, exit_handler) and shutdown (teardown).  There is *)
(* one thread of control; pc names the next call it makes, or the place    *)
(* where it has come to rest.                                              *)
(***************************************************************************)
EXTENDS Vmx, GuestMachine, Sequences

CONSTANT MAX_HLT_EXITS

ASSUME MaxHltExitsAssumption == MAX_HLT_EXITS \in Nat \ {0}

VARIABLES
  pc,            \* the next call, or where control rests
  SYSTEM_TABLE,  \* whose layout the firmware's tables have, see Page
  pages,         \* allocations that have succeeded so far
  VMXON_REGION, VMCS_REGION, VMX_ACTIVE, EXIT_COUNT,   \* statics of vmcs.rs
  reason,        \* the EXIT_REASON field
  stack          \* host stack of the exit path, empty outside it

statics == <<SYSTEM_TABLE, VMXON_REGION, VMCS_REGION, VMX_ACTIVE>>
exitVars == <<EXIT_COUNT, reason, stack>>
vars == <<cpuVars, guestVars, pc, pages, statics, exitVars>>

\* Where control rests: back in the firmware, in one of the cli/hlt loops
\* (after a shutdown; after a VMLAUNCH or VMRESUME that fell through; in the
\* panic handler), or in the firmware's exception handler.
Rest == {"returned", "halted", "entry_failed", "panicked", "fault", "ud"}

Step == {"init", "feature_control", "apply_fixed_bits",
         "alloc_vmxon", "vmxon", "alloc_vmcs", "vmclear", "vmptrld",
         "alloc_host_stack", "alloc_guest_code", "alloc_guest_stack",
         "write_state", "enter_guest",
         "guest", "host_entry", "resume", "stop"}

Init ==
  /\ CpuInit
  /\ GuestInit
  /\ pc = "init"
  /\ SYSTEM_TABLE \in {"efi.rs", "UEFI"}
  /\ pages = 0
  /\ VMXON_REGION = Null
  /\ VMCS_REGION = Null
  /\ VMX_ACTIVE = FALSE
  /\ EXIT_COUNT = 0
  /\ reason = "none"
  /\ stack = <<>>

----------------------------------------------------------------------------
(* hv::init up to vmcs::setup                                              *)

Probe ==
  /\ pc = "init"
  /\ pc' = IF vmx_supported THEN "feature_control" ELSE "returned"
  /\ UNCHANGED <<cpuVars, guestVars, pages, statics, exitVars>>

FeatureControl ==
  /\ pc = "feature_control"
  /\ \/ feature_control("ok") /\ pc' = "apply_fixed_bits"
     \/ feature_control("err") /\ pc' = "returned"
     \/ feature_control("fault") /\ pc' = "fault"
  /\ UNCHANGED <<cpuid, crVars, mode, pointerVars, vmcsVars>>
  /\ UNCHANGED <<guestVars, pages, statics, exitVars>>

ApplyFixedBits ==
  /\ pc = "apply_fixed_bits"
  /\ \/ apply_fixed_bits("ok") /\ pc' = "alloc_vmxon"
     \/ apply_fixed_bits("fault") /\ pc' = "fault"
  /\ UNCHANGED <<controlVars, mode, pointerVars, vmcsVars>>
  /\ UNCHANGED <<guestVars, pages, statics, exitVars>>

----------------------------------------------------------------------------
(* efi::allocate_pages                                                     *)

\* efi.rs declares the tables of the firmware by hand.  On a firmware with those
\* tables (and with its numbering of memory types) allocate_pages returns pages
\* nobody has, and none of them is page 0.  The system table of the UEFI
\* specification has ConsoleOutHandle and StandardErrorHandle in it: what the
\* code takes for the boot services, at offset 80, is StdErr, and what it calls,
\* at offset 40 of that, is StdErr->SetAttribute with a null This.
\* Whatever that answers, addr keeps its initial 0.
Page(k) == IF SYSTEM_TABLE = "efi.rs" THEN k ELSE Null

\* efi.rs:44.  A call that succeeds hands out Page(pages').
allocate_pages(result) ==
  \/ result = "ok" /\ pages' = pages + 1
  \/ result = "err" /\ UNCHANGED pages
  \/ result = "fault" /\ SYSTEM_TABLE = "UEFI" /\ UNCHANGED pages

----------------------------------------------------------------------------
(* vmcs::setup                                                             *)

undoVars == <<mode, vmxonPtr, cr4Vmxe, VMXON_REGION>>

\* Variant for the mutation checks: the undo looks at the wrong static.
vmxoff_and_clear_wrong_static ==
  IF VMCS_REGION # Null
  THEN /\ vmxoff("ok")
       /\ read_cr4("off", "ok")
       /\ VMXON_REGION' = Null
       /\ pc' = "returned"
  ELSE pc' = "returned" /\ UNCHANGED undoVars

\* vmcs.rs:312.  Undo of a failed setup; the caller then returns its error to
\* hv::init and so to the firmware, unless the "read" of CR4 faults.  Zero stands
\* for a VMXON region that was never entered, and is also a page's address.
vmxoff_and_clear ==
  IF VMXON_REGION # Null
  THEN \/ /\ vmxoff("ud")
          /\ UNCHANGED <<cr4Vmxe, VMXON_REGION>>
          /\ pc' = "ud"
       \/ /\ vmxoff("ok")
          /\ read_cr4("off", "ok")
          /\ VMXON_REGION' = Null
          /\ pc' = "returned"
       \/ /\ vmxoff("ok")
          /\ read_cr4("off", "fault")
          /\ UNCHANGED VMXON_REGION
          /\ pc' = "fault"
  ELSE pc' = "returned" /\ UNCHANGED undoVars

AllocVmxon ==
  /\ pc = "alloc_vmxon"
  /\ \E result \in {"ok", "err", "fault"} :
       /\ allocate_pages(result)
       /\ pc' = [ok |-> "vmxon", err |-> "returned", fault |-> "fault"][result]
  /\ UNCHANGED <<cpuVars, guestVars, statics, exitVars>>

\* Variant: the static is set first, and a VMXON that fails is undone as well.
VmxonUndone ==
  /\ pc = "vmxon"
  /\ \E result \in {"ok", "err", "fault"} :
       /\ vmxon(Page(pages), result)
       /\ VMXON_REGION' = IF result = "err" THEN Null ELSE Page(pages)
       /\ pc' = [ok |-> "alloc_vmcs",
                 err |-> IF Page(pages) = Null THEN "returned" ELSE "ud",
                 fault |-> "fault"][result]
  /\ UNCHANGED <<controlVars, crVars, vmcsVars, guestVars, pages>>
  /\ UNCHANGED <<SYSTEM_TABLE, VMCS_REGION, VMX_ACTIVE, exitVars>>

Vmxon ==
  /\ pc = "vmxon"
  /\ \E result \in {"ok", "err", "fault"} :
       /\ vmxon(Page(pages), result)
       /\ VMXON_REGION' = IF result = "ok" THEN Page(pages) ELSE VMXON_REGION
       /\ pc' = [ok |-> "alloc_vmcs", err |-> "returned", fault |-> "fault"][result]
  /\ UNCHANGED <<controlVars, crVars, vmcsVars, guestVars, pages>>
  /\ UNCHANGED <<SYSTEM_TABLE, VMCS_REGION, VMX_ACTIVE, exitVars>>

\* The allocations that follow VMXON, and what setup does after each.
AfterAlloc == [alloc_vmcs |-> "vmclear",
               alloc_host_stack |-> "alloc_guest_code",
               alloc_guest_code |-> "alloc_guest_stack",
               alloc_guest_stack |-> "write_state"]

Alloc ==
  /\ pc \in DOMAIN AfterAlloc
  /\ \/ /\ allocate_pages("ok")
        /\ pc' = AfterAlloc[pc]
        /\ UNCHANGED undoVars
     \/ /\ allocate_pages("err")
        /\ vmxoff_and_clear
     \/ /\ allocate_pages("fault")
        /\ pc' = "fault"
        /\ UNCHANGED undoVars
  /\ UNCHANGED <<controlVars, cr0Fixed, current, launch, mem, vmcsVars>>
  /\ UNCHANGED <<guestVars, SYSTEM_TABLE, VMCS_REGION, VMX_ACTIVE, exitVars>>

\* Variant: the is_err() checks are missing.
CheckedNot(result, next) ==
  \/ result \in {"ok", "err"} /\ pc' = next /\ UNCHANGED undoVars
  \/ result = "ud" /\ pc' = "ud" /\ UNCHANGED undoVars

\* What setup does with the Result of vmclear and of vmptrld.
Checked(result, next) ==
  \/ result = "ok" /\ pc' = next /\ UNCHANGED undoVars
  \/ result = "err" /\ vmxoff_and_clear
  \/ result = "ud" /\ pc' = "ud" /\ UNCHANGED undoVars

\* vmcs.rs:147-151.  Storing the revision identifier in the new page settles
\* which address VMCLEAR and VMPTRLD find there; a page that is the VMXON region
\* over again already has the identifier, and keeps its address.
Vmclear ==
  /\ pc = "vmclear"
  /\ \E addr \in Address :
       /\ Page(pages) = Page(1) => addr = mem[Page(pages)]
       /\ mem' = [mem EXCEPT ![Page(pages)] = addr]
  /\ \E result \in {"ok", "err", "ud"} :
       vmclear(mem', Page(pages), result) /\ Checked(result, "vmptrld")
  /\ UNCHANGED <<controlVars, cr0Fixed, vmcsVars, guestVars, pages>>
  /\ UNCHANGED <<SYSTEM_TABLE, VMCS_REGION, VMX_ACTIVE, exitVars>>

Vmptrld ==
  /\ pc = "vmptrld"
  /\ \E result \in {"ok", "err", "ud"} :
       /\ vmptrld(Page(pages), result)
       /\ Checked(result, "alloc_host_stack")
       /\ VMCS_REGION' = IF result = "ok" THEN Page(pages) ELSE VMCS_REGION
  /\ UNCHANGED <<controlVars, cr0Fixed, launch, mem, vmcsVars, guestVars, pages>>
  /\ UNCHANGED <<SYSTEM_TABLE, VMX_ACTIVE, exitVars>>

\* The encodings vmcs.rs gives these fields (lines 42-47 and 81).
HOST_TR_SEL == \h0C00
HOST_FS_SEL == \h0C02
HOST_GS_SEL == \h0C04
HOST_SS_SEL == \h0C06
HOST_DS_SEL == \h0C08
HOST_ES_SEL == \h0C0A
GUEST_SYSENTER_CS == \h0820

\* The writes of write_state the model follows; there is none for the host CS.
StateWrites ==
  {[field |-> HOST_TR_SEL, value |-> "tr"], [field |-> HOST_SS_SEL, value |-> "ss"],
   [field |-> HOST_DS_SEL, value |-> "ds"], [field |-> HOST_ES_SEL, value |-> "es"],
   [field |-> HOST_FS_SEL, value |-> "fs"], [field |-> HOST_GS_SEL, value |-> "gs"],
   [field |-> GUEST_SYSENTER_CS, value |-> "zero"]}

\* vmcs.rs:180-190 and write_state.  Reading the control registers may fault;
\* a VMWRITE reported as failed panics in expect(), and the panic handler's
\* teardown returns at once since VMX_ACTIVE is not yet set.  The verdict of VM
\* entry on what was written is open: it depends on the controls the processor
\* offers and on fields nobody wrote.
WriteState ==
  /\ pc = "write_state"
  /\ \/ /\ \/ read_cr0(mode, "fault") /\ UNCHANGED cr4Vmxe
           \/ read_cr0(mode, "ok") /\ read_cr3("fault") /\ UNCHANGED cr4Vmxe
           \/ read_cr0(mode, "ok") /\ read_cr3("ok") /\ read_cr4(mode, "fault")
        /\ pc' = "fault"
        /\ UNCHANGED <<vmcsVars, VMX_ACTIVE>>
     \/ /\ read_cr0(mode, "ok") /\ read_cr3("ok") /\ read_cr4(mode, "ok")
        /\ \E result \in {"ok", "err", "ud"} :
             /\ vmwrite(StateWrites, result)
             /\ pc' = [ok |-> "enter_guest", err |-> "panicked", ud |-> "ud"][result]
             /\ VMX_ACTIVE' = (result = "ok")
        /\ entry' \in Verdict \ {"unwritten"}
  /\ UNCHANGED <<controlVars, mode, pointerVars, guestVars, pages>>
  /\ UNCHANGED <<SYSTEM_TABLE, VMXON_REGION, VMCS_REGION, exitVars>>

----------------------------------------------------------------------------
(* The guest and its VM exits                                              *)

\* VMLAUNCH or VMRESUME, and where control goes from there: a failed one falls
\* through into a cli/hlt loop, an entry whose guest state is refused is a VM
\* exit like any other.
VmEntry(wanted) ==
  LET outcome == EntryOutcome(wanted) IN
  /\ mode' = IF outcome = "guest" THEN "nonroot" ELSE mode
  /\ launch' = IF outcome = "guest"
               THEN [launch EXCEPT ![current] = "launched"] ELSE launch
  /\ reason' = IF outcome = "exit" THEN "entry_failure" ELSE reason
  /\ pc' = [guest |-> "guest", exit |-> "host_entry",
            fail |-> "entry_failed", ud |-> "ud"][outcome]

EnterGuest ==
  /\ pc = "enter_guest"
  /\ VmEntry("clear")
  /\ UNCHANGED <<controlVars, crVars, vmxonPtr, current, mem, vmcsVars>>
  /\ UNCHANGED <<guestVars, pages, statics, EXIT_COUNT, stack>>

GuestComputes ==
  /\ pc = "guest"
  /\ Compute
  /\ UNCHANGED <<cpuVars, pc, pages, statics, exitVars>>

\* A VM exit: HLT exiting is on; INIT and the like leave the guest anywhere.
VmExit(why) ==
  /\ pc = "guest"
  /\ mode' = "root"
  /\ reason' = why
  /\ pc' = "host_entry"
  /\ UNCHANGED <<controlVars, crVars, pointerVars, vmcsVars>>
  /\ UNCHANGED <<guestVars, pages, statics, EXIT_COUNT, stack>>

GuestHalts == rip = Hlt /\ VmExit("hlt")

GuestInterrupted == VmExit("other")

\* Variant: two pops swapped.
PopOrderSwapped == <<"r15", "r14", "r13", "r12", "r11", "r10", "r9", "r8",
                     "rsi", "rdi", "rbp", "rbx", "rdx", "rcx", "rax">>

\* host_entry: the order of the pushes (the second rax is the alignment pad)
\* and of the pops, the same on the resume and on the stop path.
PushOrder == <<"rax", "rcx", "rdx", "rbx", "rbp", "rsi", "rdi", "r8", "r9",
               "r10", "r11", "r12", "r13", "r14", "r15", "rax">>

PopOrder == <<"r15", "r14", "r13", "r12", "r11", "r10", "r9", "r8",
              "rdi", "rsi", "rbp", "rbx", "rdx", "rcx", "rax">>

Pushed == [i \in DOMAIN PushOrder |-> regs[PushOrder[i]]]

\* The registers after "add rsp, 8" and the pops: the k-th pop takes the k-th
\* word below the pad.
Unwound(s) ==
  [r \in GPR |-> s[Len(s) - (CHOOSE k \in DOMAIN PopOrder : PopOrder[k] = r)]]

\* The registers a sysv64 function may overwrite.
CallerSaved == {"rax", "rcx", "rdx", "rsi", "rdi", "r8", "r9", "r10", "r11"}

\* Variant: VMX operation is left without clearing the VMCS.
teardown_without_vmclear(next) ==
  /\ vmxoff("ok")
  /\ read_cr4("off", "ok")
  /\ VMX_ACTIVE' = FALSE
  /\ pc' = next
  /\ UNCHANGED <<launch, current>>

\* Variant: the VMCS is cleared but VMX operation is not left.
teardown_without_vmxoff(next) ==
  /\ vmclear(mem, VMCS_REGION, "ok")
  /\ VMX_ACTIVE' = FALSE
  /\ pc' = next
  /\ UNCHANGED <<mode, vmxonPtr, cr4Vmxe>>

\* Variant: the caller goes on as if there had been nothing to tear down.
teardown_and_resume(next) ==
  /\ vmclear(mem, VMCS_REGION, "ok")
  /\ vmxoff("ok")
  /\ read_cr4("off", "ok")
  /\ VMX_ACTIVE' = FALSE
  /\ pc' = "resume"

\* vmcs.rs:295, after which control goes to next.  The results of vmclear and
\* of vmxoff are dropped.
teardown(next) ==
  IF ~VMX_ACTIVE
  THEN /\ pc' = next
       /\ UNCHANGED <<launch, current, mode, vmxonPtr, cr4Vmxe, VMX_ACTIVE>>
  ELSE \E cleared \in {"ok", "err", "ud"}, left \in {"ok", "ud"} :
         /\ vmclear(mem, VMCS_REGION, cleared)
         /\ vmxoff(left)
         /\ \/ /\ "ud" \in {cleared, left}
               /\ pc' = "ud"
               /\ UNCHANGED <<cr4Vmxe, VMX_ACTIVE>>
            \/ /\ "ud" \notin {cleared, left}
               /\ read_cr4("off", "ok")
               /\ VMX_ACTIVE' = FALSE
               /\ pc' = next
            \/ /\ "ud" \notin {cleared, left}
               /\ read_cr4("off", "fault")
               /\ UNCHANGED VMX_ACTIVE
               /\ pc' = "fault"

\* Variants of the three definitions below: a counter that is only read, a
\* limit that is one too late, and an instruction length that is not HLT's.
StaleCount == EXIT_COUNT
LimitPassed(count) == count > MAX_HLT_EXITS
TwoBytes == 2

\* vmcs.rs:273, 277 and 276.
Count == EXIT_COUNT + 1
LimitReached(count) == count >= MAX_HLT_EXITS
HltLength == 1

\* exit_handler on a HLT: count it, skip the instruction, stop at the limit.
CountHlt ==
  /\ EXIT_COUNT' = Count
  /\ rip' = rip + HltLength
  /\ IF LimitReached(Count)
     THEN teardown("stop")
     ELSE /\ pc' = "resume"
          /\ UNCHANGED <<launch, current, mode, vmxonPtr, cr4Vmxe, VMX_ACTIVE>>

\* What the EXIT_REASON field can hold in an exit.
ExitReason == {"hlt", "entry_failure", "other"}

\* exit_handler, for the exit reason it has read.  The other accesses to the VMCS
\* in it (the guest's RIP, the qualification) find the processor in the same mode
\* and with the same current VMCS as that read.
exit_handler(seen) ==
  \/ seen = "hlt" /\ CountHlt
  \/ seen # "hlt" /\ teardown("stop") /\ UNCHANGED <<EXIT_COUNT, rip>>

\* host_entry up to the return of exit_handler.
HandleExit ==
  /\ pc = "host_entry"
  /\ stack' = Pushed
  /\ regs' = [r \in GPR |-> IF r \in CallerSaved THEN "host" ELSE regs[r]]
  /\ \E seen \in ExitReason :
       \/ vmread(reason, seen, "ok") /\ exit_handler(seen)
       \/ /\ vmread(reason, seen, "ud")
          /\ pc' = "ud"
          /\ UNCHANGED <<EXIT_COUNT, rip, launch, current, mode, vmxonPtr>>
          /\ UNCHANGED <<cr4Vmxe, VMX_ACTIVE>>
  /\ UNCHANGED <<controlVars, cr0Fixed, mem, vmcsVars, pages>>
  /\ UNCHANGED <<SYSTEM_TABLE, VMXON_REGION, VMCS_REGION, reason>>

\* Variant: the exit path goes back with VMLAUNCH.
ResumeByLaunch ==
  /\ pc = "resume"
  /\ regs' = Unwound(stack)
  /\ stack' = <<>>
  /\ VmEntry("clear")
  /\ UNCHANGED <<controlVars, crVars, vmxonPtr, current, mem, vmcsVars>>
  /\ UNCHANGED <<rip, pages, statics, EXIT_COUNT>>

\* host_entry after exit_handler returned 0: pops and VMRESUME.
Resume ==
  /\ pc = "resume"
  /\ regs' = Unwound(stack)
  /\ stack' = <<>>
  /\ VmEntry("launched")
  /\ UNCHANGED <<controlVars, crVars, vmxonPtr, current, mem, vmcsVars>>
  /\ UNCHANGED <<rip, pages, statics, EXIT_COUNT>>

\* host_entry after exit_handler returned 1: pops and the cli/hlt loop.
Stop ==
  /\ pc = "stop"
  /\ regs' = Unwound(stack)
  /\ stack' = <<>>
  /\ pc' = "halted"
  /\ UNCHANGED <<cpuVars, rip, pages, statics, EXIT_COUNT, reason>>

\* cli; hlt; jmp: control has come to rest.
AtRest == pc \in Rest /\ UNCHANGED vars

Next ==
  \/ Probe \/ FeatureControl \/ ApplyFixedBits
  \/ AllocVmxon \/ Vmxon \/ Alloc \/ Vmclear \/ Vmptrld \/ WriteState
  \/ EnterGuest \/ GuestComputes \/ GuestHalts \/ GuestInterrupted
  \/ HandleExit \/ Resume \/ Stop
  \/ AtRest

Spec == Init /\ [][Next]_vars

\* A processor always executes its next instruction.
FairSpec == Spec /\ WF_vars(Next)

----------------------------------------------------------------------------
(* What holds                                                              *)

\* The type of every variable.  The guest's instruction pointer is always at the
\* start of an instruction of guest/hello.bin, exit_handler's changes included.
TypeOK ==
  /\ CpuTypeOK
  /\ rip \in InstructionStart
  /\ regs \in [GPR -> RegValue]
  /\ pc \in Step \cup Rest
  /\ pages \in 0 .. 5
  /\ SYSTEM_TABLE \in {"efi.rs", "UEFI"}
  /\ VMXON_REGION \in Frame
  /\ VMCS_REGION \in Frame
  /\ VMX_ACTIVE \in BOOLEAN
  /\ EXIT_COUNT \in Nat
  /\ reason \in {"none"} \cup ExitReason
  /\ stack = <<>> \/ stack \in [DOMAIN PushOrder -> RegValue]

\* Whichever step of bring-up fails, efi_main returns to the firmware with the
\* processor out of VMX operation (the error paths of vmcs::setup), unless the
\* VMXON region is page 0, which vmcs.rs:313 takes for VMX never entered.
ReturnsWithVmxOff == pc = "returned" /\ Page(1) # Null => mode = "off"

\* No VMX instruction but VMXON, VMREAD, VMWRITE and VMXOFF included, is executed
\* outside VMX operation, where it would raise #UD: not by setup and its undo, not
\* by the exit path, not after teardown has run.
NoStrayVmxInstruction == pc # "ud"

\* The expect() of the VMWRITE helpers cannot fire: they only notice CF, and
\* setup has made a VMCS current before write_state runs.
SetupNeverPanics == pc # "panicked"

\* When the exit path takes its stop branch ("handler already did vmclear +
\* vmxoff"), the VMCS that setup made current has been cleared, no VMCS is
\* current and the processor has left VMX operation.
StopIsClean ==
  pc \in {"stop", "halted"} =>
    /\ mode = "off"
    /\ ~VMX_ACTIVE
    /\ current = None
    /\ launch[mem[VMCS_REGION]] = "clear"

\* Only the first VM entry can fail: once an intercept has been counted, every
\* VMRESUME finds a current, launched VMCS that has passed the checks.
OnlyLaunchCanFail == pc = "entry_failed" => EXIT_COUNT = 0

\* The guest is never running or about to be resumed with the limit reached,
\* and a stop caused by a HLT happens exactly at the limit.
LimitEndsTheSession ==
  /\ pc \in {"guest", "resume"} => EXIT_COUNT < MAX_HLT_EXITS
  /\ pc \in {"stop", "halted"} /\ reason = "hlt" => EXIT_COUNT = MAX_HLT_EXITS

\* The registers the guest owns: on the processor, or on the host stack while
\* the exit path has them there.
GuestRegs == IF stack = <<>> THEN regs ELSE Unwound(stack)

Guest == INSTANCE GuestMachine WITH regs <- GuestRegs

\* Interception is transparent: through every exit, handler run and resume, the
\* guest sees the machine of GuestMachine, in which HLT simply completes.
Transparent == Guest!GuestSpec

SessionPhase ==
  CASE mode = "nonroot" -> "guest"
    [] mode = "root" -> "hypervisor"
    [] mode = "off" /\ pc \in Rest \cup {"stop"} -> "over"
    [] OTHER -> "firmware"

Session == INSTANCE VmxSession
           WITH Limit <- MAX_HLT_EXITS, phase <- SessionPhase, intercepts <- EXIT_COUNT

\* The hypervisor keeps the promise of VmxSession: VMX operation is entered at
\* most once, holds every run of the guest, and ends with the last intercept.
OneSession == Session!SessionSpec

\* A guest that runs is eventually intercepted for the last time: the exit path
\* shuts VMX down (hv::init: "which eventually shuts VMX back down").
GuestIsStopped == mode = "nonroot" ~> mode = "off"

----------------------------------------------------------------------------
(* What the comments of the code claim and the code does not do            *)

\* efi.rs:43: allocate_pages returns a pointer into RAM, where null is a pointer
\* to nothing: no allocation that succeeds hands out page 0.
AllocatesRam == [][pages' # pages => Page(pages') # Null]_vars

\* vmx.rs:22: feature_control unlocks VMX if the BIOS left it unlocked.
UnlocksVmx ==
  [][pc = "feature_control" /\ "lock" \notin feature /\ pc' = "apply_fixed_bits"
     => {"lock", "outside"} \subseteq feature']_vars

\* vmx.rs:35: apply_fixed_bits forces CR0 and CR4 to satisfy the fixed-bit
\* requirements and sets CR4.VMXE.
ForcesFixedBits == pc = "alloc_vmxon" => cr0Fixed /\ cr4Vmxe

\* vmx.rs:52: vmxon enters VMX root operation, given a processor on which the
\* instruction is allowed and a page that holds the revision identifier.
EntersRootOperation == [][pc = "vmxon" /\ VmxonAllowed => mode' = "root"]_vars

\* vmcs.rs:6: the encodings are those of the SDM, so after setup each host
\* selector field that setup fills holds the selector of its own register.
HostSelectorsInPlace ==
  VMX_ACTIVE => \A w \in StateWrites :
                   w.value \in DOMAIN HostSelector =>
                     fields[HostSelector[w.value]] = w.value
=============================================================================
