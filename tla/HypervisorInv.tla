---------------------------- MODULE HypervisorInv ----------------------------
(***************************************************************************)
(* The inductive invariant of Hypervisor: what is true at each place of    *)
(* the program, stated in terms of pc.  It is what the theorems of         *)
(* HypervisorProofs rest on; TLC checks it too.                            *)
(***************************************************************************)
EXTENDS Hypervisor

BeforeVmxon == {"init", "feature_control", "apply_fixed_bits", "alloc_vmxon", "vmxon"}

\* Setup between VMXON and VMPTRLD, and from VMPTRLD to the end of write_state.
NoVmcsYet == {"alloc_vmcs", "vmclear", "vmptrld"}
VmcsLoaded == {"alloc_host_stack", "alloc_guest_code", "alloc_guest_stack", "write_state"}

\* The exit path while VMX is still on.
OnExit == {"host_entry", "resume"}

\* Allocations made when control is at a step of setup.
PagesAt ==
  [init |-> 0, feature_control |-> 0, apply_fixed_bits |-> 0, alloc_vmxon |-> 0,
   vmxon |-> 1, alloc_vmcs |-> 1, vmclear |-> 2, vmptrld |-> 2,
   alloc_host_stack |-> 2, alloc_guest_code |-> 3, alloc_guest_stack |-> 4,
   write_state |-> 5]

\* VMX is off until VMXON has succeeded and after every orderly end; a fault
\* may leave it on, and so does a VM entry that falls through.
ModeInv ==
  /\ pc \in BeforeVmxon \cup {"stop", "halted"} => mode = "off"
  /\ pc = "returned" /\ SYSTEM_TABLE = "efi.rs" => mode = "off"
  /\ pc \in NoVmcsYet \cup VmcsLoaded \cup {"enter_guest", "entry_failed"} \cup OnExit
       => mode = "root"
  /\ pc = "guest" <=> mode = "nonroot"
  /\ pc \notin {"ud", "panicked"}

\* The statics that error paths and teardown look at.
StaticsInv ==
  /\ pc \in DOMAIN PagesAt => pages = PagesAt[pc]
  /\ pc \in NoVmcsYet \cup VmcsLoaded => VMXON_REGION = Page(1)
  /\ pc \in BeforeVmxon => VMXON_REGION = Null
  /\ VMX_ACTIVE => pc \in {"enter_guest", "guest", "entry_failed", "fault"} \cup OnExit
  /\ pc \in {"enter_guest", "guest", "entry_failed"} \cup OnExit => VMX_ACTIVE

\* With the tables of the UEFI specification every page is page 0, so VMCLEAR is
\* given the VMXON pointer: bring-up gets that far and no further.
NullPageInv ==
  /\ SYSTEM_TABLE = "UEFI" /\ pc \in {"alloc_vmcs", "vmclear"} => mem[Null] = vmxonPtr
  /\ pc \in VmcsLoaded \cup OnExit \cup {"vmptrld", "enter_guest", "guest", "entry_failed",
                                       "stop", "halted"}
       => SYSTEM_TABLE = "efi.rs"

\* The VMCS: none before VMPTRLD, then the one VMPTRLD found through the page
\* setup allocated for it, until teardown clears it.
VmcsInv ==
  /\ pc \in NoVmcsYet => current = None
  /\ pc = "vmptrld" => launch[mem[2]] = "clear" /\ ~BadPointer(mem[2])
  /\ pc \in VmcsLoaded \cup {"enter_guest", "guest"} \cup OnExit =>
       /\ VMCS_REGION \in Frame
       /\ current = mem[VMCS_REGION]
       /\ ~BadPointer(current)
  /\ pc \in VmcsLoaded \cup {"enter_guest"} => launch[current] = "clear"
  /\ \/ pc \in {"guest", "resume"}
     \/ pc = "host_entry" /\ reason # "entry_failure"
     => launch[current] = "launched" /\ entry = "valid"
  /\ pc \in {"stop", "halted"} =>
       current = None /\ launch[mem[VMCS_REGION]] = "clear"

\* The exit path: the stack is in use between the pushes and the pops, and a
\* HLT exit finds the guest at its HLT.
ExitInv ==
  /\ pc \in {"resume", "stop"} => stack # <<>>
  /\ pc \notin {"resume", "stop", "fault"} => stack = <<>>
  /\ pc \in BeforeVmxon \cup NoVmcsYet \cup VmcsLoaded \cup {"enter_guest"} =>
       reason = "none" /\ EXIT_COUNT = 0
  /\ pc = "host_entry" => reason # "none"
  /\ pc = "host_entry" /\ reason = "hlt" => rip = Hlt
  /\ pc \in {"enter_guest", "guest"} \cup OnExit => EXIT_COUNT < MAX_HLT_EXITS
  /\ pc = "entry_failed" => EXIT_COUNT = 0
  /\ pc \in {"stop", "halted"} /\ reason = "hlt" => EXIT_COUNT = MAX_HLT_EXITS

\* The conjunction is inductive.
IInv == TypeOK /\ ModeInv /\ StaticsInv /\ NullPageInv /\ VmcsInv /\ ExitInv
=============================================================================
