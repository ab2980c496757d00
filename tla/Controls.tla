------------------------------ MODULE Controls ------------------------------
(***************************************************************************)
(* The control words of the VMCS: how write_state (vmcs.rs) and calc_ctrl  *)
(* (vmx.rs) make them out of the capability MSRs, and what the VM entries  *)
(* of Hypervisor check of them.  A word is the set of the positions of its *)
(* bits.  The words are a function of the MSRs, which never change.        *)
(***************************************************************************)
EXTENDS Hypervisor

CONSTANT Offered   \* bits of each control word in which processors differ

Capability == {"pin", "proc", "secondary", "exit", "entry"}

ASSUME OfferedAssumption == Offered \in [Capability -> SUBSET (0 .. 31)]

----------------------------------------------------------------------------
(* The processor (SDM vol. 3, appendix A)                                  *)

\* What RDMSR returns for a capability MSR on some processor: the bits that must
\* be 1 in EAX, those that may be 1 in EDX.  No secondary control must be 1.
Masks(c) ==
  {m \in [eax : SUBSET Offered[c], edx : SUBSET Offered[c]] :
     m.eax \subseteq m.edx /\ (c = "secondary" => m.eax = {})}

\* VM entry's check of a control word (27.2.1).
Accepted(m, word) == m.eax \subseteq word /\ word \subseteq m.edx

----------------------------------------------------------------------------
(* x86.rs and vmx.rs                                                       *)

rdmsr(m) == m.eax \cup {b + 32 : b \in m.edx}

Low(v) == v \cap (0 .. 31)
High(v) == {b \in 0 .. 31 : b + 32 \in v}

\* Variant for the mutation checks: the bits that must be 1 are left out.
calc_ctrl_without_default(m, desired) == desired \cap High(rdmsr(m))

calc_ctrl(m, desired) == (desired \cup Low(rdmsr(m))) \cap High(rdmsr(m))
calc_secondary(m, desired) == desired \cap High(rdmsr(m))

----------------------------------------------------------------------------
(* vmcs.rs                                                                 *)

HLT_EXITING == 7
HOST_LONG_MODE == 9
GUEST_LONG_MODE == 9
LOAD_IA32_EFER_ENTRY == 2
LOAD_IA32_EFER_EXIT == 3

Desired ==
  [pin |-> {}, proc |-> {HLT_EXITING}, secondary |-> {},
   exit |-> {HOST_LONG_MODE, LOAD_IA32_EFER_EXIT},
   entry |-> {GUEST_LONG_MODE, LOAD_IA32_EFER_ENTRY}]

\* What write_state puts into the control word of MSR c on a processor with m.
Word(c, m) ==
  IF c = "secondary" THEN calc_secondary(m, Desired[c]) ELSE calc_ctrl(m, Desired[c])

----------------------------------------------------------------------------
(* What holds                                                              *)

\* The words write_state makes pass the checks of the processor they are made on.
Acceptable == \A c \in Capability : \A m \in Masks(c) : Accepted(m, Word(c, m))

\* calc_ctrl "honors the allowed-1 / default-1 masks" (vmx.rs:142): whenever a VM
\* entry is next, there is no processor that refuses it for a control word.
ControlsAreAccepted == pc \in {"enter_guest", "resume"} => Acceptable
=============================================================================
