----------------------------- MODULE VmxSession -----------------------------
(***************************************************************************)
(* What the hypervisor promises the firmware that started it (the comments *)
(* of hv::init and of guest.rs): VMX operation is entered at most once,    *)
(* the guest runs only inside it and is intercepted at most Limit times,   *)
(* the limit ends the session, and a session that is over stays over with  *)
(* VMX off.                                                                *)
(***************************************************************************)
EXTENDS Naturals

CONSTANT Limit          \* intercepts that end the session

VARIABLES
  phase,                \* "firmware", "hypervisor", "guest" or "over"
  intercepts            \* HLT exits counted so far

sessionVars == <<phase, intercepts>>

SessionInit == phase = "firmware" /\ intercepts = 0

\* VMX cannot be entered: the firmware goes on without a session.
Refuse == phase = "firmware" /\ phase' = "over" /\ UNCHANGED intercepts

Enter == phase = "firmware" /\ phase' = "hypervisor" /\ UNCHANGED intercepts

RunGuest ==
  /\ phase = "hypervisor"
  /\ intercepts < Limit
  /\ phase' = "guest"
  /\ UNCHANGED intercepts

LeaveGuest == phase = "guest" /\ phase' = "hypervisor" /\ UNCHANGED intercepts

\* An intercept is counted in the hypervisor.
Count ==
  /\ phase = "hypervisor"
  /\ intercepts + 1 < Limit
  /\ phase' = "hypervisor"
  /\ intercepts' = intercepts + 1

\* The last intercept closes the session in the same step.
CountLast ==
  /\ phase = "hypervisor"
  /\ intercepts + 1 = Limit
  /\ phase' = "over"
  /\ intercepts' = Limit

\* Setup failed, or the guest left for a reason other than HLT.
Abandon == phase = "hypervisor" /\ phase' = "over" /\ UNCHANGED intercepts

SessionNext ==
  Refuse \/ Enter \/ RunGuest \/ LeaveGuest \/ Count \/ CountLast \/ Abandon

SessionSpec == SessionInit /\ [][SessionNext]_sessionVars
=============================================================================
