--------------------------- MODULE ControlsProofs ---------------------------
(***************************************************************************)
(* The control words are right for every processor, not only for those     *)
(* that differ in a few bits.                                              *)
(***************************************************************************)
EXTENDS Controls, TLAPS

\* The halves of a capability MSR come out of the 64-bit value that rdmsr puts
\* together: low for EAX, high for EDX.
LEMMA Halves ==
  ASSUME NEW m \in [eax : SUBSET (0 .. 31), edx : SUBSET (0 .. 31)]
  PROVE  Low(rdmsr(m)) = m.eax /\ High(rdmsr(m)) = m.edx
<1>1. m.eax \subseteq 0 .. 31 /\ m.edx \subseteq 0 .. 31
  OBVIOUS
<1>2. ASSUME NEW b
      PROVE  b \in Low(rdmsr(m)) <=> b \in m.eax
  BY <1>1 DEF Low, rdmsr
<1>3. ASSUME NEW b \in 0 .. 31
      PROVE  b \in High(rdmsr(m)) <=> b \in m.edx
  <2>1. b + 32 \notin m.eax
    BY <1>1
  <2>2. b + 32 \in {d + 32 : d \in m.edx} <=> b \in m.edx
    BY <1>1
  <2> QED
    BY <2>1, <2>2 DEF High, rdmsr
<1> QED
  BY <1>1, <1>2, <1>3 DEF High

LEMMA MasksType ==
  ASSUME NEW c \in Capability, NEW m \in Masks(c)
  PROVE  /\ m \in [eax : SUBSET (0 .. 31), edx : SUBSET (0 .. 31)]
         /\ m.eax \subseteq m.edx
         /\ c = "secondary" => m.eax = {}
BY OfferedAssumption DEF Masks

\* What a word holds: the bits that must be 1 and the desired ones that may be.
LEMMA WordIs ==
  ASSUME NEW c \in Capability, NEW m \in Masks(c)
  PROVE  Word(c, m) = m.eax \cup (Desired[c] \cap m.edx)
<1>1. /\ Low(rdmsr(m)) = m.eax /\ High(rdmsr(m)) = m.edx
      /\ m.eax \subseteq m.edx
      /\ c = "secondary" => m.eax = {}
  BY Halves, MasksType
<1>2. CASE c = "secondary"
  BY <1>1, <1>2 DEF Word, calc_secondary
<1>3. CASE c # "secondary"
  BY <1>1, <1>3 DEF Word, calc_ctrl
<1> QED
  BY <1>2, <1>3

\* Whatever the capability MSRs say, VM entry is never refused because of a
\* control word that calc_ctrl or calc_secondary has made.
THEOREM AcceptedControls == Spec => []ControlsAreAccepted
<1>1. ASSUME NEW c \in Capability, NEW m \in Masks(c)
      PROVE  Accepted(m, Word(c, m))
  <2>1. m.eax \subseteq m.edx
    BY MasksType
  <2> QED
    BY <2>1, WordIs DEF Accepted
<1>2. ControlsAreAccepted
  BY <1>1 DEF ControlsAreAccepted, Acceptable
<1> QED
  BY <1>2, PTL
=============================================================================
