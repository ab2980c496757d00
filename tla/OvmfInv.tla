------------------------------ MODULE OvmfInv ------------------------------
(***************************************************************************)
(* The inductive invariant of Ovmf: what the searches of a download can    *)
(* meet below <exe_dir>/ovmf, and who else writes there.                   *)
(***************************************************************************)
EXTENDS Ovmf

\* Neither program writes into the bundled directory.
BundledInv == \A h \in Half : disk["flat"][h] \in {"none", "whole"}

\* Only the end of a manager makes an orphan: a download that began alone stays so,
\* and nothing is changed behind its result.
AloneInv ==
  /\ alone => pc # "off"
  /\ alone /\ pc \in {"curl", "tar", "find"} => orphans = {}
  /\ alone /\ pc = "idle" /\ status = "downloaded" => orphans = {}

\* A download that is alone searches only after a tar that has unpacked all.
UnpackedInv == pc = "find" /\ alone => \A d \in Arch : disk[d] = Complete

IInv == TypeOK /\ BundledInv /\ AloneInv /\ UnpackedInv /\ DownloadedPairIsWhole
=============================================================================
