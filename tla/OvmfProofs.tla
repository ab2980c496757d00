----------------------------- MODULE OvmfProofs -----------------------------
(***************************************************************************)
(* The safety of Ovmf for any set of architectures in the archive, any     *)
(* platform and any number of downloads, kills, orphans and restarts.      *)
(***************************************************************************)
EXTENDS OvmfInv, FiniteSetTheorems, SequenceTheorems, WellFoundedInduction, TLAPS

----------------------------------------------------------------------------
(* Searching                                                               *)

\* A set of natural numbers that is not empty has a least element.
LEMMA LeastElement ==
  ASSUME NEW T, T \subseteq Nat, T # {}
  PROVE  \E x \in T : \A y \in T : x <= y
<1>1. IsWellFoundedOn(OpToRel(<, Nat), Nat)
  BY NatLessThanWellFounded
<1>2. PICK x \in T : \A y \in T : <<y, x>> \notin OpToRel(<, Nat)
  BY <1>1, WFMin
<1>3. ASSUME NEW y \in T PROVE x <= y
  <2>1. <<y, x>> \in Nat \X Nat BY <1>2
  <2>2. ~(y < x) BY <1>2, <2>1 DEF OpToRel
  <2>3. x \in Nat /\ y \in Nat OBVIOUS
  <2> QED BY <2>2, <2>3
<1> QED BY <1>2, <1>3

\* The places of the files of one name in what is listed, and the first of them.
Found(o, seen, h) == {i \in 1 .. Len(o) : o[i] \in seen /\ exists(o[i], h)}

LEMMA FirstFound ==
  ASSUME NEW o, Len(o) \in Nat, NEW seen, NEW h \in Half
  PROVE  /\ find_file(o, seen, h) = IF Found(o, seen, h) # {} THEN Min(Found(o, seen, h)) ELSE 0
         /\ find_file(o, seen, h) # 0 => find_file(o, seen, h) \in Found(o, seen, h)
<1>1. find_file(o, seen, h) = IF Found(o, seen, h) # {} THEN Min(Found(o, seen, h)) ELSE 0
  BY DEF find_file, SelectInSeq, Found
<1>2. ASSUME Found(o, seen, h) # {} PROVE Min(Found(o, seen, h)) \in Found(o, seen, h)
  <2>1. Found(o, seen, h) \subseteq Nat
    <3>1. \A i \in 1 .. Len(o) : i \in Nat OBVIOUS
    <3> QED BY <3>1, Zenon DEF Found
  <2>2. \E x \in Found(o, seen, h) : \A y \in Found(o, seen, h) : x <= y
    BY <1>2, <2>1, LeastElement
  <2> QED BY <2>2 DEF Min
<1> QED BY <1>1, <1>2

\* A listing names directories below <exe_dir>/ovmf and nothing else.
LEMMA OrderType ==
  ASSUME NEW o \in Order
  PROVE  Len(o) \in Nat /\ \A i \in 1 .. Len(o) : o[i] \in Target
<1>1. IsFiniteSet(Target)
  BY OvmfAssumption, FS_AddElement DEF Target
<1>2. Cardinality(Target) \in Nat
  BY <1>1, FS_CardinalityType
<1>3. o \in [1 .. Cardinality(Target) -> Target]
  BY DEF Order, SetToSeqs
<1>4. o \in Seq(Target) /\ Len(o) = Cardinality(Target)
  BY <1>2, <1>3, SeqDef, LenProperties
<1> QED BY <1>2, <1>3, <1>4

\* The first candidate is a directory of the model.
LEMMA DetectType ==
  ASSUME Usable # {}
  PROVE  detect \in Dir
<1>1. /\ DOMAIN Candidates \subseteq 1 .. 2
      /\ \A k \in DOMAIN Candidates : Candidates[k] \in Dir
  BY DEF Candidates, Dir, Target
<1>2. Usable \subseteq DOMAIN Candidates /\ Usable \subseteq Nat
  <2>1. Usable \subseteq DOMAIN Candidates BY DEF Usable
  <2>2. 1 .. 2 \subseteq Nat OBVIOUS
  <2> QED BY <1>1, <2>1, <2>2
<1>3. \E k \in Usable : \A j \in Usable : k <= j
  BY <1>2, LeastElement
<1> QED BY <1>1, <1>2, <1>3 DEF detect

----------------------------------------------------------------------------
(* The steps of the manager and of curl and tar                            *)

\* A failing tar leaves halves, the bundled pair as it was, and nothing else.
LEMMA UnpackPartKeeps ==
  ASSUME TypeOK, BundledInv, UnpackPart
  PROVE  disk' \in [Dir -> [Half -> {"none", "torn", "whole"}]] /\ BundledInv'
<1>1. PICK result \in [Arch -> UNION {Partly(disk[d]) : d \in Arch}] :
        (\A d \in Arch : result[d] \in Partly(disk[d])) /\ Unpacked(result)
  BY DEF UnpackPart
<1>2. ASSUME NEW d \in Arch
      PROVE  result[d] \in [Half -> {"none", "torn", "whole"}]
  <2>1. disk[d] \in [Half -> {"none", "torn", "whole"}] BY DEF TypeOK, Dir, Target
  <2>2. result[d] \in Partly(disk[d]) BY <1>1
  <2> QED BY <2>1, <2>2 DEF Partly, Complete, Half
<1>3. disk' = [d \in Dir |-> IF d \in Arch THEN result[d] ELSE disk[d]]
  BY <1>1 DEF Unpacked
<1>4. disk' \in [Dir -> [Half -> {"none", "torn", "whole"}]]
  BY <1>2, <1>3 DEF TypeOK
<1>5. disk'["flat"] = disk["flat"]
  BY <1>3, OvmfAssumption DEF Dir, Target
<1> QED BY <1>4, <1>5 DEF BundledInv

\* A tar that succeeds leaves every architecture complete.
LEMMA UnpackKeeps ==
  ASSUME TypeOK, BundledInv, Unpack
  PROVE  /\ disk' \in [Dir -> [Half -> {"none", "torn", "whole"}]]
         /\ BundledInv'
         /\ \A d \in Arch : disk'[d] = Complete
<1>1. disk' = [d \in Dir |-> IF d \in Arch THEN Complete ELSE disk[d]]
  BY DEF Unpack, Unpacked
<1>2. Complete \in [Half -> {"none", "torn", "whole"}]
  BY DEF Complete
<1>3. disk' \in [Dir -> [Half -> {"none", "torn", "whole"}]]
  BY <1>1, <1>2 DEF TypeOK
<1>4. disk'["flat"] = disk["flat"]
  BY <1>1, OvmfAssumption DEF Dir, Target
<1> QED BY <1>1, <1>3, <1>4 DEF BundledInv, Dir, Target

\* What the searches of a download that is alone find is whole, and of one directory
\* if they could list the same ones and no half of a bundled pair is in the way.
LEMMA KeepsFind ==
  ASSUME IInv, Find
  PROVE  IInv'
<1>1. pc = "find" /\ pc' = "idle" /\ UNCHANGED <<tmp, disk, windows, orphans, alone>>
  BY DEF Find
<1>2. PICK o \in Order, seen \in Seen :
        /\ agreed' = (seen["code"] = seen["vars"])
        /\ IF \E h \in Half : find_file(o, seen[h], h) = 0
           THEN status' = "failed" /\ UNCHANGED pair
           ELSE status' = "downloaded" /\ pair' = [h \in Half |-> o[find_file(o, seen[h], h)]]
  BY DEF Find
<1>3. Len(o) \in Nat /\ \A i \in 1 .. Len(o) : o[i] \in Target
  BY OrderType
<1>4. agreed' \in BOOLEAN BY <1>2
<1>5. BundledInv' /\ AloneInv' /\ UnpackedInv'
  BY <1>1 DEF IInv, BundledInv, AloneInv, UnpackedInv
<1>6. CASE \E h \in Half : find_file(o, seen[h], h) = 0
  <2>1. status' = "failed" /\ UNCHANGED pair BY <1>2, <1>6
  <2>2. TypeOK' BY <1>1, <1>4, <2>1 DEF IInv, TypeOK
  <2>3. DownloadedPairIsWhole' BY <2>1 DEF DownloadedPairIsWhole
  <2> QED BY <1>5, <2>2, <2>3 DEF IInv
<1>7. CASE \A h \in Half : find_file(o, seen[h], h) # 0
  <2>1. status' = "downloaded" /\ pair' = [h \in Half |-> o[find_file(o, seen[h], h)]]
    BY <1>2, <1>7
  <2>2. \A h \in Half : pair'[h] \in Target /\ exists(pair'[h], h)
    <3> SUFFICES ASSUME NEW h \in Half PROVE pair'[h] \in Target /\ exists(pair'[h], h)
      OBVIOUS
    <3>1. find_file(o, seen[h], h) \in Found(o, seen[h], h) BY <1>3, <1>7, FirstFound
    <3> QED BY <1>3, <2>1, <3>1 DEF Found
  <2>3. ASSUME alone, NEW h \in Half PROVE disk[pair'[h]][h] = "whole"
    <3>1. CASE pair'[h] \in Arch
      BY <1>1, <2>3, <3>1 DEF IInv, UnpackedInv, Complete
    <3>2. CASE pair'[h] = "flat"
      BY <2>2, <3>2 DEF IInv, BundledInv, exists
    <3> QED BY <2>2, <3>1, <3>2 DEF Target
  <2>4. ASSUME alone, agreed', ~BundledHalf PROVE pair'["code"] = pair'["vars"]
    <3>1. "code" \in Half /\ "vars" \in Half BY DEF Half
    <3>2. \A d \in Target : exists(d, "code") = exists(d, "vars")
      <4> SUFFICES ASSUME NEW d \in Target PROVE exists(d, "code") = exists(d, "vars")
        OBVIOUS
      <4>1. CASE d \in Arch
        BY <1>1, <2>4, <3>1, <4>1 DEF IInv, UnpackedInv, Complete, exists
      <4>2. CASE d = "flat"
        BY <2>4, <4>2 DEF BundledHalf, exists
      <4> QED BY <4>1, <4>2 DEF Target
    <3>3. seen["code"] = seen["vars"] BY <1>2, <2>4
    <3>4. Found(o, seen["code"], "code") = Found(o, seen["vars"], "vars")
      BY <1>3, <3>2, <3>3 DEF Found
    <3>5. find_file(o, seen["code"], "code") = find_file(o, seen["vars"], "vars")
      BY <1>3, <3>1, <3>4, FirstFound
    <3> QED BY <2>1, <3>1, <3>5
  <2>5. TypeOK'
    BY <1>1, <1>4, <2>1, <2>2 DEF IInv, TypeOK, Dir
  <2>6. DownloadedPairIsWhole'
    BY <1>1, <2>3, <2>4 DEF DownloadedPairIsWhole, BundledHalf, exists
  <2> QED BY <1>5, <2>5, <2>6 DEF IInv
<1> QED BY <1>6, <1>7

\* tar, whose success is the only way to the searches.
LEMMA KeepsTar ==
  ASSUME IInv, Tar
  PROVE  IInv'
<1>1. pc = "tar" /\ UNCHANGED <<tmp, pair, windows, orphans, alone, agreed>>
  BY DEF Tar, history
<1>2. CASE tmp = "archive" /\ Unpack /\ pc' = "find" /\ UNCHANGED status
  <2>1. /\ disk' \in [Dir -> [Half -> {"none", "torn", "whole"}]]
        /\ BundledInv'
        /\ \A d \in Arch : disk'[d] = Complete
    BY <1>2, UnpackKeeps DEF IInv
  <2>2. AloneInv' BY <1>1, <1>2 DEF IInv, AloneInv
  <2> QED BY <1>1, <1>2, <2>1, <2>2 DEF IInv, TypeOK, UnpackedInv, Complete, DownloadedPairIsWhole
<1>3. CASE tmp \in {"archive", "torn"} /\ UnpackPart /\ Failed
  <2>1. disk' \in [Dir -> [Half -> {"none", "torn", "whole"}]] /\ BundledInv'
    BY <1>3, UnpackPartKeeps DEF IInv
  <2>2. AloneInv' BY <1>1, <1>3 DEF Failed, IInv, AloneInv
  <2> QED BY <1>1, <1>3, <2>1, <2>2 DEF Failed, IInv, TypeOK, UnpackedInv, DownloadedPairIsWhole
<1>4. CASE tmp = "page" /\ UNCHANGED disk /\ Failed
  BY <1>1, <1>4
  DEF Failed, IInv, TypeOK, BundledInv, AloneInv, UnpackedInv, DownloadedPairIsWhole
<1> QED BY <1>2, <1>3, <1>4 DEF Tar

\* The end of the manager, with tar half way or left behind.
LEMMA KeepsQuit ==
  ASSUME IInv, Quit
  PROVE  IInv'
<1>1. Gone /\ tmp' \in {tmp, "torn"} /\ (UnpackPart \/ UNCHANGED disk)
  BY DEF Quit, QuitWithChild, QuitAlone
<1>2. orphans' \in SUBSET {"curl", "tar"}
  BY DEF Quit, QuitWithChild, QuitAlone, IInv, TypeOK
<1>3. disk' \in [Dir -> [Half -> {"none", "torn", "whole"}]] /\ BundledInv'
  <2>1. CASE UnpackPart BY <2>1, UnpackPartKeeps DEF IInv
  <2>2. CASE UNCHANGED disk BY <2>2 DEF IInv, TypeOK, BundledInv
  <2> QED BY <1>1, <2>1, <2>2
<1>4. "flat" \in Dir BY DEF Dir, Target
<1>5. TypeOK' BY <1>1, <1>2, <1>3, <1>4 DEF Gone, IInv, TypeOK
<1>6. AloneInv' /\ UnpackedInv' /\ DownloadedPairIsWhole'
  BY <1>1 DEF Gone, AloneInv, UnpackedInv, DownloadedPairIsWhole
<1> QED BY <1>3, <1>5, <1>6 DEF IInv

\* What is left behind works on beside everything, but not beside a download that
\* is alone.
LEMMA KeepsOrphans ==
  ASSUME IInv, OrphanCurl \/ OrphanTar
  PROVE  IInv'
<1>1. /\ orphans # {} /\ orphans' \in SUBSET orphans
      /\ UNCHANGED <<pc, pair, status, windows, alone, agreed>>
  BY DEF OrphanCurl, OrphanTar, fields, history
<1>2. tmp' \in {"none", "page", "torn", "archive"}
  BY DEF OrphanCurl, OrphanTar, IInv, TypeOK
<1>3. disk' \in [Dir -> [Half -> {"none", "torn", "whole"}]] /\ BundledInv'
  <2>1. CASE UNCHANGED disk BY <2>1 DEF IInv, TypeOK, BundledInv
  <2>2. ASSUME NEW d \in Arch, NEW part \in Partly(disk[d]), disk' = [disk EXCEPT ![d] = part]
        PROVE  disk' \in [Dir -> [Half -> {"none", "torn", "whole"}]] /\ BundledInv'
    <3>1. d \in Dir /\ d # "flat" /\ "flat" \in Dir BY OvmfAssumption DEF Dir, Target
    <3>2. disk[d] \in [Half -> {"none", "torn", "whole"}] BY <3>1 DEF IInv, TypeOK
    <3>3. part \in [Half -> {"none", "torn", "whole"}]
      BY <2>2, <3>2 DEF Partly, Complete, Half
    <3>4. disk' \in [Dir -> [Half -> {"none", "torn", "whole"}]]
      BY <2>2, <3>1, <3>3 DEF IInv, TypeOK
    <3>5. disk'["flat"] = disk["flat"] BY <2>2, <3>1 DEF IInv, TypeOK
    <3> QED BY <3>4, <3>5 DEF IInv, BundledInv
  <2> QED BY <2>1, <2>2 DEF OrphanCurl, OrphanTar
<1>4. TypeOK' BY <1>1, <1>2, <1>3 DEF IInv, TypeOK
<1>5. AloneInv' BY <1>1 DEF IInv, AloneInv
<1>6. UnpackedInv' /\ DownloadedPairIsWhole'
  BY <1>1 DEF IInv, AloneInv, UnpackedInv, DownloadedPairIsWhole
<1> QED BY <1>3, <1>4, <1>5, <1>6 DEF IInv

\* The steps that leave the files of a pair alone.
LEMMA KeepsElsewhere ==
  ASSUME IInv, Launch \/ AutoDetect \/ ClickDownload \/ Curl
  PROVE  IInv'
<1>1. "flat" \in Dir BY DEF Dir, Target
<1>2. pair' \in [Half -> Dir]
  BY <1>1, DetectType DEF Launch, AutoDetect, ClickDownload, Curl, IInv, TypeOK
<1>3. TypeOK'
  BY <1>2 DEF Launch, AutoDetect, ClickDownload, Curl, Failed, IInv, TypeOK, history
<1>4. BundledInv' /\ UnpackedInv'
  BY DEF Launch, AutoDetect, ClickDownload, Curl, Failed, IInv, BundledInv, UnpackedInv
<1>5. AloneInv'
  <2>1. CASE Launch BY <2>1 DEF Launch, IInv, AloneInv, history
  <2>2. CASE AutoDetect BY <2>2 DEF AutoDetect, IInv, AloneInv
  <2>3. CASE ClickDownload BY <2>3 DEF ClickDownload, Failed, AloneInv
  <2>4. CASE Curl BY <2>4 DEF Curl, Failed, IInv, AloneInv, history
  <2> QED BY <2>1, <2>2, <2>3, <2>4
<1>6. DownloadedPairIsWhole'
  BY DEF Launch, AutoDetect, ClickDownload, Curl, Failed, IInv, AloneInv, DownloadedPairIsWhole,
         history
<1> QED BY <1>3, <1>4, <1>5, <1>6 DEF IInv

----------------------------------------------------------------------------
(* The theorems                                                            *)

LEMMA InitInv == Init => IInv
<1> SUFFICES ASSUME Init PROVE IInv
  OBVIOUS
<1>1. PICK bundled \in [Half -> {"none", "whole"}], system \in SUBSET {"4M", "2M"} :
        disk = [d \in Dir |-> IF d = "flat" THEN bundled
                              ELSE IF d \in system THEN Complete ELSE Nothing]
  BY DEF Init
<1>2. "flat" \in Dir BY DEF Dir, Target
<1>3. TypeOK
  <2>1. \A d \in Dir : disk[d] \in [Half -> {"none", "torn", "whole"}]
    BY <1>1 DEF Complete, Nothing
  <2>2. disk \in [Dir -> [Half -> {"none", "torn", "whole"}]] BY <1>1, <2>1
  <2> QED BY <1>2, <2>2 DEF Init, TypeOK
<1>4. BundledInv BY <1>1, <1>2 DEF BundledInv
<1>5. AloneInv /\ UnpackedInv /\ DownloadedPairIsWhole
  BY DEF Init, AloneInv, UnpackedInv, DownloadedPairIsWhole
<1> QED BY <1>3, <1>4, <1>5 DEF IInv

LEMMA NextInv == IInv /\ [Next]_vars => IInv'
<1> SUFFICES ASSUME IInv, [Next]_vars PROVE IInv'
  OBVIOUS
<1>1. CASE UNCHANGED vars
  BY <1>1 DEF vars, fields, history, IInv, TypeOK, BundledInv, AloneInv, UnpackedInv,
              DownloadedPairIsWhole, BundledHalf, exists
<1> QED
  BY <1>1, KeepsElsewhere, KeepsTar, KeepsFind, KeepsQuit, KeepsOrphans DEF Next, Manager

\* The inductive invariant holds in every reachable state.
THEOREM Invariance == Spec => []IInv
BY InitInv, NextInv, PTL DEF Spec

\* Every variable keeps its type.
THEOREM TypeCorrect == Spec => []TypeOK
<1>1. IInv => TypeOK BY DEF IInv
<1> QED BY <1>1, Invariance, PTL

\* A download that ran alone and is reported as done has left two whole files in the
\* fields start will use, of one directory if both searches could list the same ones
\* and no half of a bundled pair is in the way: whatever earlier downloads, kills,
\* orphans and restarts left behind and in whatever order read_dir lists it.
THEOREM WholePair == Spec => []DownloadedPairIsWhole
<1>1. IInv => DownloadedPairIsWhole BY DEF IInv
<1> QED BY <1>1, Invariance, PTL
=============================================================================
