-------------------------------- MODULE Ovmf --------------------------------
(***************************************************************************)
(* manager/src/ovmf.rs and the parts of main.rs that use it: the manager   *)
(* looks for a pair of firmware files, code.fd and vars.fd, or fetches an  *)
(* archive of them with curl and unpacks it with tar.  Either program can  *)
(* fail half way.  The manager can be killed and started again; the curl   *)
(* or tar it waits for goes down with it, or runs on by itself.            *)
(***************************************************************************)
EXTENDS Naturals, FiniteSets, SequencesExt

CONSTANT Arch    \* the architectures in the archive, one directory each

\* Directories are named by what is in them: "flat" is <exe_dir>/ovmf/x64,
\* "4M" and "2M" are the names of the distribution's files in /usr/share/OVMF,
\* and an architecture is its directory below the versioned one of the archive.
ASSUME OvmfAssumption == Arch # {} /\ IsFiniteSet(Arch) /\ Arch \cap {"flat", "4M", "2M"} = {}

Target == Arch \cup {"flat"}           \* what is below <exe_dir>/ovmf
Dir == Target \cup {"4M", "2M"}
Half == {"code", "vars"}

VARIABLES
  pc,          \* step of download; "off" while the manager does not run
  tmp,         \* the file curl writes: "none", "page", "torn", "archive"
  disk,        \* each half in each directory: "none", "torn", "whole"
  pair,        \* ovmf_code and ovmf_vars: the directories of the two files
  status,      \* what the status line says of a download: "idle" is nothing
  windows,     \* the platform the manager was built for
  orphans,     \* which of curl and tar still run for a manager that is gone
  alone,       \* history: the last download began without an orphan
  agreed       \* history: its two searches could list the same directories

fields == <<pair, status, windows>>
history == <<alone, agreed>>
vars == <<pc, tmp, disk, fields, orphans, history>>

exists(d, h) == disk[d][h] # "none"
Nothing == [h \in Half |-> "none"]
Complete == [h \in Half |-> "whole"]

\* A bundled pair comes with the release or not at all, and a half of it may
\* have been removed; the distribution installs both files.
Init ==
  /\ pc = "off"
  /\ tmp = "none"
  /\ \E bundled \in [Half -> {"none", "whole"}], system \in SUBSET {"4M", "2M"} :
       disk = [d \in Dir |-> IF d = "flat" THEN bundled
                             ELSE IF d \in system THEN Complete ELSE Nothing]
  /\ pair = [h \in Half |-> "flat"]
  /\ status = "idle"
  /\ windows \in BOOLEAN
  /\ windows => \A d \in {"4M", "2M"} : disk[d] = Nothing
  /\ orphans = {}
  /\ alone = FALSE /\ agreed = FALSE

----------------------------------------------------------------------------
(* detect, and who calls it                                                *)

Candidates == IF windows THEN <<"flat">> ELSE <<"4M", "2M">>
Usable == {k \in DOMAIN Candidates : \A h \in Half : exists(Candidates[k], h)}

\* The first candidate both halves of which exist.
detect == Candidates[CHOOSE k \in Usable : \A j \in Usable : k <= j]

\* App::new, which falls back to the bundled pair whether it exists or not.
Launch ==
  /\ pc = "off"
  /\ pc' = "idle"
  /\ pair' = [h \in Half |-> IF Usable = {} THEN "flat" ELSE detect]
  /\ UNCHANGED <<tmp, disk, status, windows, orphans, history>>

\* main.rs:382: the status line then tells of the search.
AutoDetect ==
  /\ pc = "idle"
  /\ status' = "idle"
  /\ pair' = IF Usable = {} THEN pair ELSE [h \in Half |-> detect]
  /\ UNCHANGED <<pc, tmp, disk, windows, orphans, history>>

----------------------------------------------------------------------------
(* download, in the frame of the click                                     *)

Failed == pc' = "idle" /\ status' = "failed"

\* create_dir_all; the window stands still, and the old status with it.
ClickDownload ==
  /\ pc = "idle"
  /\ \/ pc' = "curl" /\ UNCHANGED status
     \/ Failed
  /\ alone' = (orphans = {}) /\ agreed' = FALSE
  /\ UNCHANGED <<tmp, disk, pair, windows, orphans>>

\* curl without -f: the page of an HTTP error is a success.  A transfer that
\* breaks off leaves what has come so far, or the file of an earlier download.
Curl ==
  /\ pc = "curl"
  /\ \/ tmp' \in {"archive", "page"} /\ pc' = "tar" /\ UNCHANGED status
     \/ tmp' \in {tmp, "torn"} /\ Failed
  /\ UNCHANGED <<disk, pair, windows, orphans, history>>

\* What tar may leave of an architecture when it fails: nothing done yet, or one
\* half cut short.
Partly(old) ==
  {old, [old EXCEPT !["code"] = "torn"], [old EXCEPT !["code"] = "whole", !["vars"] = "torn"], Complete}

Unpacked(result) == disk' = [d \in Dir |-> IF d \in Arch THEN result[d] ELSE disk[d]]
Unpack == Unpacked([d \in Arch |-> Complete])
UnpackPart == \E result \in [Arch -> UNION {Partly(disk[d]) : d \in Arch}] :
  (\A d \in Arch : result[d] \in Partly(disk[d])) /\ Unpacked(result)

\* Variant for the mutation checks: the status of tar is not looked at.
TarUnchecked ==
  /\ pc = "tar"
  /\ pc' = "find"
  /\ \/ tmp = "archive" /\ Unpack
     \/ tmp \in {"archive", "torn"} /\ UnpackPart
     \/ tmp = "page" /\ UNCHANGED disk
  /\ UNCHANGED <<tmp, fields, orphans, history>>

\* The archive may be torn again by a curl that runs beside this download.
Tar ==
  /\ pc = "tar"
  /\ \/ tmp = "archive" /\ Unpack /\ pc' = "find" /\ UNCHANGED status
     \/ tmp \in {"archive", "torn"} /\ UnpackPart /\ Failed
     \/ tmp = "page" /\ UNCHANGED disk /\ Failed
  /\ UNCHANGED <<tmp, pair, windows, orphans, history>>

\* The orders in which read_dir may list what is below <exe_dir>/ovmf: the
\* bundled directory is before or after the versioned one with all it holds.
Order ==
  {o \in SetToSeqs(Target) : o[1] = "flat" \/ o[Len(o)] = "flat"}

\* The first file of that name, in the order of the listing.  A directory that
\* cannot be listed, or what follows an entry that cannot be read, is passed over:
\* the search sees the directories in seen.
find_file(o, seen, h) == SelectInSeq(o, LAMBDA d : d \in seen /\ exists(d, h))

\* What the two searches can list: the same directories, or not the same.  In that
\* case each may come upon any one directory, or upon none, and what else it can
\* list makes no difference.
Seen == {[h \in Half |-> s] : s \in SUBSET Target} \cup [Half -> {{d} : d \in Target} \cup {{}}]

\* Both searches list in one order.  What an orphaned tar creates between them is
\* to the first search as if it could not be read.
Find ==
  /\ pc = "find"
  /\ pc' = "idle"
  /\ \E o \in Order, seen \in Seen :
       /\ agreed' = (seen["code"] = seen["vars"])
       /\ IF \E h \in Half : find_file(o, seen[h], h) = 0
          THEN status' = "failed" /\ UNCHANGED pair
          ELSE status' = "downloaded" /\ pair' = [h \in Half |-> o[find_file(o, seen[h], h)]]
  /\ UNCHANGED <<tmp, disk, windows, orphans, alone>>

----------------------------------------------------------------------------

\* What the manager held is gone with it.
Gone ==
  /\ pc' = "off"
  /\ pair' = [h \in Half |-> "flat"] /\ status' = "idle"
  /\ alone' = FALSE /\ agreed' = FALSE
  /\ UNCHANGED windows

\* The end of a manager takes curl or tar down half way, a closed terminal for one.
QuitWithChild ==
  /\ pc # "off"
  /\ Gone
  /\ IF pc = "tar" /\ tmp # "page" THEN UnpackPart ELSE UNCHANGED disk
  /\ tmp' \in IF pc = "curl" THEN {tmp, "torn"} ELSE {tmp}
  /\ UNCHANGED orphans

\* A manager that is killed by itself leaves the child behind: status() only waits.
QuitAlone ==
  /\ pc = "curl" \/ (pc = "tar" /\ tmp # "page")
  /\ Gone
  /\ orphans' = orphans \cup {pc}
  /\ UNCHANGED <<tmp, disk>>

Quit == QuitWithChild \/ QuitAlone

\* An orphaned curl goes on writing to the one temporary file, and ends some time.
OrphanCurl ==
  /\ "curl" \in orphans
  /\ \/ tmp' = "torn" /\ UNCHANGED orphans
     \/ tmp' \in {tmp, "torn", "page", "archive"} /\ orphans' = orphans \ {"curl"}
  /\ UNCHANGED <<pc, disk, fields, history>>

\* An orphaned tar goes on unpacking into the one directory, and ends some time.
OrphanTar ==
  /\ "tar" \in orphans
  /\ \/ \E d \in Arch : disk' \in {[disk EXCEPT ![d] = part] : part \in Partly(disk[d])}
        /\ UNCHANGED orphans
     \/ orphans' = orphans \ {"tar"} /\ UNCHANGED disk
  /\ UNCHANGED <<pc, tmp, fields, history>>

Manager == Launch \/ AutoDetect \/ ClickDownload \/ Curl \/ Tar \/ Find \/ Quit

Next == Manager \/ OrphanCurl \/ OrphanTar

Spec == Init /\ [][Next]_vars

----------------------------------------------------------------------------
(* What holds                                                              *)

\* The type of every variable.
TypeOK ==
  /\ pc \in {"off", "idle", "curl", "tar", "find"}
  /\ tmp \in {"none", "page", "torn", "archive"}
  /\ disk \in [Dir -> [Half -> {"none", "torn", "whole"}]]
  /\ pair \in [Half -> Dir]
  /\ status \in {"idle", "failed", "downloaded"}
  /\ windows \in BOOLEAN
  /\ orphans \in SUBSET {"curl", "tar"}
  /\ alone \in BOOLEAN /\ agreed \in BOOLEAN

\* A download that ran alone and is reported as done has left two whole files in
\* the fields start will use, of some one architecture: neither an error page nor a
\* torn archive, of this download or of an interrupted one before, gets that far.
\* The halves may differ where half of a bundled pair is in the way, or where the
\* two searches could not list the same directories.
BundledHalf == exists("flat", "code") # exists("flat", "vars")
DownloadedPairIsWhole ==
  pc = "idle" /\ status = "downloaded" /\ alone =>
    /\ \A h \in Half : disk[pair[h]][h] = "whole"
    /\ agreed /\ ~BundledHalf => pair["code"] = pair["vars"]
=============================================================================
