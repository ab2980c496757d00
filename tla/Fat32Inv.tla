------------------------------ MODULE Fat32Inv ------------------------------
(***************************************************************************)
(* The inductive invariant of Fat32: what every slot of the image holds    *)
(* while it is built, one conjunct per area, and where the reader is.      *)
(***************************************************************************)
EXTENDS Fat32

Built == {"save", "err"} \cup Reading

\* A panic comes out of write_fat, with a FAT half written, or of write_file_chain.
InFat == pc = "chain" \/ (pc = "panicked" /\ fat_idx < NUM_FATS)
InData == pc = "data" \/ (pc = "panicked" /\ fat_idx = NUM_FATS)

\* The loop variables at each place, and what the places after the checks of
\* the slices say about the length.
ProgressInv ==
  /\ pc = "headers" => fat_idx = 0
  /\ pc \in {"fat", "chain"} => fat_idx < NUM_FATS
  /\ pc \in {"dirs", "data"} \cup Built => fat_idx = NUM_FATS
  /\ pc \in {"headers", "fat", "dirs", "open"} => i = 0
  /\ InFat => i < nclusters
  /\ InData => i = 0 \/ sector(i) < len
  /\ pc = "panicked" => len > Capacity
  /\ pc \in Built => len <= Capacity

\* The reserved sectors.
Header(s) ==
  CASE s = sector(0) \/ s = sector(6) -> BootSector
    [] s = sector(1) \/ s = sector(7) -> FsInfo
    [] OTHER -> Zero
HeaderInv ==
  \A s \in 0 .. sector(RSVD_SEC) - 1 : img[s] = IF pc = "headers" THEN Zero ELSE Header(s)

\* FAT k: the fixed entries, then the links written so far.
HeadDone(k) == fat_idx > k \/ (fat_idx = k /\ InFat)
Links(k) == IF fat_idx > k THEN nclusters ELSE IF HeadDone(k) THEN i ELSE 0
FatEntry(k, c) ==
  CASE c < FILE_START_CLUS /\ HeadDone(k) -> Entry(IF c = 0 THEN MEDIA ELSE EOC)
    [] c >= FILE_START_CLUS /\ c < FILE_START_CLUS + Links(k) ->
         Entry(IF c - FILE_START_CLUS + 1 = nclusters THEN EOC ELSE c + 1)
    [] OTHER -> Zero
FatInv ==
  \A k \in 0 .. 1, c \in 0 .. FatLen - 1 : img[fat_start(k) + c] = FatEntry(k, c)

\* The directories.
DirsDone == pc \in Built \/ InData
DirInv ==
  \A c \in ROOT_CLUS .. BOOT_DIR_CLUS, e \in 0 .. BS - 1 :
    img[sector_of(c) + e] = IF DirsDone THEN Directory(c, e) ELSE Zero

\* The file: the words of the chunks written so far.
WordDone(w) == w < len /\ (pc \in Built \/ (InData /\ w < sector(i)))
DataInv ==
  \A s \in sector_of(FILE_START_CLUS) .. sector(TOTAL_SEC) - 1 :
    LET w == s - sector_of(FILE_START_CLUS) IN
    img[s] = IF WordDone(w) THEN Word(w) ELSE Zero

\* The reader has read the first i chunks and is at the next, or at the last.
ReaderInv ==
  /\ pc \in Building \cup {"open", "err", "panicked"} => got = 0
  /\ pc = "read" => at = FILE_START_CLUS + i /\ got = sector(i) /\ got < len
  /\ pc = "eof" => got = len
  /\ pc = "eof" /\ len > 0 => at = FILE_START_CLUS + nclusters - 1
  /\ pc # "corrupt"

IInv ==
  /\ TypeOK
  /\ ProgressInv
  /\ HeaderInv
  /\ FatInv
  /\ DirInv
  /\ DataInv
  /\ ReaderInv
=============================================================================
