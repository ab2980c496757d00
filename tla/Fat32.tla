------------------------------- MODULE Fat32 -------------------------------
(***************************************************************************)
(* manager/src/fat.rs: write_fat32_disk builds, in memory and then in a    *)
(* file, a FAT32 volume that holds the hypervisor as EFI/BOOT/BOOTX64.EFI; *)
(* the firmware of the engine then opens and reads that file.              *)
(*                                                                         *)
(* The image is flat, as in the code.  A slot of it is what one FAT entry, *)
(* one directory entry or one word of the file takes, and also stands for  *)
(* a whole boot sector or FSInfo sector; BS slots make a sector, which is  *)
(* also a cluster.                                                         *)
(***************************************************************************)
EXTENDS Naturals

CONSTANTS
  BS, TOTAL_SEC, RSVD_SEC, FAT_SEC,   \* the constants of the code, BS in slots
  MaxLen                              \* bound: length of the file, in slots

NUM_FATS == 2
DATA_START == RSVD_SEC + NUM_FATS * FAT_SEC
ROOT_CLUS == 2
EFI_DIR_CLUS == 3
BOOT_DIR_CLUS == 4
FILE_START_CLUS == 5
MEDIA == \h0FFFFFF8
EOC == \h0FFFFFFF

\* A sector takes the entries of a directory, the reserved sectors the backups,
\* a FAT the fixed entries and one entry per cluster (EOC is not a cluster),
\* and the data area the three directories and an empty file's first cluster.
ASSUME GeometryAssumption ==
  /\ BS \in Nat /\ TOTAL_SEC \in Nat /\ RSVD_SEC \in Nat /\ FAT_SEC \in Nat
  /\ MaxLen \in Nat
  /\ BS >= 3
  /\ RSVD_SEC >= 8
  /\ TOTAL_SEC - DATA_START \in Nat \ (0 .. 3)
  /\ FAT_SEC * BS >= ROOT_CLUS + (TOTAL_SEC - DATA_START)
  /\ FAT_SEC * BS < MEDIA

VARIABLES
  pc,        \* the function that runs, or where it ended; then the reader's state
  len,       \* the length of the file, in slots
  img,       \* the image
  fat_idx,   \* write_fat's FAT
  i,         \* clusters of the file done by the current loop, or by the reader
  at, got    \* the reader: the cluster it is at, how much of the file it has

vars == <<pc, len, img, fat_idx, i, at, got>>

\* The first slot of a sector of the image, and of a chunk of the file.
sector(n) == n * BS

Slot == 0 .. sector(TOTAL_SEC) - 1
FatLen == sector(FAT_SEC)
Building == {"headers", "fat", "chain", "dirs", "data", "save"}
Reading == {"open", "read", "eof", "corrupt"}

----------------------------------------------------------------------------
(* What a slot holds                                                       *)

Zero == [kind |-> "zero"]
Entry(next) == [kind |-> "entry", next |-> next]
Word(n) == [kind |-> "word", n |-> n]

BootSector ==
  [kind |-> "boot", RsvdSecCnt |-> RSVD_SEC, NumFATs |-> 2, TotSec32 |-> TOTAL_SEC,
   FATSz32 |-> FAT_SEC, RootClus |-> ROOT_CLUS, FSInfo |-> 1, BkBootSec |-> 6]

FsInfo ==
  [kind |-> "fsinfo", FreeCount |-> TOTAL_SEC - DATA_START, NxtFree |-> FILE_START_CLUS]

\* The first cluster is split into two 16-bit halves.
dir_entry(name, first_clus, size) ==
  [kind |-> "dir", name |-> name, FstClusHI |-> (first_clus \div 65536) % 65536,
   FstClusLO |-> first_clus % 65536, FileSize |-> size]

----------------------------------------------------------------------------
(* Where things go                                                         *)

\* Variant for the mutation checks: a data area that forgets the second FAT.
DataAfterOneFat(clus) == sector(RSVD_SEC + FAT_SEC + (clus - ROOT_CLUS))

\* fat.rs:186, as the first slot of the cluster.
sector_of(clus) == sector(DATA_START + (clus - ROOT_CLUS))

\* fat.rs:129: the first slot of a FAT.
fat_start(k) == sector(RSVD_SEC + k * FAT_SEC)

\* Variant: a length that is a multiple of BS gets a cluster too many.
OneMore == len \div BS + 1

\* file_len.div_ceil(BS)
nclusters == (len + BS - 1) \div BS

\* The length of chunk k of the file, of which the last may be short.
ChunkLen(k) == IF sector(k + 1) <= len THEN BS ELSE len - sector(k)

Init ==
  /\ pc = "headers"
  /\ len \in 0 .. MaxLen
  /\ img = [s \in Slot |-> Zero]
  /\ fat_idx = 0
  /\ i = 0
  /\ at = 0
  /\ got = 0

----------------------------------------------------------------------------
(* write_fat32_disk                                                        *)

\* Variant: the backup of the boot sector is forgotten.
HeadersOnce ==
  /\ pc = "headers"
  /\ img' = [img EXCEPT ![sector(0)] = BootSector, ![sector(1)] = FsInfo, ![sector(7)] = FsInfo]
  /\ pc' = "fat"
  /\ UNCHANGED <<len, fat_idx, i, at, got>>

\* write_boot_sector and write_fsinfo, and their backups.
Headers ==
  /\ pc = "headers"
  /\ img' = [img EXCEPT ![sector(0)] = BootSector, ![sector(1)] = FsInfo,
                        ![sector(6)] = BootSector, ![sector(7)] = FsInfo]
  /\ pc' = "fat"
  /\ UNCHANGED <<len, fat_idx, i, at, got>>

\* write_fat is done with one FAT.
NextFat ==
  /\ i' = 0
  /\ fat_idx' = fat_idx + 1
  /\ pc' = IF fat_idx + 1 = NUM_FATS THEN "dirs" ELSE "fat"

\* write_fat: the media entry, the reserved one and those of the directories.
FatHead ==
  /\ pc = "fat"
  /\ LET s == fat_start(fat_idx) IN
     img' = [img EXCEPT ![s] = Entry(MEDIA), ![s + 1] = Entry(EOC),
                        ![s + ROOT_CLUS] = Entry(EOC), ![s + EFI_DIR_CLUS] = Entry(EOC),
                        ![s + BOOT_DIR_CLUS] = Entry(EOC)]
  /\ IF nclusters = 0 THEN NextFat ELSE pc' = "chain" /\ UNCHANGED <<fat_idx, i>>
  /\ UNCHANGED <<len, at, got>>

\* Variant: only the first FAT gets the chain.
ChainOnce ==
  /\ pc = "chain"
  /\ FILE_START_CLUS + i < FatLen
  /\ img' = IF fat_idx > 0 THEN img
            ELSE [img EXCEPT ![fat_start(fat_idx) + FILE_START_CLUS + i] =
                               Entry(IF i + 1 = nclusters THEN EOC ELSE FILE_START_CLUS + i + 1)]
  /\ IF i + 1 = nclusters THEN NextFat ELSE i' = i + 1 /\ UNCHANGED <<pc, fat_idx>>
  /\ UNCHANGED <<len, at, got>>

\* Variant: the chain stops a cluster early.
ChainShort ==
  /\ pc = "chain"
  /\ FILE_START_CLUS + i < FatLen
  /\ img' = [img EXCEPT ![fat_start(fat_idx) + FILE_START_CLUS + i] =
                          Entry(IF i + 2 >= nclusters THEN EOC ELSE FILE_START_CLUS + i + 1)]
  /\ IF i + 1 = nclusters THEN NextFat ELSE i' = i + 1 /\ UNCHANGED <<pc, fat_idx>>
  /\ UNCHANGED <<len, at, got>>

\* write_fat: one link of the file's chain; the slice ends with the FAT.
Chain ==
  /\ pc = "chain"
  /\ FILE_START_CLUS + i < FatLen
  /\ img' = [img EXCEPT ![fat_start(fat_idx) + FILE_START_CLUS + i] =
                          Entry(IF i + 1 = nclusters THEN EOC ELSE FILE_START_CLUS + i + 1)]
  /\ IF i + 1 = nclusters THEN NextFat ELSE i' = i + 1 /\ UNCHANGED <<pc, fat_idx>>
  /\ UNCHANGED <<len, at, got>>

ChainPanics ==
  /\ pc = "chain"
  /\ FILE_START_CLUS + i >= FatLen
  /\ pc' = "panicked"
  /\ UNCHANGED <<len, img, fat_idx, i, at, got>>

\* write_dir: what slot e of a directory's cluster holds.
Directory(c, e) ==
  CASE e = 0 -> dir_entry(".", c, 0)
    [] e = 1 -> dir_entry("..", IF c = BOOT_DIR_CLUS THEN EFI_DIR_CLUS ELSE ROOT_CLUS, 0)
    [] e = 2 /\ c = ROOT_CLUS -> dir_entry("EFI", EFI_DIR_CLUS, 0)
    [] e = 2 /\ c = EFI_DIR_CLUS -> dir_entry("BOOT", BOOT_DIR_CLUS, 0)
    [] e = 2 /\ c = BOOT_DIR_CLUS -> dir_entry("BOOTX64.EFI", FILE_START_CLUS, len)
    [] OTHER -> Zero

\* The directory whose cluster, which is written as a whole, a slot is in.
InDir(c, s) == s \in sector_of(c) .. sector_of(c) + BS - 1

\* The three calls of write_dir.
Dirs ==
  /\ pc = "dirs"
  /\ img' = [s \in Slot |->
               CASE InDir(ROOT_CLUS, s) -> Directory(ROOT_CLUS, s - sector_of(ROOT_CLUS))
                 [] InDir(EFI_DIR_CLUS, s) -> Directory(EFI_DIR_CLUS, s - sector_of(EFI_DIR_CLUS))
                 [] InDir(BOOT_DIR_CLUS, s) -> Directory(BOOT_DIR_CLUS, s - sector_of(BOOT_DIR_CLUS))
                 [] OTHER -> img[s]]
  /\ pc' = "data"
  /\ UNCHANGED <<len, fat_idx, i, at, got>>

\* write_file_chain: one turn of the loop, which an empty file takes too; the
\* slice must lie inside the image.
DataFits == sector_of(FILE_START_CLUS + i) + ChunkLen(i) <= sector(TOTAL_SEC)

Data ==
  /\ pc = "data"
  /\ DataFits
  /\ LET start == sector_of(FILE_START_CLUS + i) IN
     img' = [s \in Slot |-> IF s \in start .. start + ChunkLen(i) - 1
                            THEN Word(sector(i) + (s - start)) ELSE img[s]]
  /\ i' = i + 1
  /\ pc' = IF sector(i + 1) >= len THEN "save" ELSE "data"
  /\ UNCHANGED <<len, fat_idx, at, got>>

DataPanics ==
  /\ pc = "data"
  /\ ~DataFits
  /\ pc' = "panicked"
  /\ UNCHANGED <<len, img, fat_idx, i, at, got>>

\* File::create and write_all; half a file is never booted (Backend).
Save ==
  /\ pc = "save"
  /\ pc' \in {"open", "err"}
  /\ i' = 0
  /\ UNCHANGED <<len, img, fat_idx, at, got>>

----------------------------------------------------------------------------
(* The reader (external): a FAT driver that believes what it reads         *)

Boot == img[sector(0)]

\* A cluster of the volume, and its first slot, as the boot sector has it.
DataSectors == Boot.TotSec32 - (Boot.RsvdSecCnt + Boot.NumFATs * Boot.FATSz32)
IsCluster(c) == c \in 2 .. DataSectors + 1
ClusterSlot(c) == sector(Boot.RsvdSecCnt + Boot.NumFATs * Boot.FATSz32 + (c - 2))

\* The directory entry called name in the directory at cluster c.
Found(c, name) ==
  {e \in {img[s] : s \in ClusterSlot(c) .. ClusterSlot(c) + BS - 1} :
     e.kind = "dir" /\ e.name = name}
FirstCluster(e) == e.FstClusHI * 65536 + e.FstClusLO

\* What EFI/BOOT/BOOTX64.EFI leads to from the root directory.
Target ==
  UNION {UNION {Found(FirstCluster(b), "BOOTX64.EFI") : b \in Found(FirstCluster(d), "BOOT")} :
           d \in Found(Boot.RootClus, "EFI")}

Size == (CHOOSE e \in Target : TRUE).FileSize

Open ==
  /\ pc = "open"
  /\ IF Target = {}
     THEN pc' = "corrupt" /\ UNCHANGED at
     ELSE \E e \in Target :
            /\ at' = FirstCluster(e)
            /\ pc' = IF e.FileSize = 0 THEN "eof" ELSE "read"
  /\ UNCHANGED <<len, img, fat_idx, i, got>>

\* The entry of cluster at in FAT k.
Link(k) == img[sector(Boot.RsvdSecCnt + k * Boot.FATSz32) + at]

\* The next cluster is read, and the chain followed in either FAT.
ReadCluster ==
  /\ pc = "read"
  /\ IsCluster(at)
  /\ LET rest == Size - got IN got' = got + IF rest < BS THEN rest ELSE BS
  /\ IF got' = Size
     THEN pc' = "eof" /\ UNCHANGED at
     ELSE \E k \in 0 .. Boot.NumFATs - 1 :
            IF Link(k).kind = "entry" /\ IsCluster(Link(k).next)
            THEN at' = Link(k).next /\ UNCHANGED pc
            ELSE pc' = "corrupt" /\ UNCHANGED at
  /\ i' = i + 1
  /\ UNCHANGED <<len, img, fat_idx>>

Next ==
  \/ Headers \/ FatHead \/ Chain \/ ChainPanics \/ Dirs \/ Data \/ DataPanics \/ Save
  \/ Open \/ ReadCluster
  \/ pc \in {"panicked", "err", "eof", "corrupt"} /\ UNCHANGED vars

Spec == Init /\ [][Next]_vars

----------------------------------------------------------------------------
(* What holds                                                              *)

\* The type of every variable.
TypeOK ==
  /\ pc \in Building \cup Reading \cup {"panicked", "err"}
  /\ len \in 0 .. MaxLen
  /\ DOMAIN img = Slot
  /\ fat_idx \in 0 .. NUM_FATS
  /\ i \in Nat
  /\ at \in Nat
  /\ got \in 0 .. MaxLen

\* The file is read back as it was given: the reader finds it, wherever it is in
\* the chain the next words of the file are in its cluster, it never meets a
\* broken link, and it has the whole file at the end.
ReadsBack ==
  /\ pc # "corrupt"
  /\ pc = "read" =>
       \A j \in 0 .. BS - 1 :
         got + j < len => img[ClusterSlot(at) + j] = Word(got + j)
  /\ pc = "eof" => got = len

\* The chain ends where the file does, in both FATs: no cluster follows the last.
ChainEnds == pc = "eof" /\ len > 0 => \A k \in 0 .. NUM_FATS - 1 : Link(k) = Entry(EOC)

\* A panic while the disk is built (an index out of the FAT or out of the image)
\* is only possible for a file longer than the data area, and such a file never
\* gets as far as the disk.
Capacity == sector(TOTAL_SEC - DATA_START - (FILE_START_CLUS - ROOT_CLUS))
PanicsIffTooLong ==
  /\ pc = "panicked" => len > Capacity
  /\ pc \in {"save", "err"} \cup Reading => len <= Capacity

\* Nothing is written outside its area of the volume, whatever the length.
AreasAreKept ==
  \A s \in Slot :
    img[s].kind \in
      IF s < fat_start(0) THEN {"zero", "boot", "fsinfo"}
      ELSE IF s < sector_of(ROOT_CLUS) THEN {"zero", "entry"} ELSE {"zero", "dir", "word"}

\* A finished volume has two equal FATs, and backups equal to their originals.
CopiesAgree ==
  pc \in {"save", "err"} \cup Reading =>
    /\ \A c \in 0 .. FatLen - 1 : img[fat_start(0) + c] = img[fat_start(1) + c]
    /\ img[sector(Boot.BkBootSec)] = Boot
    /\ img[sector(Boot.BkBootSec + Boot.FSInfo)] = img[sector(Boot.FSInfo)]
=============================================================================
