---------------------------- MODULE Fat32Proofs ----------------------------
(***************************************************************************)
(* The disk image is right for every file length and every geometry that   *)
(* the assumption of Fat32 allows.                                         *)
(***************************************************************************)
EXTENDS Fat32Inv, TLAPS

LEMMA SectorFacts ==
  /\ \A n \in Nat : sector(n) \in Nat
  /\ sector(0) = 0
  /\ \A n \in Nat : sector(n + 1) = sector(n) + BS
  /\ \A a, b \in Nat : sector(a + b) = sector(a) + sector(b)
  /\ \A a, b \in Nat : a < b => sector(a) + BS <= sector(b)
  /\ \A a, b \in Nat : a <= b => sector(a) <= sector(b)
BY GeometryAssumption DEF sector

LEMMA ClusterCount ==
  ASSUME len \in Nat
  PROVE  /\ nclusters \in Nat
         /\ len <= sector(nclusters)
         /\ nclusters = 0 <=> len = 0
         /\ nclusters > 0 => sector(nclusters - 1) < len
<1>1. \A l \in Nat : (l + BS - 1) \div BS \in Nat
  BY GeometryAssumption
<1>2. \A l \in Nat : l < ((l \div BS) + 1) * BS /\ (l \div BS) * BS <= l
  BY GeometryAssumption
<1> QED
  BY <1>1, <1>2, GeometryAssumption DEF nclusters, sector
\* The areas of the image, in slots, one after the other.
LEMMA Layout ==
  /\ BS \in Nat /\ BS >= 3
  /\ FatLen \in Nat /\ FatLen > FILE_START_CLUS
  /\ sector(0) = 0 /\ sector(1) = BS /\ sector(6) \in Nat /\ sector(6) > BS
  /\ sector(7) = sector(6) + BS
  /\ sector(RSVD_SEC) \in Nat /\ sector(7) < sector(RSVD_SEC)
  /\ fat_start(0) = sector(RSVD_SEC)
  /\ fat_start(1) = sector(RSVD_SEC) + FatLen
  /\ sector_of(ROOT_CLUS) = sector(RSVD_SEC) + FatLen + FatLen
  /\ sector_of(EFI_DIR_CLUS) = sector_of(ROOT_CLUS) + BS
  /\ sector_of(BOOT_DIR_CLUS) = sector_of(EFI_DIR_CLUS) + BS
  /\ sector_of(FILE_START_CLUS) = sector_of(BOOT_DIR_CLUS) + BS
  /\ \A k \in Nat : sector_of(FILE_START_CLUS + k) = sector_of(FILE_START_CLUS) + sector(k)
  /\ sector(TOTAL_SEC) = sector_of(FILE_START_CLUS) + Capacity
  /\ Capacity \in Nat
  /\ \A k \in Nat : FILE_START_CLUS + k >= FatLen => sector(k) >= Capacity
<1> DEFINE N == TOTAL_SEC - DATA_START
<1>1. N \in Nat /\ N > 3 /\ DATA_START \in Nat /\ TOTAL_SEC = DATA_START + N
  BY GeometryAssumption DEF DATA_START, NUM_FATS
<1>2. DATA_START = RSVD_SEC + FAT_SEC + FAT_SEC
  BY GeometryAssumption DEF DATA_START, NUM_FATS
<1>3. BS \in Nat /\ BS >= 3 /\ FatLen \in Nat /\ FatLen >= 2 + N /\ RSVD_SEC \in Nat /\ FAT_SEC \in Nat /\ RSVD_SEC >= 8
  BY GeometryAssumption, <1>1 DEF FatLen, sector, ROOT_CLUS
<1>4. /\ sector(1) = BS /\ sector(6) \in Nat /\ sector(6) > BS
      /\ sector(7) = sector(6) + BS /\ sector(7) < sector(RSVD_SEC) /\ sector(RSVD_SEC) \in Nat
  BY <1>3 DEF sector
<1>5. /\ fat_start(0) = sector(RSVD_SEC)
      /\ fat_start(1) = sector(RSVD_SEC) + FatLen
      /\ sector(DATA_START) = sector(RSVD_SEC) + FatLen + FatLen
  <2>1. RSVD_SEC + 0 * FAT_SEC = RSVD_SEC /\ RSVD_SEC + 1 * FAT_SEC = RSVD_SEC + FAT_SEC
    BY <1>3
  <2>2. sector(RSVD_SEC + FAT_SEC) = sector(RSVD_SEC) + FatLen
    BY <1>3, SectorFacts DEF FatLen
  <2>3. sector((RSVD_SEC + FAT_SEC) + FAT_SEC) = sector(RSVD_SEC + FAT_SEC) + FatLen
    BY <1>3 DEF FatLen, sector
  <2> QED
    BY <2>1, <2>2, <2>3, <1>2 DEF fat_start
<1>6. /\ sector_of(ROOT_CLUS) = sector(DATA_START)
      /\ sector_of(EFI_DIR_CLUS) = sector(DATA_START) + BS
      /\ sector_of(BOOT_DIR_CLUS) = sector(DATA_START) + BS + BS
      /\ sector_of(FILE_START_CLUS) = sector(DATA_START) + BS + BS + BS
  BY <1>1, <1>3 DEF sector_of, sector, ROOT_CLUS, EFI_DIR_CLUS, BOOT_DIR_CLUS, FILE_START_CLUS
<1>7. \A k \in Nat : sector_of(FILE_START_CLUS + k) = sector(DATA_START + 3) + sector(k)
  <2> TAKE k \in Nat
  <2>1. DATA_START + ((5 + k) - 2) = (DATA_START + 3) + k
    BY <1>1
  <2> QED
    BY <2>1, <1>1, SectorFacts DEF sector_of, ROOT_CLUS, FILE_START_CLUS
<1>8. sector_of(FILE_START_CLUS) = sector(DATA_START + 3)
  BY <1>1 DEF sector_of, ROOT_CLUS, FILE_START_CLUS
<1>9. /\ Capacity = sector(N - 3)
      /\ Capacity \in Nat
  <2>1. TOTAL_SEC - DATA_START - (5 - 2) = N - 3 /\ N - 3 \in Nat
    BY <1>1
  <2> QED
    BY <2>1, SectorFacts DEF Capacity, ROOT_CLUS, FILE_START_CLUS
<1>10. sector(TOTAL_SEC) = sector(DATA_START + 3) + sector(N - 3)
  <2>1. TOTAL_SEC = (DATA_START + 3) + (N - 3)
    BY <1>1
  <2> QED
    BY <2>1, <1>1, SectorFacts
<1>11. \A k \in Nat : FILE_START_CLUS + k >= FatLen => sector(k) >= sector(N - 3)
  <2> SUFFICES ASSUME NEW k \in Nat, FILE_START_CLUS + k >= FatLen
               PROVE  sector(k) >= sector(N - 3)
    OBVIOUS
  <2>1. k >= N - 3 /\ N - 3 \in Nat
    BY <1>1, <1>3 DEF FILE_START_CLUS
  <2> HIDE DEF N
  <2> QED
    BY <2>1, SectorFacts
<1> QED
  <2> HIDE DEF N
  <2>1. FatLen > FILE_START_CLUS
    BY <1>1, <1>3 DEF FILE_START_CLUS
  <2> QED
    BY <2>1, <1>3, <1>4, <1>5, <1>6, <1>7, <1>8, <1>9, <1>10, <1>11, SectorFacts
\* Every index of an area is a slot of that area and of no other.
LEMMA Areas ==
  /\ \A s \in 0 .. sector(RSVD_SEC) - 1 : s \in Slot
  /\ \A k \in 0 .. 1, c \in 0 .. FatLen - 1 :
       /\ fat_start(k) + c \in Slot
       /\ sector(RSVD_SEC) <= fat_start(k) + c
       /\ fat_start(k) + c < sector_of(ROOT_CLUS)
  /\ \A c \in ROOT_CLUS .. BOOT_DIR_CLUS, e \in 0 .. BS - 1 :
       /\ sector_of(c) + e \in Slot
       /\ sector_of(ROOT_CLUS) <= sector_of(c) + e
       /\ sector_of(c) + e < sector_of(FILE_START_CLUS)
  /\ \A s \in sector_of(FILE_START_CLUS) .. sector(TOTAL_SEC) - 1 : s \in Slot
  /\ sector(RSVD_SEC) \in Nat
  /\ sector_of(ROOT_CLUS) \in Nat /\ sector(RSVD_SEC) < sector_of(ROOT_CLUS)
  /\ sector_of(FILE_START_CLUS) \in Nat /\ sector_of(ROOT_CLUS) < sector_of(FILE_START_CLUS)
<1>1. /\ sector(RSVD_SEC) \in Nat
      /\ sector_of(ROOT_CLUS) \in Nat /\ sector(RSVD_SEC) < sector_of(ROOT_CLUS)
      /\ sector_of(FILE_START_CLUS) \in Nat /\ sector_of(ROOT_CLUS) < sector_of(FILE_START_CLUS)
      /\ sector(TOTAL_SEC) \in Nat /\ sector_of(FILE_START_CLUS) <= sector(TOTAL_SEC)
  BY Layout DEF FILE_START_CLUS
<1>2. ASSUME NEW k \in 0 .. 1, NEW c \in 0 .. FatLen - 1
      PROVE  /\ fat_start(k) + c \in Slot
             /\ sector(RSVD_SEC) <= fat_start(k) + c
             /\ fat_start(k) + c < sector_of(ROOT_CLUS)
  <2>1. CASE k = 0
    BY <2>1, <1>1, Layout DEF Slot
  <2>2. CASE k = 1
    BY <2>2, <1>1, Layout DEF Slot
  <2> QED
    BY <2>1, <2>2
<1>3. ASSUME NEW c \in ROOT_CLUS .. BOOT_DIR_CLUS, NEW e \in 0 .. BS - 1
      PROVE  /\ sector_of(c) + e \in Slot
             /\ sector_of(ROOT_CLUS) <= sector_of(c) + e
             /\ sector_of(c) + e < sector_of(FILE_START_CLUS)
  <2>1. CASE c = ROOT_CLUS
    BY <2>1, <1>1, Layout DEF Slot
  <2>2. CASE c = EFI_DIR_CLUS
    BY <2>2, <1>1, Layout DEF Slot
  <2>3. CASE c = BOOT_DIR_CLUS
    BY <2>3, <1>1, Layout DEF Slot
  <2> QED
    BY <2>1, <2>2, <2>3 DEF ROOT_CLUS, EFI_DIR_CLUS, BOOT_DIR_CLUS
<1>4. ASSUME NEW s \in 0 .. sector(RSVD_SEC) - 1 PROVE s \in Slot
  <2>1. sector(RSVD_SEC) < sector(TOTAL_SEC)
    BY <1>1
  <2>2. s \in Nat /\ s < sector(TOTAL_SEC)
    BY <2>1, <1>1
  <2> QED
    BY <2>2, <1>1 DEF Slot
<1>5. ASSUME NEW s \in sector_of(FILE_START_CLUS) .. sector(TOTAL_SEC) - 1 PROVE s \in Slot
  BY <1>1 DEF Slot
<1> QED
  BY <1>1, <1>2, <1>3, <1>4, <1>5

----------------------------------------------------------------------------
(* What a step leaves alone                                                *)

\* A step that keeps the expected content of an area, and the area, keeps its
\* conjunct of the invariant.
KeptFrom(lo, hi) == \A s \in Slot : lo <= s /\ s < hi => img'[s] = img[s]

LEMMA KeptWithin ==
  ASSUME NEW lo \in Nat, NEW hi \in Nat, NEW a \in Nat, NEW b \in Nat,
         lo <= a, b <= hi, KeptFrom(lo, hi)
  PROVE  KeptFrom(a, b)
<1> SUFFICES ASSUME NEW s \in Slot, a <= s, s < b
             PROVE  img'[s] = img[s]
  BY DEF KeptFrom
<1>1. s \in Nat
  BY DEF Slot
<1>2. lo <= s /\ s < hi
  BY <1>1
<1> QED
  BY <1>2 DEF KeptFrom

LEMMA Bounds ==
  /\ 0 < sector(RSVD_SEC) /\ sector(RSVD_SEC) \in Nat
  /\ sector(RSVD_SEC) < sector_of(ROOT_CLUS) /\ sector_of(ROOT_CLUS) \in Nat
  /\ sector_of(ROOT_CLUS) < sector_of(FILE_START_CLUS) /\ sector_of(FILE_START_CLUS) \in Nat
  /\ sector_of(FILE_START_CLUS) <= sector(TOTAL_SEC) /\ sector(TOTAL_SEC) \in Nat
BY Layout DEF FILE_START_CLUS

LEMMA HeaderKept ==
  ASSUME HeaderInv, KeptFrom(0, sector(RSVD_SEC)), pc # "headers", pc' # "headers"
  PROVE  HeaderInv'
<1>1. ASSUME NEW s \in 0 .. sector(RSVD_SEC) - 1
      PROVE  img'[s] = Header(s)
  <2>1. img'[s] = img[s]
    BY Areas DEF KeptFrom
  <2> QED
    BY <2>1 DEF HeaderInv
<1>2. \A s : Header(s)' = Header(s)
  BY DEF Header, BootSector, FsInfo
<1> QED
  BY <1>1, <1>2 DEF HeaderInv

LEMMA FatKept ==
  ASSUME FatInv, KeptFrom(sector(RSVD_SEC), sector_of(ROOT_CLUS)),
         \A k \in 0 .. 1, c \in 0 .. FatLen - 1 : FatEntry(k, c)' = FatEntry(k, c)
  PROVE  FatInv'
<1>1. ASSUME NEW k \in 0 .. 1, NEW c \in 0 .. FatLen - 1
      PROVE  img'[fat_start(k) + c] = FatEntry(k, c)'
  <2>1. img'[fat_start(k) + c] = img[fat_start(k) + c]
    BY Areas DEF KeptFrom
  <2> QED
    BY <2>1 DEF FatInv
<1> QED
  BY <1>1 DEF FatInv, FatLen, fat_start, sector

LEMMA DirKept ==
  ASSUME DirInv, KeptFrom(sector_of(ROOT_CLUS), sector_of(FILE_START_CLUS)),
         DirsDone' = DirsDone, len' = len
  PROVE  DirInv'
<1>1. ASSUME NEW c \in ROOT_CLUS .. BOOT_DIR_CLUS, NEW e \in 0 .. BS - 1
      PROVE  img'[sector_of(c) + e] = IF DirsDone THEN Directory(c, e) ELSE Zero
  <2>1. img'[sector_of(c) + e] = img[sector_of(c) + e]
    BY Areas DEF KeptFrom
  <2> QED
    BY <2>1 DEF DirInv
<1>2. \A c, e : Directory(c, e)' = Directory(c, e)
  BY DEF Directory
<1> QED
  BY <1>1, <1>2 DEF DirInv

LEMMA DataKept ==
  ASSUME DataInv, KeptFrom(sector_of(FILE_START_CLUS), sector(TOTAL_SEC)),
         \A w \in Nat : WordDone(w)' = WordDone(w)
  PROVE  DataInv'
<1>1. ASSUME NEW s \in sector_of(FILE_START_CLUS) .. sector(TOTAL_SEC) - 1
      PROVE  img'[s] = IF WordDone(s - sector_of(FILE_START_CLUS))'
                       THEN Word(s - sector_of(FILE_START_CLUS)) ELSE Zero
  <2>1. s \in Slot /\ sector_of(FILE_START_CLUS) <= s /\ s < sector(TOTAL_SEC)
    BY Areas, Layout
  <2>2. img'[s] = img[s]
    BY <2>1 DEF KeptFrom
  <2>3. s - sector_of(FILE_START_CLUS) \in Nat
    BY <2>1, Bounds DEF Slot
  <2> QED
    BY <2>1, <2>2, <2>3 DEF DataInv
<1> QED
  BY <1>1 DEF DataInv
----------------------------------------------------------------------------
(* Building the image: one lemma per action                                *)

USE DEF NUM_FATS, ROOT_CLUS, EFI_DIR_CLUS, BOOT_DIR_CLUS, FILE_START_CLUS

LEMMA InitStep == Init => IInv
<1> SUFFICES ASSUME Init PROVE IInv
  OBVIOUS
<1>1. TypeOK
  BY GeometryAssumption DEF Init, TypeOK, Building
<1>2. ProgressInv /\ ReaderInv
  BY DEF Init, ProgressInv, ReaderInv, InFat, InData, Built, Building, Reading
<1>3. HeaderInv
  BY Areas DEF Init, HeaderInv
<1>4. FatInv
  <2>1. \A k \in 0 .. 1, c \in 0 .. FatLen - 1 : FatEntry(k, c) = Zero
    BY Layout DEF Init, FatEntry, Links, HeadDone, InFat
  <2> QED
    BY <2>1, Areas DEF Init, FatInv
<1>5. DirInv
  BY Areas DEF Init, DirInv, DirsDone, Built, Reading, InData
<1>6. DataInv
  BY Areas DEF Init, DataInv, WordDone, Built, Reading, InData
<1> QED
  BY <1>1, <1>2, <1>3, <1>4, <1>5, <1>6 DEF IInv

LEMMA HeadersStep == IInv /\ Headers => IInv'
<1> SUFFICES ASSUME IInv, Headers PROVE IInv'
  OBVIOUS
<1> USE DEF Headers, IInv
<1>1. TypeOK'
  BY DEF TypeOK, Building
<1>2. ProgressInv' /\ ReaderInv'
  BY DEF ProgressInv, ReaderInv, InFat, InData, Built, Building, Reading
<1>3. HeaderInv'
  <2>1. ASSUME NEW s \in 0 .. sector(RSVD_SEC) - 1
        PROVE  img'[s] = Header(s)
    <3>1. s \in Slot /\ DOMAIN img = Slot /\ img[s] = Zero
      BY Areas DEF TypeOK, HeaderInv
    <3>2. sector(0) # sector(1) /\ sector(0) # sector(7) /\ sector(1) # sector(6)
          /\ sector(6) # sector(7)
      BY Layout
    <3> QED
      BY <3>1, <3>2 DEF Header
  <2>2. \A s : Header(s)' = Header(s)
    BY DEF Header, BootSector, FsInfo
  <2> QED
    BY <2>1, <2>2 DEF HeaderInv
<1>4. KeptFrom(sector(RSVD_SEC), sector(TOTAL_SEC))
  <2>1. DOMAIN img = Slot
    BY DEF TypeOK
  <2>2. \A n \in {0, 1, 6, 7} : sector(n) < sector(RSVD_SEC) /\ sector(n) \in Nat
    BY Layout
  <2>3. Slot \subseteq Nat
    BY DEF Slot
  <2> QED
    BY <2>1, <2>2, <2>3, Layout DEF KeptFrom
<1>5. /\ KeptFrom(sector(RSVD_SEC), sector_of(ROOT_CLUS))
      /\ KeptFrom(sector_of(ROOT_CLUS), sector_of(FILE_START_CLUS))
      /\ KeptFrom(sector_of(FILE_START_CLUS), sector(TOTAL_SEC))
  BY <1>4, KeptWithin, Bounds
<1>6. FatInv'
  <2>1. \A k \in 0 .. 1, c \in 0 .. FatLen - 1 : FatEntry(k, c)' = FatEntry(k, c)
    BY Layout DEF FatEntry, Links, HeadDone, InFat, ProgressInv
  <2> QED
    BY <1>5, <2>1, FatKept
<1>7. DirInv'
  BY <1>5, DirKept DEF DirsDone, Built, Reading, InData
<1>8. DataInv'
  BY <1>5, DataKept DEF WordDone, Built, Reading, InData
<1> QED
  BY <1>1, <1>2, <1>3, <1>6, <1>7, <1>8
\* The two FATs share no slot.
LEMMA FatSlots ==
  ASSUME NEW k \in 0 .. 1, NEW j \in 0 .. 1, NEW c \in 0 .. FatLen - 1, NEW d \in 0 .. FatLen - 1,
         fat_start(k) + c = fat_start(j) + d
  PROVE  k = j /\ c = d
<1>1. CASE k = j
  BY <1>1, Layout
<1>2. CASE k = 0 /\ j = 1
  BY <1>2, Layout
<1>3. CASE k = 1 /\ j = 0
  BY <1>3, Layout
<1> QED
  BY <1>1, <1>2, <1>3

LEMMA FatHeadStep == IInv /\ FatHead => IInv'
<1> SUFFICES ASSUME IInv, FatHead PROVE IInv'
  OBVIOUS
<1> USE DEF IInv
<1>1. /\ pc = "fat" /\ fat_idx \in 0 .. 1 /\ i = 0 /\ i' = 0 /\ len \in Nat
      /\ nclusters \in Nat /\ nclusters' = nclusters /\ UNCHANGED <<len, at, got>>
      /\ DOMAIN img = Slot
  BY ClusterCount DEF FatHead, NextFat, TypeOK, ProgressInv, nclusters
<1>2. \/ nclusters = 0 /\ fat_idx' = fat_idx + 1 /\ pc' \in {"fat", "dirs"}
         /\ (pc' = "dirs" <=> fat_idx = 1)
      \/ nclusters > 0 /\ fat_idx' = fat_idx /\ pc' = "chain"
  BY <1>1 DEF FatHead, NextFat
<1>3. /\ \A c \in 0 .. 4 : fat_start(fat_idx) + c \in Slot /\ c \in 0 .. FatLen - 1
      /\ \A c \in 0 .. 4 : fat_start(fat_idx) + c \in Nat
      /\ fat_start(fat_idx) \in Nat
      /\ fat_start(fat_idx) + 0 = fat_start(fat_idx)
  <2>1. \A c \in 0 .. 4 : c \in 0 .. FatLen - 1
    BY Layout
  <2>2. fat_start(0) \in Nat /\ fat_start(1) \in Nat
    BY Layout
  <2>3. fat_start(fat_idx) \in Nat
    BY <2>2, <1>1
  <2> QED
    BY <2>1, <2>3, <1>1, Areas
<1>4. \A c \in 0 .. 4 : img'[fat_start(fat_idx) + c] = Entry(IF c = 0 THEN MEDIA ELSE EOC)
  BY <1>1, <1>3 DEF FatHead
<1>5. \A s \in Slot : (\A c \in 0 .. 4 : s # fat_start(fat_idx) + c) => img'[s] = img[s]
  BY <1>1, <1>3 DEF FatHead
<1>6. TypeOK'
  BY <1>1, <1>2 DEF TypeOK, Building, FatHead
<1>7. ProgressInv' /\ ReaderInv'
  BY <1>1, <1>2 DEF ProgressInv, ReaderInv, InFat, InData, Built, Building, Reading
<1>8. /\ KeptFrom(0, sector(RSVD_SEC))
      /\ KeptFrom(sector_of(ROOT_CLUS), sector(TOTAL_SEC))
  <2>1. \A c \in 0 .. 4 : sector(RSVD_SEC) <= fat_start(fat_idx) + c
                          /\ fat_start(fat_idx) + c < sector_of(ROOT_CLUS)
    BY <1>1, <1>3, Areas
  <2>2. Slot \subseteq Nat
    BY DEF Slot
  <2>3. ASSUME NEW s \in Slot, s < sector(RSVD_SEC) \/ sector_of(ROOT_CLUS) <= s
        PROVE  img'[s] = img[s]
    BY <2>1, <2>2, <2>3, <1>3, <1>5, Bounds
  <2> QED
    BY <2>3 DEF KeptFrom
<1>9. HeaderInv'
  BY <1>1, <1>2, <1>8, HeaderKept
<1>10. FatInv'
  <2>1. ASSUME NEW k \in 0 .. 1, NEW c \in 0 .. FatLen - 1
        PROVE  img'[fat_start(k) + c] = FatEntry(k, c)'
    <3>1. CASE k = fat_idx /\ c < 5
      <4>1. HeadDone(k)'
        BY <3>1, <1>1, <1>2 DEF HeadDone, InFat
      <4> QED
        BY <4>1, <3>1, <1>4 DEF FatEntry
    <3>2. CASE k = fat_idx /\ c >= 5
      <4>1. img'[fat_start(k) + c] = img[fat_start(k) + c]
        BY <3>2, <1>1, <1>3, <1>5, FatSlots, Areas
      <4>2. Links(k) = 0 /\ Links(k)' = 0
        BY <3>2, <1>1, <1>2 DEF Links, HeadDone, InFat
      <4> QED
        BY <4>1, <4>2, <3>2 DEF FatInv, FatEntry
    <3>3. CASE k # fat_idx
      <4>1. img'[fat_start(k) + c] = img[fat_start(k) + c]
        BY <3>3, <1>1, <1>3, <1>5, FatSlots, Areas
      <4>2. (HeadDone(k)' <=> HeadDone(k)) /\ Links(k)' = Links(k)
        BY <3>3, <1>1, <1>2 DEF Links, HeadDone, InFat
      <4> QED
        BY <4>1, <4>2, <1>1 DEF FatInv, FatEntry
    <3> QED
      BY <3>1, <3>2, <3>3
  <2> QED
    BY <2>1 DEF FatInv, FatLen, fat_start, sector
<1>11. /\ KeptFrom(sector_of(ROOT_CLUS), sector_of(FILE_START_CLUS))
       /\ KeptFrom(sector_of(FILE_START_CLUS), sector(TOTAL_SEC))
  BY <1>8, KeptWithin, Bounds
<1>12. DirInv'
  BY <1>1, <1>2, <1>11, DirKept DEF DirsDone, Built, Reading, InData
<1>13. DataInv'
  BY <1>1, <1>2, <1>11, DataKept DEF WordDone, Built, Reading, InData
<1> QED
  BY <1>6, <1>7, <1>9, <1>10, <1>12, <1>13

LEMMA ChainStep == IInv /\ Chain => IInv'
<1> SUFFICES ASSUME IInv, Chain PROVE IInv'
  OBVIOUS
<1> USE DEF IInv
<1>1. /\ pc = "chain" /\ fat_idx \in 0 .. 1 /\ i \in Nat /\ i < nclusters /\ len \in Nat
      /\ nclusters \in Nat /\ nclusters' = nclusters /\ UNCHANGED <<len, at, got>>
      /\ 5 + i \in 0 .. FatLen - 1 /\ DOMAIN img = Slot
  BY ClusterCount, Layout DEF Chain, TypeOK, ProgressInv, nclusters, InFat
<1>2. \/ nclusters = i + 1 /\ i' = 0 /\ fat_idx' = fat_idx + 1 /\ pc' \in {"fat", "dirs"}
         /\ (pc' = "dirs" <=> fat_idx = 1)
      \/ nclusters > i + 1 /\ i' = i + 1 /\ fat_idx' = fat_idx /\ pc' = "chain"
  BY <1>1 DEF Chain, NextFat
<1>3. fat_start(fat_idx) \in Nat /\ fat_start(fat_idx) + (5 + i) \in Slot
      /\ fat_start(fat_idx) + 5 + i = fat_start(fat_idx) + (5 + i)
  BY <1>1, Areas, Layout
<1>4. img'[fat_start(fat_idx) + (5 + i)] = Entry(IF i + 1 = nclusters THEN EOC ELSE 5 + i + 1)
  BY <1>1, <1>3 DEF Chain
<1>5. \A s \in Slot : s # fat_start(fat_idx) + (5 + i) => img'[s] = img[s]
  BY <1>1, <1>3 DEF Chain
<1>6. TypeOK'
  BY <1>1, <1>2 DEF TypeOK, Building, Chain
<1>7. ProgressInv' /\ ReaderInv'
  BY <1>1, <1>2 DEF ProgressInv, ReaderInv, InFat, InData, Built, Building, Reading
<1>8. /\ KeptFrom(0, sector(RSVD_SEC))
      /\ KeptFrom(sector_of(ROOT_CLUS), sector(TOTAL_SEC))
  <2>1. sector(RSVD_SEC) <= fat_start(fat_idx) + (5 + i)
        /\ fat_start(fat_idx) + (5 + i) < sector_of(ROOT_CLUS)
    BY <1>1, <1>3, Areas
  <2>2. Slot \subseteq Nat
    BY DEF Slot
  <2>3. ASSUME NEW s \in Slot, s < sector(RSVD_SEC) \/ sector_of(ROOT_CLUS) <= s
        PROVE  img'[s] = img[s]
    BY <2>1, <2>2, <2>3, <1>3, <1>5, Bounds
  <2> QED
    BY <2>3 DEF KeptFrom
<1>9. HeaderInv'
  BY <1>1, <1>2, <1>8, HeaderKept
<1>10. FatInv'
  <2>2. /\ Links(fat_idx) = i /\ HeadDone(fat_idx)
        /\ (\A k \in 0 .. 1 : k = fat_idx => Links(k)' = i + 1 /\ HeadDone(k)')
        /\ (\A k \in 0 .. 1 : k # fat_idx => Links(k)' = Links(k) /\ (HeadDone(k)' <=> HeadDone(k)))
    <3>1. CASE nclusters = i + 1 /\ i' = 0 /\ fat_idx' = fat_idx + 1 /\ pc' \in {"fat", "dirs"}
      BY <3>1, <1>1 DEF Links, HeadDone, InFat
    <3>2. CASE nclusters > i + 1 /\ i' = i + 1 /\ fat_idx' = fat_idx /\ pc' = "chain"
      BY <3>2, <1>1 DEF Links, HeadDone, InFat
    <3> QED
      BY <3>1, <3>2, <1>2
  <2>1. ASSUME NEW k \in 0 .. 1, NEW c \in 0 .. FatLen - 1
        PROVE  img'[fat_start(k) + c] = FatEntry(k, c)'
    <3>1. CASE k = fat_idx /\ c = 5 + i
      <4>1. Links(k)' = i + 1
        BY <3>1, <2>2
      <4> QED
        BY <4>1, <3>1, <1>1, <1>4 DEF FatEntry
    <3>2. CASE k = fat_idx /\ c # 5 + i
      <4>1. img'[fat_start(k) + c] = img[fat_start(k) + c]
        BY <3>2, <1>1, <1>5, FatSlots, Areas
      <4>2. Links(k) = i /\ Links(k)' = i + 1 /\ HeadDone(k) /\ HeadDone(k)'
        BY <3>2, <2>2
      <4> QED
        BY <4>1, <4>2, <3>2, <1>1 DEF FatInv, FatEntry
    <3>3. CASE k # fat_idx
      <4>1. img'[fat_start(k) + c] = img[fat_start(k) + c]
        BY <3>3, <1>1, <1>5, FatSlots, Areas
      <4>2. (HeadDone(k)' <=> HeadDone(k)) /\ Links(k)' = Links(k)
        BY <3>3, <2>2
      <4> QED
        BY <4>1, <4>2, <1>1 DEF FatInv, FatEntry
    <3> QED
      BY <3>1, <3>2, <3>3
  <2> QED
    BY <2>1 DEF FatInv, FatLen, fat_start, sector
<1>11. /\ KeptFrom(sector_of(ROOT_CLUS), sector_of(FILE_START_CLUS))
       /\ KeptFrom(sector_of(FILE_START_CLUS), sector(TOTAL_SEC))
  BY <1>8, KeptWithin, Bounds
<1>12. DirInv'
  BY <1>1, <1>2, <1>11, DirKept DEF DirsDone, Built, Reading, InData
<1>13. DataInv'
  BY <1>1, <1>2, <1>11, DataKept DEF WordDone, Built, Reading, InData
<1> QED
  BY <1>6, <1>7, <1>9, <1>10, <1>12, <1>13
\* A step that leaves the image alone keeps every area.
LEMMA NothingWritten ==
  ASSUME UNCHANGED img
  PROVE  /\ KeptFrom(0, sector(RSVD_SEC))
         /\ KeptFrom(sector(RSVD_SEC), sector_of(ROOT_CLUS))
         /\ KeptFrom(sector_of(ROOT_CLUS), sector_of(FILE_START_CLUS))
         /\ KeptFrom(sector_of(FILE_START_CLUS), sector(TOTAL_SEC))
BY DEF KeptFrom

LEMMA PanicsStep == IInv /\ (ChainPanics \/ DataPanics) => IInv'
<1> SUFFICES ASSUME IInv, ChainPanics \/ DataPanics PROVE IInv'
  OBVIOUS
<1> USE DEF IInv
<1>1. /\ pc' = "panicked" /\ UNCHANGED <<len, img, fat_idx, i, at, got>>
      /\ i \in Nat /\ len \in Nat /\ fat_idx \in 0 .. 2 /\ nclusters' = nclusters
      /\ (pc = "chain" /\ fat_idx < 2) \/ (pc = "data" /\ fat_idx = 2)
  BY DEF ChainPanics, DataPanics, TypeOK, ProgressInv, nclusters
<1>2. len > Capacity
  <2>1. CASE ChainPanics
    <3>1. 5 + i >= FatLen /\ i < nclusters /\ nclusters \in Nat
      BY <2>1, <1>1, ClusterCount DEF ChainPanics, ProgressInv, InFat
    <3>2. sector(i) >= Capacity
      BY <3>1, <1>1, Layout
    <3>3. sector(nclusters - 1) < len
      BY <3>1, <1>1, ClusterCount
    <3>4. nclusters - 1 \in Nat /\ i <= nclusters - 1
      BY <3>1, <1>1
    <3>5. sector(i) <= sector(nclusters - 1) /\ sector(i) \in Nat /\ sector(nclusters - 1) \in Nat
      BY <3>4, <1>1, SectorFacts
    <3> QED
      BY <3>2, <3>3, <3>5, <1>1, Layout
  <2>2. CASE DataPanics
    <3>1. sector(i) \in Nat /\ sector(i + 1) = sector(i) + BS
      BY <1>1, SectorFacts
    <3>2. i = 0 \/ sector(i) < len
      BY <2>2 DEF DataPanics, ProgressInv, InData
    <3>3. sector(i) + ChunkLen(i) <= len
      BY <3>1, <3>2, <1>1, Layout DEF ChunkLen
    <3>4. sector_of(5 + i) = sector_of(5) + sector(i)
      BY <1>1, Layout
    <3>5. ChunkLen(i) \in Nat
      BY <3>1, <3>2, <1>1, Layout DEF ChunkLen
    <3> QED
      BY <2>2, <3>1, <3>3, <3>4, <3>5, <1>1, Layout, Bounds DEF DataPanics, DataFits
  <2> QED
    BY <2>1, <2>2
<1>3. TypeOK'
  BY <1>1 DEF TypeOK
<1>4. (InFat' <=> InFat) /\ (InData' <=> InData)
  BY <1>1 DEF InFat, InData
<1>5. ProgressInv' /\ ReaderInv'
  BY <1>1, <1>2, <1>4 DEF ProgressInv, ReaderInv, Built, Building, Reading
<1>6. HeaderInv'
  BY <1>1, NothingWritten, HeaderKept
<1>7. FatInv'
  BY <1>1, <1>4, NothingWritten, FatKept DEF FatEntry, Links, HeadDone
<1>8. DirInv'
  BY <1>1, <1>4, NothingWritten, DirKept DEF DirsDone, Built, Reading
<1>9. DataInv'
  BY <1>1, <1>4, NothingWritten, DataKept DEF WordDone, Built, Reading
<1> QED
  BY <1>3, <1>5, <1>6, <1>7, <1>8, <1>9

LEMMA SaveStep == IInv /\ Save => IInv'
<1> SUFFICES ASSUME IInv, Save PROVE IInv'
  OBVIOUS
<1> USE DEF IInv
<1>1. /\ pc = "save" /\ pc' \in {"open", "err"} /\ UNCHANGED <<len, img, fat_idx, at, got>>
      /\ i' = 0 /\ fat_idx = 2 /\ nclusters' = nclusters
  BY DEF Save, ProgressInv, nclusters, Built
<1>2. TypeOK'
  BY <1>1 DEF TypeOK, Reading
<1>3. ProgressInv' /\ ReaderInv'
  BY <1>1 DEF ProgressInv, ReaderInv, Built, Building, Reading, InFat, InData, Capacity
<1>4. HeaderInv'
  BY <1>1, NothingWritten, HeaderKept
<1>5. FatInv'
  <2>1. \A k \in 0 .. 1 : Links(k)' = Links(k) /\ (HeadDone(k)' <=> HeadDone(k))
    BY <1>1 DEF Links, HeadDone, InFat
  <2> QED
    BY <1>1, <2>1, NothingWritten, FatKept DEF FatEntry
<1>6. DirInv'
  BY <1>1, NothingWritten, DirKept DEF DirsDone, Built, Reading
<1>7. DataInv'
  BY <1>1, NothingWritten, DataKept DEF WordDone, Built, Reading
<1> QED
  BY <1>2, <1>3, <1>4, <1>5, <1>6, <1>7

LEMMA DirsStep == IInv /\ Dirs => IInv'
<1> SUFFICES ASSUME IInv, Dirs PROVE IInv'
  OBVIOUS
<1> USE DEF IInv
<1>1. /\ pc = "dirs" /\ pc' = "data" /\ UNCHANGED <<len, fat_idx, i, at, got>>
      /\ fat_idx = 2 /\ i = 0 /\ nclusters' = nclusters
  BY DEF Dirs, ProgressInv, nclusters
<1>2. \A s \in Slot :
        img'[s] = CASE InDir(2, s) -> Directory(2, s - sector_of(2))
                    [] InDir(3, s) -> Directory(3, s - sector_of(3))
                    [] InDir(4, s) -> Directory(4, s - sector_of(4))
                    [] OTHER -> img[s]
  BY DEF Dirs
<1>3. TypeOK'
  BY <1>1 DEF TypeOK, Building, Dirs
<1>4. ProgressInv' /\ ReaderInv'
  BY <1>1 DEF ProgressInv, ReaderInv, Built, Building, Reading, InFat, InData
<1>5. KeptFrom(0, sector_of(2)) /\ KeptFrom(sector_of(5), sector(TOTAL_SEC))
  <2>1. \A s \in Slot : s < sector_of(2) \/ sector_of(5) <= s
                          => ~InDir(2, s) /\ ~InDir(3, s) /\ ~InDir(4, s)
    BY Layout DEF InDir, Slot
  <2> QED
    BY <2>1, <1>2 DEF KeptFrom
<1>6. KeptFrom(0, sector(RSVD_SEC)) /\ KeptFrom(sector(RSVD_SEC), sector_of(2))
  BY <1>5, KeptWithin, Bounds
<1>7. HeaderInv'
  BY <1>1, <1>6, HeaderKept
<1>8. FatInv'
  <2>1. \A k \in 0 .. 1 : Links(k)' = Links(k) /\ (HeadDone(k)' <=> HeadDone(k))
    BY <1>1 DEF Links, HeadDone, InFat
  <2> QED
    BY <1>1, <1>6, <2>1, FatKept DEF FatEntry
<1>9. DirInv'
  <2>1. \A s \in Slot : \A c, d \in 2 .. 4 : InDir(c, s) /\ InDir(d, s) => c = d
    <3> SUFFICES ASSUME NEW s \in Slot PROVE \A c, d \in 2 .. 4 : InDir(c, s) /\ InDir(d, s) => c = d
      OBVIOUS
    <3>1. ~(InDir(2, s) /\ InDir(3, s)) /\ ~(InDir(2, s) /\ InDir(4, s)) /\ ~(InDir(3, s) /\ InDir(4, s))
      BY Layout DEF InDir, Slot
    <3>2. \A c \in 2 .. 4 : c = 2 \/ c = 3 \/ c = 4
      OBVIOUS
    <3> QED
      BY <3>1, <3>2
  <2>2. \A s \in Slot : \A c \in {2, 3, 4} : InDir(c, s) => img'[s] = Directory(c, s - sector_of(c))
    BY <2>1, <1>2
  <2>3. ASSUME NEW c \in 2 .. 4, NEW e \in 0 .. BS - 1
        PROVE  img'[sector_of(c) + e] = Directory(c, e)
    <3>1. c \in {2, 3, 4} /\ sector_of(c) + e \in Slot
      BY Areas
    <3>2. sector_of(c) \in Nat
      BY <3>1, Layout
    <3>3. (sector_of(c) + e) - sector_of(c) = e
      BY <3>2
    <3>4. InDir(c, sector_of(c) + e)
      BY <3>2, Layout DEF InDir
    <3> QED
      BY <3>1, <3>3, <3>4, <2>2
  <2>4. DirsDone' /\ (\A c, e : Directory(c, e)' = Directory(c, e))
    BY <1>1 DEF DirsDone, InData, Directory
  <2> QED
    BY <2>3, <2>4 DEF DirInv
<1>10. DataInv'
  <2>1. \A w \in Nat : WordDone(w)' = WordDone(w)
    BY <1>1, Layout DEF WordDone, Built, Reading, InData, sector
  <2> QED
    BY <1>5, <2>1, DataKept
<1> QED
  BY <1>3, <1>4, <1>7, <1>8, <1>9, <1>10
LEMMA DataStep == IInv /\ Data => IInv'
<1> SUFFICES ASSUME IInv, Data PROVE IInv'
  OBVIOUS
<1> USE DEF IInv
<1>1. /\ pc = "data" /\ UNCHANGED <<len, fat_idx, at, got>> /\ fat_idx = 2
      /\ i \in Nat /\ i' = i + 1 /\ len \in Nat /\ nclusters' = nclusters
      /\ (i = 0 \/ sector(i) < len)
  BY DEF Data, ProgressInv, nclusters, TypeOK, InData
<1>2. sector(i) \in Nat /\ sector(i + 1) = sector(i) + BS
  BY <1>1, SectorFacts
<1>3. \/ pc' = "save" /\ len <= sector(i) + BS
      \/ pc' = "data" /\ sector(i) + BS < len
  BY <1>1, <1>2, Layout DEF Data
<1>4. /\ ChunkLen(i) \in Nat
      /\ ChunkLen(i) = IF sector(i) + BS <= len THEN BS ELSE len - sector(i)
  BY <1>1, <1>2, Layout DEF ChunkLen
<1>5. sector_of(5 + i) = sector_of(5) + sector(i)
  BY <1>1, Layout
<1>6. \A s \in Slot :
        img'[s] = IF s \in sector_of(5) + sector(i) .. sector_of(5) + sector(i) + ChunkLen(i) - 1
                  THEN Word(sector(i) + (s - (sector_of(5) + sector(i)))) ELSE img[s]
  BY <1>5 DEF Data
<1>7. TypeOK'
  BY <1>1, <1>3 DEF TypeOK, Building, Data
<1>8. len <= Capacity \/ pc' = "data"
  BY <1>1, <1>2, <1>3, <1>4, <1>5, Layout, Bounds DEF Data, DataFits
<1>9. ProgressInv'
  <2>1. pc' = "data" => sector(i') < len'
    BY <1>1, <1>2, <1>3
  <2> QED
    BY <2>1, <1>1, <1>3, <1>8 DEF ProgressInv, Built, Reading, InFat, InData, Capacity, sector
<1>10. ReaderInv'
  BY <1>1, <1>3 DEF ReaderInv, Building, Reading
<1>11. KeptFrom(0, sector_of(5))
  BY <1>2, <1>4, <1>6, Bounds DEF KeptFrom, Slot
<1>12. /\ KeptFrom(0, sector(RSVD_SEC)) /\ KeptFrom(sector(RSVD_SEC), sector_of(2))
       /\ KeptFrom(sector_of(2), sector_of(5))
  BY <1>11, KeptWithin, Bounds
<1>13. HeaderInv'
  BY <1>1, <1>3, <1>12, HeaderKept
<1>14. FatInv'
  <2>1. \A k \in 0 .. 1 : Links(k)' = Links(k) /\ (HeadDone(k)' <=> HeadDone(k))
    BY <1>1, <1>3 DEF Links, HeadDone, InFat
  <2> QED
    BY <1>1, <1>12, <2>1, FatKept DEF FatEntry
<1>15. DirInv'
  BY <1>1, <1>3, <1>12, DirKept DEF DirsDone, Built, Reading, InData
<1>16. DataInv'
  <2>1. ASSUME NEW s \in sector_of(5) .. sector(TOTAL_SEC) - 1
        PROVE  img'[s] = IF WordDone(s - sector_of(5))' THEN Word(s - sector_of(5)) ELSE Zero
    <3>1. PICK w \in Nat : s = sector_of(5) + w /\ s - sector_of(5) = w
      BY Bounds
    <3>2. s \in Slot
      BY Areas
    <3>3. img[s] = IF w < len /\ w < sector(i) THEN Word(w) ELSE Zero
      BY <3>1, <1>1 DEF DataInv, WordDone, InData, Built, Reading
    <3>4. s \in sector_of(5) + sector(i) .. sector_of(5) + sector(i) + ChunkLen(i) - 1
            <=> sector(i) <= w /\ w < sector(i) + ChunkLen(i)
      BY <3>1, <1>2, <1>4, Bounds
    <3>5. sector(i) + (s - (sector_of(5) + sector(i))) = w
      BY <3>1, <1>2, Bounds
    <3>6. img'[s] = IF sector(i) <= w /\ w < sector(i) + ChunkLen(i) THEN Word(w)
                    ELSE IF w < len /\ w < sector(i) THEN Word(w) ELSE Zero
      BY <3>2, <3>3, <3>4, <3>5, <1>6
    <3>7. WordDone(w)' <=> w < len /\ (sector(i) <= w => w < sector(i) + ChunkLen(i))
      <4>1. WordDone(w)' <=> w < len /\ (pc' = "save" \/ w < sector(i) + BS)
        <5>1. i' * BS = sector(i) + BS
          BY <1>1, <1>2 DEF sector
        <5> QED
          BY <5>1, <1>1, <1>3 DEF WordDone, InData, Built, Reading, sector
      <4> QED
        BY <4>1, <1>1, <1>2, <1>3, <1>4, Layout
    <3>8. img'[s] = IF WordDone(w)' THEN Word(w) ELSE Zero
      BY <3>6, <3>7, <1>1, <1>2, <1>4, Layout
    <3> QED
      BY <3>8, <3>1
  <2> QED
    BY <2>1 DEF DataInv, sector_of, sector, DATA_START
<1> QED
  BY <1>7, <1>9, <1>10, <1>13, <1>14, <1>15, <1>16
----------------------------------------------------------------------------
(* The reader                                                              *)

\* The boot sector describes the volume the builder had in mind.
LEMMA Geometry ==
  ASSUME IInv, pc # "headers"
  PROVE  /\ Boot = BootSector
         /\ DataSectors = TOTAL_SEC - DATA_START
         /\ \A c : ClusterSlot(c) = sector_of(c)
         /\ \A k \in 0 .. 1 : sector(Boot.RsvdSecCnt + k * Boot.FATSz32) = fat_start(k)
<1>1. Boot = BootSector
  BY Layout, Areas DEF IInv, HeaderInv, Header, Boot
<1>2. /\ Boot.RsvdSecCnt = RSVD_SEC /\ Boot.FATSz32 = FAT_SEC /\ Boot.NumFATs = 2
      /\ Boot.TotSec32 = TOTAL_SEC
  BY <1>1 DEF BootSector
<1> QED
  BY <1>1, <1>2, GeometryAssumption DEF DataSectors, ClusterSlot, sector_of, fat_start, DATA_START

\* A name is found in a directory where write_dir has put it.
LEMMA FoundInDirectory ==
  ASSUME IInv, pc \in Built, NEW c \in 2 .. 4, NEW name
  PROVE  Found(c, name) = {e \in {Directory(c, j) : j \in 0 .. BS - 1} : e.kind = "dir" /\ e.name = name}
<1>1. pc # "headers" /\ DirsDone
  BY DEF Built, Reading, DirsDone
<1>2. {img[s] : s \in ClusterSlot(c) .. ClusterSlot(c) + BS - 1} = {Directory(c, j) : j \in 0 .. BS - 1}
  <2>1. ClusterSlot(c) = sector_of(c)
    BY <1>1, Geometry
  <2>2. \A j \in 0 .. BS - 1 : img[sector_of(c) + j] = Directory(c, j)
    BY <1>1 DEF IInv, DirInv
  <2>3. sector_of(c) \in Nat
    <3>1. c = 2 \/ c = 3 \/ c = 4
      OBVIOUS
    <3> QED
      BY <3>1, Layout
  <2>4. ASSUME NEW s \in sector_of(c) .. sector_of(c) + BS - 1
        PROVE  \E j \in 0 .. BS - 1 : img[s] = Directory(c, j)
    <3>1. s - sector_of(c) \in 0 .. BS - 1 /\ sector_of(c) + (s - sector_of(c)) = s
      BY <2>3, Layout
    <3> QED
      BY <3>1, <2>2
  <2>5. \A j \in 0 .. BS - 1 : sector_of(c) + j \in sector_of(c) .. sector_of(c) + BS - 1
    BY <2>3, Layout
  <2> QED
    BY <2>1, <2>2, <2>4, <2>5
<1> QED
  BY <1>2 DEF Found

\* The path of the boot file leads to the entry of the file and nowhere else.
LEMMA TheTarget ==
  ASSUME IInv, pc \in Built
  PROVE  Target = {dir_entry("BOOTX64.EFI", 5, len)}
<1>1. 2 \in 0 .. BS - 1
  BY Layout
<1> DEFINE Is(e, name) == e.kind = "dir" /\ e.name = name
<1>2. ASSUME NEW c \in 2 .. 4, NEW name \in {"EFI", "BOOT", "BOOTX64.EFI"},
             \A j \in 0 .. BS - 1 : Is(Directory(c, j), name) <=> j = 2
      PROVE  Found(c, name) = {Directory(c, 2)}
  <2>1. Found(c, name) = {e \in {Directory(c, j) : j \in 0 .. BS - 1} : Is(e, name)}
    BY FoundInDirectory
  <2> HIDE DEF Is
  <2> QED
    BY <1>1, <1>2, <2>1
<1>3. /\ \A n, c, z : dir_entry(n, c, z).kind = "dir" /\ dir_entry(n, c, z).name = n
      /\ Zero.kind # "dir"
  BY DEF dir_entry, Zero
<1>4. /\ Found(2, "EFI") = {dir_entry("EFI", 3, 0)}
      /\ Found(3, "BOOT") = {dir_entry("BOOT", 4, 0)}
      /\ Found(4, "BOOTX64.EFI") = {dir_entry("BOOTX64.EFI", 5, len)}
  <2>1. /\ Directory(2, 2) = dir_entry("EFI", 3, 0)
        /\ Directory(3, 2) = dir_entry("BOOT", 4, 0)
        /\ Directory(4, 2) = dir_entry("BOOTX64.EFI", 5, len)
    BY DEF Directory
  <2>2. \A j \in 0 .. BS - 1 : Is(Directory(2, j), "EFI") <=> j = 2
    BY <1>3, <2>1 DEF Directory
  <2>3. \A j \in 0 .. BS - 1 : Is(Directory(3, j), "BOOT") <=> j = 2
    BY <1>3, <2>1 DEF Directory
  <2>4. \A j \in 0 .. BS - 1 : Is(Directory(4, j), "BOOTX64.EFI") <=> j = 2
    <3>1. /\ Directory(4, 0) = dir_entry(".", 4, 0)
          /\ Directory(4, 1) = dir_entry("..", 3, 0)
          /\ \A j \in 0 .. BS - 1 : j # 0 /\ j # 1 /\ j # 2 => Directory(4, j) = Zero
      BY DEF Directory
    <3> QED
      BY <1>3, <2>1, <3>1
  <2> HIDE DEF Is
  <2> QED
    BY <1>2, <2>1, <2>2, <2>3, <2>4
<1>5. FirstCluster(dir_entry("EFI", 3, 0)) = 3 /\ FirstCluster(dir_entry("BOOT", 4, 0)) = 4
  <2>1. 3 \div 65536 = 0 /\ 4 \div 65536 = 0 /\ 3 % 65536 = 3 /\ 4 % 65536 = 4 /\ 0 % 65536 = 0
    OBVIOUS
  <2> QED
    BY <2>1 DEF FirstCluster, dir_entry
<1>6. Boot.RootClus = 2
  BY Geometry DEF BootSector, Built, Reading
<1> QED
  <2> DEFINE D == dir_entry("EFI", 3, 0)
             B == dir_entry("BOOT", 4, 0)
             F == dir_entry("BOOTX64.EFI", 5, len)
  <2>1. Found(Boot.RootClus, "EFI") = {D} /\ Found(FirstCluster(D), "BOOT") = {B}
        /\ Found(FirstCluster(B), "BOOTX64.EFI") = {F}
    BY <1>4, <1>5, <1>6
  <2> HIDE DEF D, B, F
  <2>2. Target = UNION {UNION {Found(FirstCluster(b), "BOOTX64.EFI") : b \in Found(FirstCluster(d), "BOOT")} : d \in {D}}
    BY <2>1 DEF Target
  <2>3. UNION {Found(FirstCluster(b), "BOOTX64.EFI") : b \in Found(FirstCluster(D), "BOOT")} = {F}
    BY <2>1
  <2>4. Target = {F}
    BY <2>2, <2>3
  <2> QED
    BY <2>4 DEF F

\* A reader that only reads keeps everything but its own conjuncts.
LEMMA ReadOnly ==
  ASSUME IInv, pc \in Built, pc' \in Built, UNCHANGED <<len, img, fat_idx>>
  PROVE  HeaderInv' /\ FatInv' /\ DirInv' /\ DataInv'
<1> USE DEF IInv
<1>1. pc # "headers" /\ pc' # "headers" /\ fat_idx = 2 /\ nclusters' = nclusters
  BY DEF Built, Reading, ProgressInv, nclusters
<1>2. HeaderInv'
  BY <1>1, NothingWritten, HeaderKept
<1>3. FatInv'
  <2>1. \A k \in 0 .. 1 : Links(k)' = Links(k) /\ (HeadDone(k)' <=> HeadDone(k))
    BY <1>1 DEF Links, HeadDone, InFat
  <2> QED
    BY <1>1, <2>1, NothingWritten, FatKept DEF FatEntry
<1>4. DirInv'
  BY <1>1, NothingWritten, DirKept DEF DirsDone
<1>5. DataInv'
  BY <1>1, NothingWritten, DataKept DEF WordDone
<1> QED
  BY <1>2, <1>3, <1>4, <1>5

LEMMA OpenStep == IInv /\ Open => IInv'
<1> SUFFICES ASSUME IInv, Open PROVE IInv'
  OBVIOUS
<1>1. pc = "open" /\ pc \in Built /\ UNCHANGED <<len, img, fat_idx, i, got>>
  BY DEF Open, Built, Reading
<1>2. /\ FirstCluster(dir_entry("BOOTX64.EFI", 5, len)) = 5
      /\ dir_entry("BOOTX64.EFI", 5, len).FileSize = len
  BY DEF FirstCluster, dir_entry
<1>3. at' = 5 /\ pc' = IF len = 0 THEN "eof" ELSE "read"
  BY <1>1, <1>2, TheTarget DEF Open
<1>4. pc' \in Built
  BY <1>3 DEF Built, Reading
<1>5. TypeOK'
  BY <1>1, <1>3 DEF IInv, TypeOK, Reading
<1>6. ProgressInv'
  BY <1>1, <1>3, <1>4 DEF IInv, ProgressInv, InFat, InData, Built, Reading, Capacity
<1>7. ReaderInv'
  <2>1. i = 0 /\ got = 0 /\ len \in Nat /\ i' * BS = 0
    BY <1>1, Layout DEF IInv, ProgressInv, ReaderInv, TypeOK
  <2> QED
    BY <2>1, <1>1, <1>3, <1>4 DEF ReaderInv, Building, Reading, sector
<1> QED
  BY <1>1, <1>4, <1>5, <1>6, <1>7, ReadOnly DEF IInv
\* Where the reader is in the chain, and what the chain says there.
LEMMA InTheChain ==
  ASSUME IInv, pc \in Built, NEW c \in Nat, c < nclusters
  PROVE  /\ 5 + c \in 0 .. FatLen - 1
         /\ sector(c) < Capacity
         /\ \A k \in 0 .. 1 :
              img[fat_start(k) + (5 + c)] = Entry(IF c + 1 = nclusters THEN EOC ELSE 5 + c + 1)
<1>1. fat_idx = 2 /\ len \in Nat /\ len <= Capacity
  BY DEF IInv, ProgressInv, TypeOK, Built
<1>2. nclusters \in Nat /\ sector(nclusters - 1) < len /\ nclusters - 1 \in Nat /\ c <= nclusters - 1
  BY <1>1, ClusterCount
<1>3. sector(c) \in Nat /\ sector(c) < len
  <2>1. sector(c) <= sector(nclusters - 1) /\ sector(c) \in Nat /\ sector(nclusters - 1) \in Nat
    BY <1>2, SectorFacts
  <2> QED
    BY <2>1, <1>1, <1>2
<1>4. sector(c) < Capacity
  BY <1>1, <1>3, Layout
<1>5. 5 + c \in 0 .. FatLen - 1
  BY <1>3, <1>4, Layout
<1>6. ASSUME NEW k \in 0 .. 1
      PROVE  FatEntry(k, 5 + c) = Entry(IF c + 1 = nclusters THEN EOC ELSE 5 + c + 1)
  <2>1. Links(k) = nclusters
    BY <1>1 DEF Links
  <2>2. (5 + c) - 5 + 1 = c + 1 /\ 5 + c < 5 + nclusters /\ 5 + c >= 5 /\ ~(5 + c < 5)
    BY <1>2
  <2> QED
    BY <2>1, <2>2 DEF FatEntry
<1> QED
  BY <1>4, <1>5, <1>6 DEF IInv, FatInv

LEMMA ReadClusterStep == IInv /\ ReadCluster => IInv'
<1> SUFFICES ASSUME IInv, ReadCluster PROVE IInv'
  OBVIOUS
<1>1. /\ pc = "read" /\ pc \in Built /\ pc # "headers" /\ UNCHANGED <<len, img, fat_idx>>
      /\ i \in Nat /\ len \in 0 .. MaxLen /\ len \in Nat /\ len <= Capacity /\ fat_idx = 2
      /\ i' = i + 1 /\ at = 5 + i /\ got = sector(i) /\ got < len
  <2>1. pc = "read" /\ UNCHANGED <<len, img, fat_idx>> /\ i' = i + 1
    BY DEF ReadCluster
  <2>2. pc \in Built /\ pc # "headers"
    BY <2>1 DEF Built, Reading
  <2> QED
    BY <2>1, <2>2, GeometryAssumption DEF IInv, TypeOK, ProgressInv, ReaderInv
<1>2. Size = len
  <2>1. dir_entry("BOOTX64.EFI", 5, len).FileSize = len
    BY DEF dir_entry
  <2> QED
    BY <1>1, <2>1, TheTarget DEF Size
<1>3. sector(i) \in Nat /\ sector(i + 1) = sector(i) + BS /\ MaxLen \in Nat
  BY <1>1, SectorFacts, GeometryAssumption
<1>4. got' = IF len - sector(i) < BS THEN len ELSE sector(i + 1)
  BY <1>1, <1>2, <1>3, Layout DEF ReadCluster
<1>5. nclusters \in Nat /\ len <= sector(nclusters) /\ i < nclusters
  <2>1. nclusters \in Nat /\ len <= sector(nclusters) /\ sector(nclusters) \in Nat
    BY <1>1, ClusterCount, SectorFacts
  <2>2. ASSUME nclusters <= i PROVE FALSE
    <3>1. sector(nclusters) <= sector(i)
      BY <2>1, <2>2, <1>1, SectorFacts
    <3> QED
      BY <3>1, <2>1, <1>1, <1>3
  <2> QED
    BY <2>1, <2>2, <1>1
<1>6. CASE got' = len
  <2>1. len <= sector(i + 1)
    BY <1>6, <1>4, <1>3, <1>1, Layout
  <2>2. i + 1 = nclusters
    <3>1. sector(nclusters - 1) < len /\ nclusters - 1 \in Nat
      BY <1>5, <1>1, ClusterCount
    <3>2. ASSUME i + 1 <= nclusters - 1 PROVE FALSE
      <4>1. sector(i + 1) <= sector(nclusters - 1) /\ sector(nclusters - 1) \in Nat
        BY <3>1, <3>2, <1>1, SectorFacts
      <4> QED
        BY <4>1, <3>1, <2>1, <1>1, <1>3, Layout
    <3> QED
      BY <3>1, <3>2, <1>5, <1>1
  <2>3. pc' = "eof" /\ at' = at
    BY <1>6, <1>2 DEF ReadCluster
  <2>4. TypeOK'
    BY <2>3, <1>1, <1>6 DEF IInv, TypeOK, Reading
  <2>5. ProgressInv'
    BY <2>3, <1>1 DEF IInv, ProgressInv, InFat, InData, Built, Reading, Capacity
  <2>6. ReaderInv'
    <3>1. nclusters' = nclusters
      BY <1>1 DEF nclusters
    <3> QED
      BY <3>1, <2>2, <2>3, <1>1, <1>5, <1>6 DEF ReaderInv, Building, Reading
  <2> QED
    BY <2>3, <2>4, <2>5, <2>6, <1>1, ReadOnly DEF IInv, Built, Reading
<1>7. CASE got' # len
  <2>1. got' = sector(i + 1) /\ sector(i + 1) < len
    BY <1>7, <1>1, <1>3, <1>4, Layout
  <2>2. i + 1 < nclusters
    <3>1. i + 1 # nclusters
      BY <2>1, <1>1, <1>3, <1>5, Layout
    <3> QED
      BY <3>1, <1>1, <1>5
  <2>3. \A k \in 0 .. 1 : Link(k) = Entry(at + 1)
    BY <2>2, <1>1, <1>5, InTheChain, Geometry DEF Link
  <2>4. IsCluster(at + 1)
    <3>1. DataSectors \in Nat /\ Capacity = sector(DataSectors - 3) /\ DataSectors > 3
      <4>1. DataSectors = TOTAL_SEC - DATA_START
        BY <1>1, Geometry
      <4>2. TOTAL_SEC - DATA_START \in Nat /\ TOTAL_SEC - DATA_START > 3
        BY GeometryAssumption
      <4> QED
        BY <4>1, <4>2 DEF Capacity
    <3>2. sector(i + 1) < Capacity
      BY <2>2, <1>1, InTheChain
    <3>3. i + 1 < DataSectors - 3
      <4> SUFFICES ASSUME DataSectors - 3 <= i + 1 PROVE FALSE
        BY <3>1, <1>1
      <4>1. DataSectors - 3 \in Nat
        BY <3>1
      <4>2. sector(DataSectors - 3) <= sector(i + 1)
        BY <4>1, <1>1, SectorFacts
      <4> QED
        BY <4>2, <3>1, <3>2, <1>1, <1>3, Layout
    <3> QED
      BY <3>1, <3>3, <1>1 DEF IsCluster
  <2>5. Entry(at + 1).kind = "entry" /\ Entry(at + 1).next = at + 1
    BY DEF Entry
  <2>6. Boot.NumFATs = 2
    BY <1>1, Geometry DEF BootSector
  <2>7. at' = at + 1 /\ pc' = "read"
    BY <2>3, <2>4, <2>5, <2>6, <1>1, <1>2, <1>7 DEF ReadCluster
  <2>8. TypeOK'
    BY <2>1, <2>7, <1>1, <1>3, Layout DEF IInv, TypeOK
  <2>9. ProgressInv'
    BY <2>7, <1>1 DEF IInv, ProgressInv, InFat, InData, Built, Reading, Capacity
  <2>10. ReaderInv'
    <3>1. got' = i' * BS /\ got' < len' /\ at' = 5 + i'
      BY <2>1, <2>7, <1>1 DEF sector
    <3> QED
      BY <3>1, <2>7 DEF ReaderInv, Building, Reading, sector
  <2> QED
    BY <2>7, <2>8, <2>9, <2>10, <1>1, ReadOnly DEF IInv, Built, Reading
<1> QED
  BY <1>6, <1>7
----------------------------------------------------------------------------
(* The theorems                                                            *)

\* The inductive invariant is one: every step keeps what every slot holds.
THEOREM Invariance == Spec => []IInv
<1>1. ASSUME IInv, [Next]_vars PROVE IInv'
  <2>1. CASE Headers BY <1>1, <2>1, HeadersStep
  <2>2. CASE FatHead BY <1>1, <2>2, FatHeadStep
  <2>3. CASE Chain BY <1>1, <2>3, ChainStep
  <2>4. CASE ChainPanics \/ DataPanics BY <1>1, <2>4, PanicsStep
  <2>5. CASE Dirs BY <1>1, <2>5, DirsStep
  <2>6. CASE Data BY <1>1, <2>6, DataStep
  <2>7. CASE Save BY <1>1, <2>7, SaveStep
  <2>8. CASE Open BY <1>1, <2>8, OpenStep
  <2>9. CASE ReadCluster BY <1>1, <2>9, ReadClusterStep
  <2>10. CASE UNCHANGED vars
    BY <1>1, <2>10
       DEF vars, IInv, TypeOK, ProgressInv, HeaderInv, FatInv, DirInv, DataInv, ReaderInv, InFat,
           InData, Built, nclusters, Capacity, Header, HeadDone, Links, FatEntry, DirsDone,
           Directory, WordDone, BootSector, FsInfo, FatLen, fat_start, sector_of, sector
  <2> QED
    BY <1>1, <2>1, <2>2, <2>3, <2>4, <2>5, <2>6, <2>7, <2>8, <2>9, <2>10 DEF Next
<1> QED
  BY InitStep, <1>1, PTL DEF Spec

\* Type correctness of the builder and the reader.
THEOREM TypeCorrect == Spec => []TypeOK
<1>1. IInv => TypeOK
  BY DEF IInv
<1> QED
  BY <1>1, Invariance, PTL

\* A file that fits is read back as it was given, in whichever FAT the reader
\* follows the chain (write_fat32_disk).
THEOREM FileIsReadBack == Spec => []ReadsBack
<1>1. ASSUME IInv PROVE ReadsBack
  <2>1. pc # "corrupt" /\ (pc = "eof" => got = len)
    BY <1>1 DEF IInv, ReaderInv
  <2>2. ASSUME pc = "read", NEW j \in 0 .. BS - 1, got + j < len
        PROVE  img[ClusterSlot(at) + j] = Word(got + j)
    <3>1. /\ at = 5 + i /\ got = sector(i) /\ i \in Nat /\ len \in Nat /\ len <= Capacity
          /\ pc \in Built /\ pc # "headers"
      BY <1>1, <2>2, GeometryAssumption DEF IInv, ReaderInv, ProgressInv, TypeOK, Built, Reading
    <3>2. ClusterSlot(at) = sector_of(5) + sector(i) /\ sector(i) \in Nat
      BY <1>1, <3>1, Geometry, Layout, SectorFacts
    <3>3. PICK w \in Nat : w = got + j
      BY <3>1, <3>2, Layout
    <3>4. /\ ClusterSlot(at) + j = sector_of(5) + w
          /\ sector_of(5) + w \in sector_of(5) .. sector(TOTAL_SEC) - 1
          /\ (sector_of(5) + w) - sector_of(5) = w
      <4>1. w < Capacity /\ Capacity \in Nat /\ sector_of(5) \in Nat
            /\ sector(TOTAL_SEC) = sector_of(5) + Capacity
        BY <2>2, <3>1, <3>3, Layout, Bounds
      <4>2. ClusterSlot(at) + j = sector_of(5) + w
        BY <4>1, <3>1, <3>2, <3>3
      <4>3. sector_of(5) + w \in sector_of(5) .. sector(TOTAL_SEC) - 1
        BY <4>1
      <4> QED
        BY <4>1, <4>2, <4>3
    <3>5. WordDone(w)
      BY <2>2, <3>1, <3>3 DEF WordDone
    <3> QED
      BY <1>1, <3>3, <3>4, <3>5 DEF IInv, DataInv
  <2> QED
    BY <2>1, <2>2 DEF ReadsBack
<1> QED
  BY <1>1, Invariance, PTL

\* The chain of the file ends with the file, in both FATs (write_fat).
THEOREM ChainEndsWithFile == Spec => []ChainEnds
<1>1. ASSUME IInv, pc = "eof", len > 0, NEW k \in 0 .. 1 PROVE Link(k) = Entry(EOC)
  <2>1. pc \in Built /\ pc # "headers" /\ len \in Nat /\ at = 5 + nclusters - 1
    BY <1>1, GeometryAssumption DEF IInv, ReaderInv, TypeOK, Built, Reading
  <2>2. nclusters \in Nat /\ nclusters - 1 \in Nat /\ at = 5 + (nclusters - 1)
        /\ nclusters - 1 < nclusters /\ (nclusters - 1) + 1 = nclusters
    BY <1>1, <2>1, ClusterCount
  <2> QED
    BY <1>1, <2>1, <2>2, InTheChain, Geometry DEF Link
<1>2. IInv => ChainEnds
  BY <1>1 DEF ChainEnds
<1> QED
  BY <1>2, Invariance, PTL

\* An index out of the FAT or out of the image is only possible for a file longer
\* than the data area, and no such file is saved (write_fat, write_file_chain).
THEOREM PanicIsTooLong == Spec => []PanicsIffTooLong
<1>1. IInv => PanicsIffTooLong
  BY DEF IInv, ProgressInv, PanicsIffTooLong, Built
<1> QED
  BY <1>1, Invariance, PTL

\* Reserved sectors, FATs and data area are written with what belongs there only.
THEOREM AreasKept == Spec => []AreasAreKept
<1>1. ASSUME IInv, NEW s \in Slot, s < fat_start(0) PROVE img[s].kind \in {"zero", "boot", "fsinfo"}
  <2>1. s \in 0 .. sector(RSVD_SEC) - 1
    BY <1>1, Layout DEF Slot
  <2> QED
    BY <1>1, <2>1 DEF IInv, HeaderInv, Header, BootSector, FsInfo, Zero
<1>2. ASSUME IInv, NEW s \in Slot, ~(s < fat_start(0)), s < sector_of(2)
      PROVE  img[s].kind \in {"zero", "entry"}
  <2>1. PICK k \in 0 .. 1, c \in 0 .. FatLen - 1 : s = fat_start(k) + c
    <3>1. CASE s < fat_start(1)
      <4>1. s - fat_start(0) \in 0 .. FatLen - 1 /\ s = fat_start(0) + (s - fat_start(0))
        BY <1>2, <3>1, Layout DEF Slot
      <4> QED
        BY <4>1
    <3>2. CASE ~(s < fat_start(1))
      <4>1. s - fat_start(1) \in 0 .. FatLen - 1 /\ s = fat_start(1) + (s - fat_start(1))
        BY <1>2, <3>2, Layout DEF Slot
      <4> QED
        BY <4>1
    <3> QED
      BY <3>1, <3>2
  <2>2. img[s] = FatEntry(k, c)
    BY <1>2, <2>1 DEF IInv, FatInv
  <2> QED
    BY <2>2 DEF FatEntry, Entry, Zero
<1>3. ASSUME IInv, NEW s \in Slot, ~(s < sector_of(2)) PROVE img[s].kind \in {"zero", "dir", "word"}
  <2>1. CASE s < sector_of(5)
    <3>1. PICK c \in 2 .. 4, e \in 0 .. BS - 1 : s = sector_of(c) + e
      <4>1. \/ s - sector_of(2) \in 0 .. BS - 1 /\ s = sector_of(2) + (s - sector_of(2))
            \/ s - sector_of(3) \in 0 .. BS - 1 /\ s = sector_of(3) + (s - sector_of(3))
            \/ s - sector_of(4) \in 0 .. BS - 1 /\ s = sector_of(4) + (s - sector_of(4))
        BY <1>3, <2>1, Layout DEF Slot
      <4> QED
        BY <4>1
    <3>2. img[s] = Directory(c, e) \/ img[s] = Zero
      BY <1>3, <3>1 DEF IInv, DirInv
    <3> QED
      BY <3>2 DEF Directory, dir_entry, Zero
  <2>2. CASE ~(s < sector_of(5))
    <3>1. s \in sector_of(5) .. sector(TOTAL_SEC) - 1
      BY <2>2, Bounds DEF Slot
    <3> QED
      <4>1. img[s] = Zero \/ img[s] = Word(s - sector_of(5))
        BY <1>3, <3>1 DEF IInv, DataInv
      <4> QED
        BY <4>1 DEF Word, Zero
  <2> QED
    BY <2>1, <2>2
<1>4. IInv => AreasAreKept
  <2> SUFFICES ASSUME IInv, NEW s \in Slot
               PROVE  img[s].kind \in
                        IF s < fat_start(0) THEN {"zero", "boot", "fsinfo"}
                        ELSE IF s < sector_of(2) THEN {"zero", "entry"} ELSE {"zero", "dir", "word"}
    BY DEF AreasAreKept
  <2>1. fat_start(0) < sector_of(2) /\ fat_start(0) \in Nat /\ sector_of(2) \in Nat /\ s \in Nat
    BY Layout, Bounds DEF Slot
  <2> QED
    BY <1>1, <1>2, <1>3, <2>1
<1> QED
  BY <1>4, Invariance, PTL

\* A finished volume has two equal FATs and true backups (write_fat and the
\* second calls of write_boot_sector and write_fsinfo).
THEOREM CopiesAgreed == Spec => []CopiesAgree
<1>1. ASSUME IInv, pc \in Built
      PROVE  /\ \A c \in 0 .. FatLen - 1 : img[fat_start(0) + c] = img[fat_start(1) + c]
             /\ img[sector(Boot.BkBootSec)] = Boot
             /\ img[sector(Boot.BkBootSec + Boot.FSInfo)] = img[sector(Boot.FSInfo)]
  <2>1. fat_idx = 2 /\ pc # "headers"
    BY <1>1 DEF IInv, ProgressInv, Built, Reading
  <2>2. \A c \in 0 .. FatLen - 1 : FatEntry(0, c) = FatEntry(1, c)
    BY <2>1 DEF FatEntry, Links, HeadDone
  <2>3. \A c \in 0 .. FatLen - 1 : img[fat_start(0) + c] = img[fat_start(1) + c]
    BY <1>1, <2>2 DEF IInv, FatInv
  <2>4. Boot = BootSector /\ Boot.BkBootSec = 6 /\ Boot.FSInfo = 1
    BY <1>1, <2>1, Geometry DEF BootSector
  <2>5. img[sector(6)] = BootSector /\ img[sector(7)] = FsInfo /\ img[sector(1)] = FsInfo
    BY <1>1, <2>1, Layout DEF IInv, HeaderInv, Header
  <2> QED
    BY <2>3, <2>4, <2>5
<1>2. IInv => CopiesAgree
  BY <1>1 DEF CopiesAgree, Built
<1> QED
  BY <1>2, Invariance, PTL
=============================================================================
