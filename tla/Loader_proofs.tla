---------------------------- MODULE Loader_proofs ----------------------------
(***************************************************************************)
(* Proofs about the boot loader, for every well-formed disk whose files    *)
(* are short enough for the list of their clusters to stay below the       *)
(* allocation table.                                                       *)
(***************************************************************************)
EXTENDS Loader, FiniteSetTheorems, SequenceTheorems, WellFoundedInduction, TLAPS

\* The list at FAT_BUFFER_SEG does not reach the table at KERNEL_SEG.
ListsFit == \A d \in Directories : \A i \in DOMAIN d :
              Len(d[i].chain) <= (KERNEL_SEG - BOOT_RELOCATE_SEG) * (BytesPerSec \div 2)

LEMMA ClusterRange == Clusters = 2 .. 2845
BY DEF Clusters, MAX_CLUSTERS, DATA_SEC_OFFSET, ROOT_DIR_SEC_OFFSET,
       ROOT_DIR_TOTAL_SECTORS, RsvdSecCnt, FATSz16

LEMMA ClusterIsNat == ASSUME NEW n \in Clusters PROVE n \in Nat /\ ~(n < 2)
BY ClusterRange

-----------------------------------------------------------------------------
(***************************************************************************)
(* Arithmetic of the disk.                                                 *)
(***************************************************************************)

(***************************************************************************)
(* LBA2CHS names the sector it was given, one that is on the disk, in a    *)
(* way the BIOS allows.                                                    *)
(***************************************************************************)
LEMMA AddressRight ==
  ASSUME NEW lba \in 0 .. MAX_CLUSTERS - 1
  PROVE  /\ BiosLba(LBA2CHS(lba)) = lba
         /\ LBA2CHS(lba).head * SecPerTrk + LBA2CHS(lba).sector - 1 + 1 <= NumHeads * SecPerTrk
<1> DEFINE track == lba \div 18
           cylinder == lba \div 36
<1>1. lba \in Int /\ lba >= 0 /\ lba < 2880
  BY DEF MAX_CLUSTERS
<1>2. cylinder \in Int /\ cylinder = track \div 2
  BY <1>1
<1>3. cylinder >= 0
  BY <1>1
<1>4. cylinder < 256
  BY <1>1
<1>5. track \in Int /\ track * 18 + (lba % 18) = lba
  BY <1>1
<1>6. lba % 18 \in 0 .. 17
  BY <1>1
<1> HIDE DEF track, cylinder
<1>7. cylinder * 2 + (track % 2) = track /\ track % 2 \in 0 .. 1
  BY <1>2, <1>5
<1>8. cylinder % 256 = cylinder
  BY <1>2, <1>3, <1>4
<1>9. /\ LBA2CHS(lba).cylinder = cylinder /\ LBA2CHS(lba).head = track % 2
      /\ LBA2CHS(lba).sector = (lba % 18) + 1
  BY <1>8 DEF LBA2CHS, SecPerTrk, NumHeads, cylinder, track
<1>10. BiosLba(LBA2CHS(lba)) = (cylinder * 2 + (track % 2)) * 18 + ((lba % 18) + 1) - 1
  BY <1>9 DEF BiosLba, SecPerTrk, NumHeads
<1>11. BiosLba(LBA2CHS(lba)) = track * 18 + ((lba % 18) + 1) - 1
  BY <1>7, <1>10
<1>12. track * 18 + ((lba % 18) + 1) - 1 = lba
  BY <1>1, <1>5, <1>6
<1> QED
  BY <1>6, <1>7, <1>9, <1>11, <1>12 DEF SecPerTrk, NumHeads

\* What 12 bits hold, and the places in the table of the disk.
Values == 0 .. 4095
Offsets == 0 .. FATSz16 * BytesPerSec - 1

(***************************************************************************)
(* The two bytes that hold an entry of 12 bits, whether it begins with a   *)
(* byte or in the middle of one.                                           *)
(***************************************************************************)
LEMMA EvenEntry ==
  ASSUME NEW even \in Values, NEW odd \in Values
  PROVE  ((even % 256) + 256 * (even \div 256 + 16 * (odd % 16))) % 4096 = even
<1> USE DEF Values
<1>1. (even % 256) + 256 * (even \div 256) = even
  OBVIOUS
<1>2. odd % 16 \in 0 .. 15
  OBVIOUS
<1>3. (even % 256) + 256 * (even \div 256 + 16 * (odd % 16)) = even + 4096 * (odd % 16)
  BY <1>1, <1>2
<1> QED BY <1>2, <1>3

LEMMA OddEntry ==
  ASSUME NEW even \in Values, NEW odd \in Values
  PROVE  ((even \div 256 + 16 * (odd % 16)) + 256 * (odd \div 16)) \div 16 = odd
<1> DEFINE e == even \div 256
           o == odd \div 16
           r == odd % 16
<1> USE DEF Values
<1>1. r + 16 * o = odd
  OBVIOUS
<1>2. e \in Int /\ o \in Int /\ r \in Int
  OBVIOUS
<1>3. e >= 0
  OBVIOUS
<1>4. e <= 15
  OBVIOUS
<1> HIDE DEF e, o, r
<1>5. (e + 16 * r) + 256 * o = e + 16 * odd
  BY <1>1, <1>2
<1>6. (e + 16 * odd) \div 16 = odd
  BY <1>2, <1>3, <1>4
<1> QED BY <1>5, <1>6 DEF e, o, r

-----------------------------------------------------------------------------
(***************************************************************************)
(* The allocation table of a well-formed disk.                             *)
(***************************************************************************)
DiskOK == disk[0] \in Directories

LEMMA DiskShape ==
  ASSUME DiskOK
  PROVE  WellFormed(disk[0]) /\ disk[0] \in Seq(DirEntries)
BY DiskAssumption DEF DiskOK, WellFormed

LEMMA FileShape ==
  ASSUME DiskOK, NEW f \in Files(0)
  PROVE  f.chain \in Seq(Clusters)
<1>1. PICK k \in DOMAIN disk[0] : f = disk[0][k]
  BY DEF Files
<1>2. disk[0][k] \in DirEntries
  BY DiskShape
<1> QED BY <1>1, <1>2 DEF DirEntries

\* A cluster of a file is no other file's, and once its own.
LEMMA OneHolder ==
  ASSUME DiskOK, NEW f \in Files(0), NEW i \in DOMAIN f.chain
  PROVE  /\ Holders(0, f.chain[i]) = {f}
         /\ \A j \in DOMAIN f.chain : f.chain[j] = f.chain[i] => j = i
<1>1. PICK k \in DOMAIN disk[0] : f = disk[0][k] /\ ~disk[0][k].deleted
  BY DEF Files
<1>2. ASSUME NEW g \in Files(0), NEW j \in DOMAIN g.chain, g.chain[j] = f.chain[i]
      PROVE  g = f /\ j = i
  <2>1. PICK l \in DOMAIN disk[0] : g = disk[0][l] /\ ~disk[0][l].deleted
    BY DEF Files
  <2> QED BY <1>1, <1>2, <2>1, DiskShape DEF WellFormed
<1> QED BY <1>2 DEF Holders

\* Following an entry of the table is following the chain of its file.
LEMMA EntryOfChain ==
  ASSUME DiskOK, NEW f \in Files(0), NEW i \in DOMAIN f.chain
  PROVE  FatEntry(0, f.chain[i]) = IF i = Len(f.chain) THEN EndOfChain ELSE f.chain[i + 1]
<1> DEFINE n == f.chain[i]
<1>1. n \in Clusters
  BY FileShape
<1>2. Holders(0, n) = {f} /\ \A j \in DOMAIN f.chain : f.chain[j] = n => j = i
  BY OneHolder
<1>3. (CHOOSE j \in DOMAIN f.chain : f.chain[j] = n) = i
  BY <1>2
<1>4. After(f, n) = IF i = Len(f.chain) THEN EndOfChain ELSE f.chain[i + 1]
  BY <1>3, Zenon DEF After
<1>5. (CHOOSE g \in Holders(0, n) : TRUE) = f
  BY <1>2
<1> HIDE DEF n
<1>6. n \in Nat /\ n >= 2
  BY <1>1, ClusterRange
<1>7. FatEntry(0, n) = After(CHOOSE g \in Holders(0, n) : TRUE, n)
  BY <1>2, <1>6 DEF FatEntry
<1> QED BY <1>4, <1>5, <1>7, Zenon DEF n

\* An entry of no file is free, the first two are marks.
LEMMA EntryOfNoFile ==
  ASSUME NEW n \in Nat, Holders(0, n) = {}
  PROVE  FatEntry(0, n) = IF n < 2 THEN EndOfChain - 15 * (1 - n) ELSE 0
BY DEF FatEntry

LEMMA EntryRange ==
  ASSUME DiskOK, NEW n \in Nat
  PROVE  FatEntry(0, n) \in Values
<1>1. CASE Holders(0, n) = {}
  <2>1. FatEntry(0, n) = IF n < 2 THEN EndOfChain - 15 * (1 - n) ELSE 0
    BY <1>1, EntryOfNoFile
  <2>2. n < 2 => EndOfChain - 15 * (1 - n) \in 0 .. 4095
    BY DEF EndOfChain
  <2> QED BY <2>1, <2>2 DEF Values
<1>2. CASE Holders(0, n) # {}
  <2>0. PICK f \in Files(0) : \E i \in DOMAIN f.chain : f.chain[i] = n
    BY <1>2 DEF Holders
  <2>1. PICK i \in DOMAIN f.chain : f.chain[i] = n
    BY <2>0
  <2>2. i # Len(f.chain) => f.chain[i + 1] \in Clusters
    BY FileShape
  <2>3. EndOfChain \in Values
    BY DEF EndOfChain, Values
  <2>5. \A c \in Clusters : c \in Values
    BY ClusterRange DEF Values
  <2>4. FatEntry(0, n) = IF i = Len(f.chain) THEN EndOfChain ELSE f.chain[i + 1]
    BY <2>1, EntryOfChain
  <2> QED BY <2>2, <2>3, <2>4, <2>5, Zenon
<1> QED BY <1>1, <1>2, Zenon

-----------------------------------------------------------------------------
\* The table lies at KERNEL_SEG, sector by sector.
TableIn == \A j \in 0 .. FATSz16 - 1 : mem[KERNEL_SEG + j] = Sector(0, RsvdSecCnt + j)

LEMMA TableByte ==
  ASSUME TableIn, NEW k \in Offsets
  PROVE  Byte(k) = FatByte(0, k)
<1> DEFINE j == k \div BytesPerSec
<1>1. j \in 0 .. FATSz16 - 1 /\ j * 512 + (k % 512) = k /\ k % 512 \in Nat
  BY DEF FATSz16, BytesPerSec, Offsets
<1>2. mem[KERNEL_SEG + j] = Sector(0, RsvdSecCnt + j)
  BY <1>1 DEF TableIn
<1> DEFINE s == mem[KERNEL_SEG + k \div BytesPerSec]
<1>4. s.drive = 0 /\ s.lba = RsvdSecCnt + j
  BY <1>2 DEF Sector
<1>5. Byte(k) = FatByte(s.drive, (s.lba - RsvdSecCnt) * BytesPerSec + (k % BytesPerSec))
  BY Zenon DEF Byte
<1> HIDE DEF j, s
<1>6. (s.lba - RsvdSecCnt) * BytesPerSec + (k % BytesPerSec) = k
  <2>1. s.lba - RsvdSecCnt = j
    BY <1>1, <1>4 DEF RsvdSecCnt
  <2> QED BY <1>1, <2>1 DEF BytesPerSec
<1> QED BY <1>4, <1>5, <1>6, Zenon

(***************************************************************************)
(* LoadFile reads the entry of the cluster from the bytes of the table,    *)
(* for even and odd clusters and for those whose entry straddles sectors.  *)
(***************************************************************************)
LEMMA NextIsEntry ==
  ASSUME DiskOK, TableIn, NEW n \in {0} \cup Clusters
  PROVE  NextCluster(n) = FatEntry(0, n)
<1> DEFINE m == n \div 2
<1>0. n \in 0 .. 2845
  BY ClusterRange
<1>1. m \in 0 .. 1422
  <2>1. m \in Int
    BY <1>0
  <2>2. m >= 0
    BY <1>0
  <2>3. m <= 1422
    BY <1>0
  <2> QED BY <2>1, <2>2, <2>3
<1>6. n = 2 * m \/ n = 2 * m + 1
  BY <1>0
<1>7. m = n \div 2
  OBVIOUS
<1> HIDE DEF m
<1> DEFINE even == FatEntry(0, 2 * m)
           odd == FatEntry(0, 2 * m + 1)
<1>2. even \in Values /\ odd \in Values
  <2>1. 2 * m \in Nat /\ 2 * m + 1 \in Nat
    BY <1>1
  <2> QED BY <2>1, EntryRange, Zenon
<1>3. 3 * m \in Offsets /\ 3 * m + 1 \in Offsets /\ 3 * m + 2 \in Offsets
  BY <1>1 DEF Offsets, FATSz16, BytesPerSec
<1> DEFINE k == 3 * m
<1>8. /\ k \div 3 = m /\ k % 3 = 0
      /\ (k + 1) \div 3 = m /\ (k + 1) % 3 = 1
      /\ (k + 2) \div 3 = m /\ (k + 2) % 3 = 2
  BY <1>1
<1>9. k \in Int
  BY <1>1
<1> HIDE DEF k
<1>10. Byte(k) = even % 256
  <2>1. Byte(k) = FatByte(0, k)
    BY <1>3, TableByte, Zenon DEF k
  <2>2. FatByte(0, k) = even % 256
    BY <1>8 DEF FatByte
  <2> QED BY <2>1, <2>2, Zenon
<1>11. Byte(k + 1) = even \div 256 + 16 * (odd % 16)
  <2>1. Byte(k + 1) = FatByte(0, k + 1)
    BY <1>3, TableByte, Zenon DEF k
  <2>2. FatByte(0, k + 1) = even \div 256 + 16 * (odd % 16)
    BY <1>8 DEF FatByte
  <2> QED BY <2>1, <2>2, Zenon
<1>12. Byte(k + 2) = odd \div 16
  <2>1. Byte(k + 2) = FatByte(0, k + 2)
    BY <1>3, TableByte, Zenon DEF k
  <2>2. FatByte(0, k + 2) = odd \div 16
    BY <1>8 DEF FatByte
  <2> QED BY <2>1, <2>2, Zenon
<1>4. CASE n = 2 * m
  <2>1. n % 2 = 0 /\ n + m = k
    BY <1>1, <1>4 DEF k
  <2>2. NextCluster(n) = Word(k) % 4096
    BY <2>1, <1>7 DEF NextCluster
  <2>3. Word(k) = (even % 256) + 256 * (even \div 256 + 16 * (odd % 16))
    BY <1>10, <1>11, Zenon DEF Word
  <2> HIDE DEF even, odd
  <2>5. ((even % 256) + 256 * (even \div 256 + 16 * (odd % 16))) % 4096 = even
    BY <1>2, EvenEntry
  <2>4. NextCluster(n) = even
    BY <2>2, <2>3, <2>5
  <2> QED BY <2>4, <1>4, Zenon DEF even
<1>5. CASE n = 2 * m + 1
  <2>1. n % 2 = 1 /\ n + m = k + 1 /\ k + 1 + 1 = k + 2
    BY <1>1, <1>5 DEF k
  <2>2. NextCluster(n) = Word(k + 1) \div 16
    BY <2>1, <1>7 DEF NextCluster
  <2>3. Word(k + 1) = (even \div 256 + 16 * (odd % 16)) + 256 * (odd \div 16)
    BY <1>11, <1>12, <2>1, Zenon DEF Word
  <2> HIDE DEF even, odd
  <2>5. ((even \div 256 + 16 * (odd % 16)) + 256 * (odd \div 16)) \div 16 = odd
    BY <1>2, OddEntry
  <2>4. NextCluster(n) = odd
    BY <2>2, <2>3, <2>5
  <2> QED BY <2>4, <1>5, Zenon DEF odd
<1> QED BY <1>4, <1>5, <1>6

-----------------------------------------------------------------------------
(***************************************************************************)
(* The inductive invariant: what is where, whenever the loader has come    *)
(* to a place of its program.                                              *)
(***************************************************************************)

\* What a register or the list may hold: a cluster, or the 0 of no cluster.
Numbers == {0} \cup Clusters

Stage2 == mem[BOOT2_SEG] = Sector(DrvNum, 1)
Sizes == <<Picked.size \div 65536, Picked.size % 65536, LowMemory>>

AtMain == list = << >> /\ asked = 0
AtBoot == AtMain /\ stack = <<LowMemory>>
AtRoot == AtBoot /\ Stage2
AtFind == AtRoot /\ mem[KERNEL_SEG].drive = 0
AtFat == /\ AtMain /\ Stage2 /\ HasPicked
         /\ stack = <<FirstCluster(Picked), Sizes[1], Sizes[2], Sizes[3]>>

\* The walk follows the chain of a file, from its cluster number k + 1 on.
Along(f, k) == /\ k + Len(list) + 1 \in DOMAIN f.chain
               /\ regs.ax = f.chain[k + Len(list) + 1]
               /\ \A i \in DOMAIN list : list[i] = f.chain[k + i]

HasChain == ~Picked.deleted /\ Picked.chain # << >>

Walk == /\ list \in Seq(Numbers)
        /\ regs \in [ax : Numbers, bx : Nat, cx : Nat]
        /\ regs.bx = KERNEL_SEG /\ regs.cx = Len(list)
        /\ \/ \E f \in Files(0) : \E k \in 0 .. Len(f.chain) : Along(f, k)
           \/ list = << >>
           \/ Len(list) = 1 /\ regs.ax = 0
        /\ HasChain => Along(Picked, 0)

Walked == /\ list \in Seq(Numbers)
          /\ HasChain => list = Picked.chain

Taken == Stage2 /\ HasPicked /\ asked = 0 /\ stack = Sizes

AtParse == Taken /\ Walk /\ TableIn

\* The first n clusters of the list are in memory.
FileIn(n) == \A i \in 1 .. n : mem[KERNEL_SEG + i - 1] = Sector(0, list[i] + DATA_SEC_OFFSET - 2)

Room == BOOT2_SEG - KERNEL_SEG

AtRead == /\ Taken /\ Walked
          /\ regs \in [ax : Nat, bx : Nat, cx : Nat]
          /\ regs.cx \in 1 .. Len(list)
          /\ Len(list) - regs.cx <= Room
          /\ regs.bx = KERNEL_SEG + (Len(list) - regs.cx)
          /\ FileIn(Len(list) - regs.cx)

AtInfo == Taken /\ Walked /\ Len(list) <= Room /\ FileIn(Len(list))

Told == /\ info \in [tot_mem : Nat, kernel_size : Nat, boot_drive : {DrvNum}, entries : Nat, marker : Nat]
        /\ info.kernel_size = Picked.size
        /\ info.tot_mem = LowMemory + HighMemory

InfoIn == Stage2 /\ HasPicked /\ Told /\ mem[BOOT_RELOCATE_SEG] = SysInfo

Ready == /\ InfoIn /\ Walked /\ Len(list) <= Room /\ FileIn(Len(list))
         /\ stack = <<Picked.size>>

AtMap == /\ Ready
         /\ regs \in [di : Nat, bp : Nat]
         /\ asked \in Nat /\ asked < MaxRegions
         /\ regs.bp <= asked /\ regs.di = regs.bp

Mapped == /\ regs \in [di : Nat, bp : Nat]
          /\ regs.bp <= MaxRegions
          /\ failed \/ regs.di = regs.bp

Listed == Mapped /\ info.entries = regs.bp % 256 /\ info.marker = regs.di

AtCount == Ready /\ Mapped
AtGate == Ready /\ Listed
AtCopy == AtGate /\ a20

Whole == ~Picked.deleted => himem = [kernel |-> Sectors(0, Picked), bytes |-> Picked.size]
AtStart == InfoIn /\ Listed /\ Whole

\* StopsForAReason; the count of the firmware's regions is kept in a byte.
Reasons ==
  /\ pc = "reboot" => failed \/ ~HasPicked
  /\ pc = "halted" => ~a20
  /\ pc = "panic" /\ MaxRegions < 256 => failed \/ regs.bp = 0
  /\ pc = "lost" => Len(list) > Room

Base == DiskOK /\ DOMAIN mem = 0 .. Segment - 1 /\ ReadsAreLegal /\ Reasons

LInv == /\ Base
        /\ pc = "main" => AtMain
        /\ pc = "reset" => AtBoot
        /\ pc = "boot2" => AtBoot
        /\ pc = "root" => AtRoot
        /\ pc = "find" => AtFind
        /\ pc = "fat" => AtFat
        /\ pc = "parse" => AtParse
        /\ pc = "read" => AtRead
        /\ pc = "info" => AtInfo
        /\ pc = "map" => AtMap
        /\ pc = "count" => AtCount
        /\ pc = "a20" => AtGate
        /\ pc = "copy" => AtCopy
        /\ pc = "start" => AtStart
        /\ pc = "kernel" => AtStart

-----------------------------------------------------------------------------
(***************************************************************************)
(* The file that is picked.                                                *)
(***************************************************************************)
LEMMA LeastOfNats ==
  ASSUME NEW S, S \subseteq Nat, S # {}
  PROVE  \E n \in S : \A m \in S : n <= m
<1> DEFINE R == {ss \in Nat \X Nat : ss[1] < ss[2]}
<1>1. IsWellFoundedOn(R, Nat)
  BY NatLessThanWellFounded DEF OpToRel
<1>2. PICK n \in S : \A m \in S : ~(<<m, n>> \in R)
  <2> HIDE DEF R
  <2> QED BY <1>1, WFMin
<1>3. ASSUME NEW m \in S PROVE n <= m
  <2>1. m \in Nat /\ n \in Nat
    OBVIOUS
  <2>2. CASE m < n
    <3>1. <<m, n>> \in Nat \X Nat /\ <<m, n>>[1] < <<m, n>>[2]
      BY <2>1, <2>2
    <3>2. <<m, n>> \in R
      BY <3>1
    <3> QED BY <1>2, <3>2
  <2> QED BY <2>1, <2>2
<1> QED BY <1>3

LEMMA PickedShape ==
  ASSUME DiskOK, HasPicked
  PROVE  /\ Picked \in DirEntries
         /\ ~Picked.deleted => /\ Picked \in Files(0)
                               /\ (Picked.size + 511) \div 512 = Len(Picked.chain)
<1> DEFINE S == {i \in DOMAIN Entries : Entries[i].attr = KERNEL_FILENAME_ATTRIB}
           k == CHOOSE i \in S : \A j \in S : i <= j
<1>1. Entries \in Seq(DirEntries) /\ Entries = disk[0] /\ WellFormed(disk[0])
  BY DiskShape DEF Entries
<1>2. S \subseteq Nat /\ S # {}
  BY <1>1 DEF HasPicked
<1>3. S \subseteq DOMAIN Entries
  OBVIOUS
<1>4. Picked = Entries[k]
  BY DEF Picked
<1> HIDE DEF S
<1>5. k \in S
  BY <1>2, LeastOfNats
<1> HIDE DEF k
<1>6. k \in DOMAIN Entries /\ Picked = disk[0][k]
  BY <1>1, <1>3, <1>4, <1>5
<1>7. Picked \in DirEntries
  BY <1>1, <1>6
<1>8. ~Picked.deleted => Picked \in Files(0)
  BY <1>1, <1>6 DEF Files
<1>9. ~Picked.deleted => (Picked.size + 511) \div 512 = Len(Picked.chain)
  <2>1. ~disk[0][k].deleted =>
          (disk[0][k].size + BytesPerSec - 1) \div BytesPerSec = Len(disk[0][k].chain)
    BY <1>1, <1>6 DEF WellFormed
  <2>2. Picked.size \in Nat
    BY <1>7 DEF DirEntries
  <2>3. Picked.size + BytesPerSec - 1 = Picked.size + 511
    BY <2>2 DEF BytesPerSec
  <2> QED BY <1>6, <2>1, <2>3 DEF BytesPerSec
<1> QED BY <1>7, <1>8, <1>9

\* No step exchanges the disk.
LEMMA SameDisk ==
  ASSUME disk' = disk
  PROVE  /\ Picked' = Picked /\ HasPicked' = HasPicked
         /\ DiskOK' = DiskOK /\ Files(0)' = Files(0)
BY DEF Picked, HasPicked, DiskOK, Entries, Files

(***************************************************************************)
(* A step that reaches a place brings about what holds there.              *)
(***************************************************************************)
LEMMA Stopped ==
  ASSUME Base', pc' \in Ended \ {"kernel"}
  PROVE  LInv'
BY DEF LInv, Ended

\* The services that fail, the file that is missing, the line that is off.
LEMMA FailStep ==
  ASSUME LInv,
         \/ ResetDrive_error \/ DriveReadSectors_error \/ RootDirFindFile_missing
         \/ GetTotalMemorySize_error \/ EnableA20 \/ Stop
  PROVE  LInv'
<1>1. CASE ResetDrive_error \/ DriveReadSectors_error \/ GetTotalMemorySize_error
  <2>1. /\ pc' = "reboot" /\ failed' = TRUE /\ mem' = mem /\ request' = request /\ disk' = disk
    BY <1>1 DEF ResetDrive_error, DriveReadSectors_error, GetTotalMemorySize_error, BootFailure
  <2>2. Base'
    BY <2>1, SameDisk DEF LInv, Base, ReadsAreLegal, Reasons
  <2> QED BY <2>1, <2>2, Stopped DEF Ended
<1>2. CASE RootDirFindFile_missing
  <2>1. pc' = "reboot" /\ mem' = mem /\ request' = request /\ disk' = disk
    BY <1>2 DEF RootDirFindFile_missing, BootFailure
  <2>2. ~HasPicked
    BY <1>2 DEF RootDirFindFile_missing, LInv, AtFind, Candidates, HasPicked, Entries
  <2>3. Base'
    BY <2>1, <2>2, SameDisk DEF LInv, Base, ReadsAreLegal, Reasons
  <2> QED BY <2>1, <2>3, Stopped DEF Ended
<1>3. CASE EnableA20
  <2>1. pc' = "halted" /\ mem' = mem /\ request' = request /\ disk' = disk /\ a20' = a20
    BY <1>3 DEF EnableA20
  <2>2. ~a20
    BY <1>3 DEF EnableA20, GateA20, CheckGateA20
  <2>3. Base'
    BY <2>1, <2>2, SameDisk DEF LInv, Base, ReadsAreLegal, Reasons
  <2> QED BY <2>1, <2>3, Stopped DEF Ended
<1>4. CASE Stop
  BY <1>4 DEF Stop, Ended, vars, LInv, Base, DiskOK, ReadsAreLegal, Reasons, HasPicked,
       Entries, AtStart, InfoIn, Stage2, Told, Listed, Mapped, Whole, Picked
<1> QED BY <1>1, <1>2, <1>3, <1>4

(***************************************************************************)
(* The boot sector, up to the directory.                                   *)
(***************************************************************************)
LEMMA BootSectorStep ==
  ASSUME LInv, main(mem[BOOT2_SEG].drive) \/ ResetDrive
  PROVE  LInv'
<1>1. CASE main(mem[BOOT2_SEG].drive)
  <2>1. /\ pc = "main" /\ pc' = "reset" /\ stack' = <<LowMemory>> /\ list' = list /\ asked' = asked
        /\ disk' = disk /\ request' = request /\ DOMAIN mem' = DOMAIN mem
    BY <1>1 DEF main
  <2>2. Base' /\ AtBoot'
    BY <2>1, SameDisk DEF LInv, Base, AtMain, AtBoot, ReadsAreLegal, Reasons
  <2> QED BY <2>1, <2>2 DEF LInv
<1>2. CASE ResetDrive
  <2>1. pc = "reset" /\ pc' = "boot2" /\ UNCHANGED <<stack, list, asked, disk, request, mem>>
    BY <1>2 DEF ResetDrive
  <2>2. Base' /\ AtBoot'
    BY <2>1, SameDisk DEF LInv, Base, AtMain, AtBoot, ReadsAreLegal, Reasons
  <2> QED BY <2>1, <2>2 DEF LInv
<1> QED BY <1>1, <1>2

LEMMA LoadBoot2Step == ASSUME LInv, LoadBoot2 PROVE LInv'
<1>1. pc = "boot2" /\ AtBoot /\ Base
  BY DEF LInv, LoadBoot2
<1> DEFINE chs == [cylinder |-> 0, head |-> 0, sector |-> 2]
           blocks == [b \in 62 .. 64 |-> Sector(DrvNum, BiosLba(chs) + b - 62)]
<1>2. /\ Store(blocks, "root")
      /\ request' = [chs |-> chs, count |-> 3, at |-> 62]
      /\ UNCHANGED <<disk, DrvNum, list, asked, stack>>
  BY DEF LoadBoot2, DriveReadSectors, RsvdSecCnt, BOOT2_SEG
<1>3. BiosLba(chs) = 1
  BY DEF BiosLba, NumHeads, SecPerTrk
<1>4. DOMAIN blocks \cap Running = {}
  BY <1>1 DEF Running, BOOT_RELOCATE_SEG
<1>5. pc' = "root"
  BY <1>2, <1>4 DEF Store
<1>6. DOMAIN mem' = 0 .. Segment - 1 /\ mem'[62] = Sector(DrvNum, 1)
  <2>1. mem' = [b \in DOMAIN mem |-> IF b \in DOMAIN blocks THEN blocks[b] ELSE mem[b]]
    BY <1>2 DEF Store
  <2>2. 62 \in DOMAIN mem /\ 62 \in DOMAIN blocks
    BY <1>1 DEF Base, Segment
  <2>3. blocks[62] = Sector(DrvNum, 1)
    BY <1>3
  <2> HIDE DEF blocks
  <2> QED BY <1>1, <2>1, <2>2, <2>3 DEF Base
<1>7. ReadsAreLegal'
  BY <1>2, <1>3 DEF ReadsAreLegal, Segment, SecPerTrk, NumHeads, MAX_CLUSTERS
<1>8. Base' /\ AtRoot'
  BY <1>1, <1>2, <1>5, <1>6, <1>7, SameDisk
     DEF Base, AtRoot, AtBoot, AtMain, Stage2, Reasons, BOOT2_SEG
<1> QED BY <1>5, <1>8 DEF LInv

LEMMA LoadRootStep == ASSUME LInv, LoadRootDirectory PROVE LInv'
<1>1. pc = "root" /\ AtRoot /\ Base
  BY DEF LInv, LoadRootDirectory
<1> DEFINE chs == LBA2CHS(22)
           blocks == [b \in 8 .. 21 |-> Sector(0, BiosLba(chs) + b - 8)]
<1>2. /\ Store(blocks, "find")
      /\ request' = [chs |-> chs, count |-> 14, at |-> 8]
      /\ UNCHANGED <<disk, DrvNum, list, asked, stack>>
  BY DEF LoadRootDirectory, DriveReadSectors, KERNEL_SEG, ROOT_DIR_SEC_OFFSET, RsvdSecCnt,
         FATSz16, ROOT_DIR_TOTAL_SECTORS, DL
<1>3. chs.head = 1 /\ chs.sector = 5 /\ BiosLba(chs) = 22
  BY DEF LBA2CHS, SecPerTrk, NumHeads, BiosLba
<1>4. DOMAIN blocks \cap Running = {}
  BY <1>1 DEF Running, Boot2Blocks, BOOT2_SEG, RsvdSecCnt
<1>5. pc' = "find"
  BY <1>2, <1>4 DEF Store
<1>6. /\ DOMAIN mem' = 0 .. Segment - 1
      /\ mem'[8].drive = 0 /\ mem'[BOOT2_SEG] = mem[BOOT2_SEG]
  <2>1. mem' = [b \in DOMAIN mem |-> IF b \in DOMAIN blocks THEN blocks[b] ELSE mem[b]]
    BY <1>2 DEF Store
  <2>2. 8 \in DOMAIN mem /\ 8 \in DOMAIN blocks /\ 62 \in DOMAIN mem /\ 62 \notin DOMAIN blocks
    BY <1>1 DEF Base, Segment
  <2>3. blocks[8].drive = 0
    BY DEF Sector
  <2> HIDE DEF blocks
  <2> QED BY <1>1, <2>1, <2>2, <2>3 DEF Base, BOOT2_SEG
<1> HIDE DEF chs
<1>7. ReadsAreLegal'
  BY <1>2, <1>3 DEF ReadsAreLegal, Segment, SecPerTrk, NumHeads, MAX_CLUSTERS
<1>8. Base' /\ AtFind'
  BY <1>1, <1>2, <1>5, <1>6, <1>7, SameDisk
     DEF Base, AtFind, AtRoot, AtBoot, AtMain, Stage2, Reasons, KERNEL_SEG
<1> QED BY <1>5, <1>8 DEF LInv

LEMMA ThreeOnOne ==
  ASSUME NEW a, NEW b, NEW c, NEW d
  PROVE  <<a, b, c>> \o <<d>> = <<a, b, c, d>>
<1> DEFINE S == {a, b, c, d}
           t == <<a, b, c>>
           u == <<d>>
           v == t \o u
<1>1. /\ t \in Seq(S) /\ Len(t) = 3 /\ t[1] = a /\ t[2] = b /\ t[3] = c
      /\ u \in Seq(S) /\ Len(u) = 1 /\ u[1] = d
  OBVIOUS
<1> HIDE DEF S, t, u
<1>2. /\ v \in Seq(S) /\ Len(v) = Len(t) + Len(u)
      /\ \A i \in 1 .. Len(t) + Len(u) : v[i] = IF i <= Len(t) THEN t[i] ELSE u[i - Len(t)]
  BY <1>1, ConcatProperties
<1> HIDE DEF v
<1>3. v \in Seq(S) /\ Len(v) = 4 /\ v[1] = a /\ v[2] = b /\ v[3] = c /\ v[4] = d
  BY <1>1, <1>2
<1>4. v = <<a, b, c, d>>
  BY <1>3
<1> QED BY <1>4 DEF t, u, v

LEMMA FindStep == ASSUME LInv, RootDirFindFile PROVE LInv'
<1>1. pc = "find" /\ AtFind /\ Base
  BY DEF LInv, RootDirFindFile
<1>2. pc' = "fat" /\ UNCHANGED <<disk, DrvNum, mem, list, asked, request>>
  BY DEF RootDirFindFile
<1>3. disk[mem[KERNEL_SEG].drive] = Entries
  BY <1>1 DEF AtFind, Entries
<1>4. HasPicked
  BY <1>3 DEF RootDirFindFile, Candidates, HasPicked
<1>5. stack' = Pushed(Picked) \o stack
  BY <1>3 DEF RootDirFindFile, Candidates, Picked
<1>6. stack' = <<FirstCluster(Picked), Sizes[1], Sizes[2], Sizes[3]>>
  <2>1. stack = <<LowMemory>>
    BY <1>1 DEF AtFind, AtRoot, AtBoot
  <2>2. stack' = <<FirstCluster(Picked), Picked.size \div 65536, Picked.size % 65536>> \o <<LowMemory>>
    BY <1>5, <2>1 DEF Pushed
  <2>3. stack' = <<FirstCluster(Picked), Picked.size \div 65536, Picked.size % 65536, LowMemory>>
    BY <2>2, ThreeOnOne
  <2> QED BY <2>3 DEF Sizes
<1>7. AtFat'
  BY <1>1, <1>2, <1>4, <1>6, SameDisk DEF AtFat, AtFind, AtRoot, AtBoot, AtMain, Stage2, Sizes, FirstCluster
<1>8. Base'
  BY <1>1, <1>2, SameDisk DEF Base, ReadsAreLegal, Reasons
<1> QED BY <1>2, <1>7, <1>8 DEF LInv

(***************************************************************************)
(* The allocation table arrives, and the walk starts at the first cluster. *)
(***************************************************************************)
LEMMA LoadFATStep == ASSUME LInv, LoadFAT PROVE LInv'
<1>1. pc = "fat" /\ AtFat /\ Base
  BY DEF LInv, LoadFAT
<1> DEFINE chs == LBA2CHS(4)
           blocks == [b \in 8 .. 16 |-> Sector(0, BiosLba(chs) + b - 8)]
<1>2. /\ Store(blocks, "parse")
      /\ request' = [chs |-> chs, count |-> 9, at |-> 8]
      /\ regs' = [ax |-> stack[1], bx |-> KERNEL_SEG, cx |-> 0]
      /\ stack' = Tail(stack)
      /\ UNCHANGED <<disk, DrvNum, list, asked>>
  BY DEF LoadFAT, DriveReadSectors, KERNEL_SEG, RsvdSecCnt, FATSz16, DL
<1>3. chs.head = 0 /\ chs.sector = 5 /\ BiosLba(chs) = 4
  BY DEF LBA2CHS, SecPerTrk, NumHeads, BiosLba
<1> HIDE DEF chs
<1>4. DOMAIN blocks \cap Running = {}
  BY <1>1 DEF Running, Boot2Blocks, BOOT2_SEG, RsvdSecCnt
<1>5. pc' = "parse"
  BY <1>2, <1>4 DEF Store
<1>6. /\ DOMAIN mem' = 0 .. Segment - 1
      /\ TableIn' /\ mem'[BOOT2_SEG] = mem[BOOT2_SEG]
  <2>1. mem' = [b \in DOMAIN mem |-> IF b \in DOMAIN blocks THEN blocks[b] ELSE mem[b]]
    BY <1>2 DEF Store
  <2>2. DOMAIN mem = 0 .. 127 /\ DOMAIN blocks = 8 .. 16
    BY <1>1 DEF Base, Segment
  <2>3. \A j \in 0 .. 8 : blocks[8 + j] = Sector(0, 4 + j)
    BY <1>3
  <2> HIDE DEF blocks
  <2>4. \A j \in 0 .. 8 : mem'[8 + j] = Sector(0, 4 + j)
    BY <2>1, <2>2, <2>3
  <2>5. mem'[62] = mem[62] /\ DOMAIN mem' = 0 .. 127
    BY <2>1, <2>2
  <2> QED BY <2>4, <2>5 DEF TableIn, KERNEL_SEG, FATSz16, RsvdSecCnt, BOOT2_SEG, Segment
<1>7. ReadsAreLegal'
  BY <1>2, <1>3 DEF ReadsAreLegal, Segment, SecPerTrk, NumHeads, MAX_CLUSTERS
<1>8. Base'
  BY <1>1, <1>2, <1>5, <1>6, <1>7, SameDisk DEF Base, Reasons
<1>9. stack[1] = FirstCluster(Picked) /\ Tail(stack) = Sizes
  BY <1>1 DEF AtFat, Sizes
<1>10. HasPicked /\ Picked \in DirEntries
  BY <1>1, PickedShape DEF AtFat, Base
<1>11. FirstCluster(Picked) \in Numbers
  BY <1>10 DEF FirstCluster, Numbers, DirEntries
<1>12. HasChain => FirstCluster(Picked) = Picked.chain[1] /\ 1 \in DOMAIN Picked.chain
  BY <1>10 DEF HasChain, FirstCluster, DirEntries
<1>13. Walk'
  <2>1. list' = << >> /\ regs' = [ax |-> FirstCluster(Picked), bx |-> 8, cx |-> 0]
    BY <1>1, <1>2, <1>9 DEF AtFat, AtMain, KERNEL_SEG
  <2>2. HasChain' => Along(Picked, 0)'
    BY <1>2, <1>12, <2>1, SameDisk DEF HasChain, Along
  <2> QED BY <1>11, <2>1, <2>2 DEF Walk, KERNEL_SEG
<1>14. Taken'
  BY <1>1, <1>2, <1>6, <1>9, SameDisk DEF Taken, AtFat, AtMain, Stage2, Sizes
<1> QED BY <1>5, <1>6, <1>8, <1>13, <1>14 DEF LInv, AtParse

(***************************************************************************)
(* One entry of the table further along a chain.                           *)
(***************************************************************************)
LEMMA AlongStep ==
  ASSUME DiskOK, list \in Seq(Numbers), NEW f \in Files(0), NEW k \in Nat, Along(f, k),
         disk' = disk, list' = Append(list, regs.ax), regs'.ax = FatEntry(0, regs.ax)
  PROVE  \/ regs'.ax = EndOfChain /\ k + Len(list) + 1 = Len(f.chain)
         \/ regs'.ax \in Clusters /\ Along(f, k)'
<1> DEFINE i == k + Len(list) + 1
<1>1. i \in DOMAIN f.chain /\ regs.ax = f.chain[i] /\ f.chain \in Seq(Clusters) /\ Len(list) \in Nat
  BY FileShape DEF Along
<1>2. regs'.ax = IF i = Len(f.chain) THEN EndOfChain ELSE f.chain[i + 1]
  BY <1>1, EntryOfChain, Zenon
<1>3. CASE i = Len(f.chain)
  BY <1>2, <1>3
<1>4. CASE i # Len(f.chain)
  <2>1. i + 1 \in DOMAIN f.chain /\ regs'.ax = f.chain[i + 1] /\ i + 1 = k + (Len(list) + 1) + 1
    BY <1>1, <1>2, <1>4
  <2>2. Len(list') = Len(list) + 1
    OBVIOUS
  <2>3. ASSUME NEW j \in DOMAIN list' PROVE list'[j] = f.chain[k + j]
    <3>1. CASE j = Len(list) + 1
      BY <1>1, <3>1
    <3>2. CASE j # Len(list) + 1
      BY <2>2, <3>2 DEF Along
    <3> QED BY <3>1, <3>2
  <2>4. f.chain[i + 1] \in Clusters
    BY <1>1, <2>1
  <2> HIDE DEF i
  <2>5. Along(f, k)'
    BY <2>1, <2>2, <2>3 DEF Along
  <2> QED BY <2>1, <2>4, <2>5
<1> QED BY <1>3, <1>4

LEMMA NumberIsNat == ASSUME NEW n \in Numbers PROVE n \in Nat /\ n + 34 \in 0 .. MAX_CLUSTERS - 1
BY ClusterRange DEF Numbers, MAX_CLUSTERS

LEMMA RegsAfter ==
  ASSUME NEW X, NEW r \in [ax : X, bx : Nat, cx : Nat], NEW n
  PROVE  [r EXCEPT !.ax = n, !.cx = @ + 1] = [ax |-> n, bx |-> r.bx, cx |-> r.cx + 1]
<1> DEFINE q == [r EXCEPT !.ax = n]
<1>1. q = [ax |-> n, bx |-> r.bx, cx |-> r.cx]
  OBVIOUS
<1>2. [r EXCEPT !.ax = n, !.cx = @ + 1] = [q EXCEPT !.cx = r.cx + 1]
  OBVIOUS
<1> HIDE DEF q
<1>3. [q EXCEPT !.cx = r.cx + 1] = [ax |-> n, bx |-> r.bx, cx |-> r.cx + 1]
  BY <1>1
<1> QED BY <1>2, <1>3

LEMMA ParseStep == ASSUME ListsFit, LInv, LoadFile_start PROVE LInv'
<1> DEFINE next == NextCluster(regs.ax)
           place == 3 + (2 * Len(list)) \div 512
           blocks == [b \in {place} |-> List]
<1>1. pc = "parse" /\ AtParse /\ Base /\ DiskOK
  BY DEF LInv, LoadFile_start, Base
<1>2. /\ Store(blocks, IF next >= MAX_CLUSTERS THEN "read" ELSE "parse")
      /\ list' = Append(list, regs.ax)
      /\ regs' = [regs EXCEPT !.ax = next, !.cx = @ + 1]
      /\ UNCHANGED <<disk, DrvNum, stack, asked, request>>
  BY DEF LoadFile_start, BOOT_RELOCATE_SEG, BytesPerSec
<1>3. /\ list \in Seq(Numbers) /\ regs \in [ax : Numbers, bx : Nat, cx : Nat]
      /\ regs.bx = 8 /\ regs.cx = Len(list) /\ Len(list) \in Nat
  BY <1>1 DEF AtParse, Walk, KERNEL_SEG
<1>4. next = FatEntry(0, regs.ax)
  BY <1>1, <1>3, NextIsEntry DEF AtParse, Numbers
<1>5. next \in Values
  <2>1. regs.ax \in Nat
    BY <1>3, NumberIsNat
  <2> QED BY <1>1, <1>4, <2>1, EntryRange, Zenon
<1> HIDE DEF next
<1>0. regs' = [ax |-> next, bx |-> 8, cx |-> Len(list) + 1]
  BY <1>2, <1>3, RegsAfter
<1>6. next \in Nat /\ regs'.ax = next /\ regs'.bx = 8 /\ regs'.cx = Len(list) + 1
  BY <1>0, <1>5 DEF Values
<1>7. list' \in Seq(Numbers) /\ Len(list') = Len(list) + 1 /\ list'[Len(list) + 1] = regs.ax
  BY <1>2, <1>3
<1>8. Len(list) < 1280
  <2>1. CASE list = << >> \/ Len(list) = 1
    BY <2>1
  <2>2. ASSUME NEW f \in Files(0), NEW k \in 0 .. Len(f.chain), Along(f, k)
        PROVE  Len(list) < 1280
    <3>1. f.chain \in Seq(Clusters)
      BY <1>1, FileShape
    <3>2. Len(f.chain) <= 1280
      BY <1>1 DEF Files, DiskOK, ListsFit, KERNEL_SEG, BOOT_RELOCATE_SEG, BytesPerSec
    <3>3. k + Len(list) + 1 <= Len(f.chain)
      BY <3>1, <2>2 DEF Along
    <3> QED BY <1>3, <3>1, <3>2, <3>3
  <2> QED BY <1>1, <2>1, <2>2 DEF AtParse, Walk
<1>9. place \in 3 .. 7
  BY <1>3, <1>8
<1> HIDE DEF place
<1>10. pc' = IF next >= MAX_CLUSTERS THEN "read" ELSE "parse"
  <2>1. DOMAIN blocks \cap Running = {}
    BY <1>1, <1>9 DEF Running, Boot2Blocks, BOOT2_SEG, RsvdSecCnt
  <2> HIDE DEF blocks
  <2> QED BY <1>2, <2>1 DEF Store
<1>11. DOMAIN mem' = DOMAIN mem /\ \A b \in DOMAIN mem : b > 7 => mem'[b] = mem[b]
  <2>1. mem' = [b \in DOMAIN mem |-> IF b \in DOMAIN blocks THEN blocks[b] ELSE mem[b]]
    BY <1>2 DEF Store
  <2>2. \A b \in DOMAIN mem : b > 7 => b \notin DOMAIN blocks
    BY <1>1, <1>9 DEF Base, Segment
  <2> HIDE DEF blocks
  <2> QED BY <2>1, <2>2
<1>12. DOMAIN mem = 0 .. 127
  BY <1>1 DEF Base, Segment
<1>13. Taken' /\ TableIn'
  <2>1. mem'[BOOT2_SEG] = mem[BOOT2_SEG]
    BY <1>11, <1>12 DEF BOOT2_SEG
  <2>2. TableIn'
    BY <1>1, <1>11, <1>12 DEF AtParse, TableIn, KERNEL_SEG, FATSz16
  <2> QED BY <1>1, <1>2, <2>1, <2>2, SameDisk DEF AtParse, Taken, Stage2, Sizes
<1>14. Base'
  BY <1>1, <1>2, <1>10, <1>11, SameDisk DEF Base, ReadsAreLegal, Reasons
<1>15. ASSUME HasChain
       PROVE  \/ next = EndOfChain /\ list' = Picked.chain
              \/ next \in Clusters /\ Along(Picked, 0)'
  <2>1. Picked \in Files(0) /\ Along(Picked, 0) /\ Picked.chain \in Seq(Clusters)
    BY <1>1, <1>15, PickedShape, FileShape DEF AtParse, Taken, Walk, HasChain
  <2>2. \/ next = EndOfChain /\ 0 + Len(list) + 1 = Len(Picked.chain)
        \/ next \in Clusters /\ Along(Picked, 0)'
    <3>1. regs'.ax = FatEntry(0, regs.ax) /\ 0 \in Nat /\ list \in Seq(Numbers) /\ disk' = disk
      BY <1>2, <1>3, <1>4, <1>6
    <3>2. PICK f \in Files(0) : f = Picked
      BY <2>1
    <3>3. \/ regs'.ax = EndOfChain /\ 0 + Len(list) + 1 = Len(f.chain)
          \/ regs'.ax \in Clusters /\ Along(f, 0)'
      BY <1>1, <1>2, <2>1, <3>1, <3>2, AlongStep, Zenon
    <3>4. Along(f, 0)' => Along(Picked, 0)'
      BY <1>2, <3>2, SameDisk DEF Along
    <3> QED BY <1>6, <3>2, <3>3, <3>4
  <2>3. ASSUME 0 + Len(list) + 1 = Len(Picked.chain) PROVE list' = Picked.chain
    <3>1. \A i \in DOMAIN list' : list'[i] = Picked.chain[i]
      BY <1>2, <1>3, <1>7, <2>1, <2>3 DEF Along
    <3>2. Len(list') = Len(Picked.chain)
      BY <1>3, <1>7, <2>3
    <3> QED BY <1>7, <2>1, <3>1, <3>2
  <2> QED BY <2>2, <2>3
<1>16. CASE next >= MAX_CLUSTERS
  <2>1. HasChain => list' = Picked.chain
    BY <1>15, <1>16, ClusterRange DEF MAX_CLUSTERS
  <2>2. Walked'
    BY <1>2, <1>7, <2>1, SameDisk DEF Walked, HasChain
  <2>3. regs' \in [ax : Nat, bx : Nat, cx : Nat]
    BY <1>0, <1>3, <1>6
  <2>4. AtRead'
    BY <1>3, <1>6, <1>7, <1>13, <2>2, <2>3 DEF AtRead, FileIn, KERNEL_SEG, Room, BOOT2_SEG
  <2> QED BY <1>10, <1>14, <1>16, <2>4 DEF LInv
<1>17. CASE ~(next >= MAX_CLUSTERS)
  <2>1. next # EndOfChain
    BY <1>17 DEF EndOfChain, MAX_CLUSTERS
  <2>2. \/ next \in Clusters /\ \E f \in Files(0) : \E k \in 0 .. Len(f.chain) : Along(f, k)'
        \/ next = 0 /\ Len(list') = 1
    <3>1. ASSUME NEW f \in Files(0), NEW k \in 0 .. Len(f.chain), Along(f, k)
          PROVE  next \in Clusters /\ Along(f, k)'
      BY <1>1, <1>2, <1>3, <1>4, <1>6, <2>1, <3>1, AlongStep
    <3>2. CASE list = << >>
      <4>1. CASE Holders(0, regs.ax) = {}
        <5>1. regs.ax \in Nat
          BY <1>3, NumberIsNat
        <5>2. next = IF regs.ax < 2 THEN EndOfChain - 15 * (1 - regs.ax) ELSE 0
          BY <1>4, <4>1, <5>1, EntryOfNoFile, Zenon
        <5>3. ~(regs.ax < 2)
          BY <1>17, <5>1, <5>2 DEF EndOfChain, MAX_CLUSTERS
        <5> QED BY <1>7, <3>2, <5>2, <5>3
      <4>2. CASE Holders(0, regs.ax) # {}
        <5>1. PICK f \in Files(0) : \E i \in DOMAIN f.chain : f.chain[i] = regs.ax
          BY <4>2 DEF Holders
        <5>2. PICK i \in DOMAIN f.chain : f.chain[i] = regs.ax
          BY <5>1
        <5>3. f.chain \in Seq(Clusters)
          BY <1>1, FileShape
        <5>4. i - 1 \in 0 .. Len(f.chain) /\ i - 1 + 0 + 1 = i
          BY <5>3
        <5>5. Along(f, i - 1)
          BY <3>2, <5>2, <5>3, <5>4 DEF Along
        <5> QED BY <3>1, <5>4, <5>5
      <4> QED BY <4>1, <4>2
    <3>3. CASE Len(list) = 1 /\ regs.ax = 0
      <4>1. Holders(0, 0) = {}
        <5> SUFFICES ASSUME NEW f \in Files(0), NEW i \in DOMAIN f.chain PROVE f.chain[i] # 0
          BY DEF Holders
        <5>1. f.chain[i] \in Clusters
          BY <1>1, FileShape
        <5> QED BY <5>1, ClusterIsNat
      <4>2. next = EndOfChain - 15 * (1 - 0)
        BY <1>4, <3>3, <4>1, EntryOfNoFile
      <4> QED BY <1>17, <4>2 DEF EndOfChain, MAX_CLUSTERS
    <3> QED BY <1>1, <3>1, <3>2, <3>3 DEF AtParse, Walk
  <2>3. regs' \in [ax : Numbers, bx : Nat, cx : Nat]
    BY <1>0, <1>3, <2>2 DEF Numbers
  <2>4. HasChain' => Along(Picked, 0)'
    BY <1>2, <1>15, <2>1, SameDisk DEF HasChain
  <2>5. \/ \E f \in Files(0)' : \E k \in 0 .. Len(f.chain) : Along(f, k)'
        \/ list' = << >>
        \/ Len(list') = 1 /\ regs'.ax = 0
    BY <1>2, <1>6, <2>2, SameDisk
  <2>6. Walk'
    BY <1>6, <1>7, <2>3, <2>4, <2>5 DEF Walk, KERNEL_SEG
  <2>7. AtParse'
    BY <1>13, <2>6 DEF AtParse
  <2> QED BY <1>10, <1>14, <1>17, <2>7 DEF LInv
<1> QED BY <1>16, <1>17

(***************************************************************************)
(* A cluster of the list is read to where it belongs; only the 55th is     *)
(* read over the loader.                                                   *)
(***************************************************************************)
LEMMA RegsRead ==
  ASSUME NEW r \in [ax : Nat, bx : Nat, cx : Nat]
  PROVE  [r EXCEPT !.bx = (@ + 1) % Segment, !.cx = @ - 1]
           = [ax |-> r.ax, bx |-> (r.bx + 1) % Segment, cx |-> r.cx - 1]
<1> DEFINE q == [r EXCEPT !.bx = (@ + 1) % Segment]
<1>1. q = [ax |-> r.ax, bx |-> (r.bx + 1) % Segment, cx |-> r.cx]
  OBVIOUS
<1>2. [r EXCEPT !.bx = (@ + 1) % Segment, !.cx = @ - 1] = [q EXCEPT !.cx = r.cx - 1]
  OBVIOUS
<1> HIDE DEF q
<1>3. [q EXCEPT !.cx = r.cx - 1] = [ax |-> r.ax, bx |-> (r.bx + 1) % Segment, cx |-> r.cx - 1]
  BY <1>1
<1> QED BY <1>2, <1>3

LEMMA ReadStep == ASSUME LInv, LoadFile_readClusters PROVE LInv'
<1> DEFINE n == Len(list) - regs.cx
           lba == list[n + 1] + 34
           chs == LBA2CHS(lba)
           bx == regs.bx
           blocks == [b \in bx .. bx + 1 - 1 |-> Sector(0, BiosLba(chs) + b - bx)]
<1>1. pc = "read" /\ AtRead /\ Base /\ DiskOK
  BY DEF LInv, LoadFile_readClusters, Base
<1>2. /\ list \in Seq(Numbers) /\ Len(list) \in Nat /\ regs.cx \in Nat
      /\ regs.cx >= 1 /\ regs.cx <= Len(list)
      /\ n \in Nat /\ n <= 54 /\ bx = 8 + n /\ FileIn(n)
      /\ regs \in [ax : Nat, bx : Nat, cx : Nat]
  BY <1>1 DEF AtRead, Walked, Room, KERNEL_SEG, BOOT2_SEG
<1>3. list[n + 1] \in Numbers /\ n + 1 \in 1 .. Len(list)
  BY <1>2
<1>4. Len(list) - regs.cx + 1 = n + 1 /\ list[n + 1] + DATA_SEC_OFFSET - 2 = lba
  <2>1. list[n + 1] \in Nat
    BY <1>3, NumberIsNat
  <2> QED BY <1>2, <2>1 DEF DATA_SEC_OFFSET, ROOT_DIR_SEC_OFFSET, ROOT_DIR_TOTAL_SECTORS, RsvdSecCnt, FATSz16
<1>5. lba \in 0 .. MAX_CLUSTERS - 1
  BY <1>3, NumberIsNat
<1>6. /\ Store(blocks, IF regs.cx = 1 THEN "info" ELSE "read")
      /\ request' = [chs |-> chs, count |-> 1, at |-> bx]
      /\ regs' = [regs EXCEPT !.bx = (@ + 1) % Segment, !.cx = @ - 1]
      /\ UNCHANGED <<disk, DrvNum, list, asked, stack>>
  BY <1>4, Zenon DEF LoadFile_readClusters, DriveReadSectors, DL
<1>7. regs' = [ax |-> regs.ax, bx |-> (bx + 1) % Segment, cx |-> regs.cx - 1]
  BY <1>2, <1>6, RegsRead
<1>8. BiosLba(chs) = lba /\ chs.head * SecPerTrk + chs.sector - 1 + 1 <= NumHeads * SecPerTrk
  BY <1>5, AddressRight
<1> HIDE DEF chs, lba, n, bx
<1>9. DOMAIN blocks = {8 + n} /\ blocks[8 + n] = Sector(0, lba)
  <2>1. bx .. bx + 1 - 1 = {8 + n} /\ lba + bx - bx = lba
    BY <1>2, <1>5
  <2> QED BY <1>2, <1>8, <2>1
<1>10. DOMAIN mem = 0 .. 127
  BY <1>1 DEF Base, Segment
<1>11. /\ DOMAIN mem' = 0 .. 127 /\ mem'[8 + n] = Sector(0, lba)
       /\ \A b \in 0 .. 127 : b # 8 + n => mem'[b] = mem[b]
  <2>1. mem' = [b \in DOMAIN mem |-> IF b \in DOMAIN blocks THEN blocks[b] ELSE mem[b]]
    BY <1>6 DEF Store
  <2>2. 8 + n \in 0 .. 127
    BY <1>2
  <2> HIDE DEF blocks
  <2> QED BY <1>9, <1>10, <2>1, <2>2
<1>12. ReadsAreLegal'
  <2>1. request'.chs = chs /\ request'.count = 1 /\ request'.at = bx
    BY <1>6
  <2>2. BiosLba(request'.chs) = lba /\ lba + 1 <= MAX_CLUSTERS
    BY <1>5, <1>8, <2>1 DEF MAX_CLUSTERS
  <2>3. request'.chs.head * SecPerTrk + request'.chs.sector - 1 + 1 <= NumHeads * SecPerTrk
    BY <1>8, <2>1
  <2> QED BY <1>2, <2>1, <2>2, <2>3 DEF ReadsAreLegal, Segment
<1>13. Running = {62, 63, 64}
  BY <1>1 DEF Running, Boot2Blocks, BOOT2_SEG, RsvdSecCnt
<1>14. CASE n = 54
  <2>1. pc' = "lost"
    <3>1. DOMAIN blocks \cap Running # {}
      BY <1>9, <1>13, <1>14
    <3> HIDE DEF blocks
    <3> QED BY <1>6, <3>1 DEF Store
  <2>2. Len(list) > 54
    BY <1>2, <1>14 DEF n
  <2>3. Base'
    BY <1>1, <1>6, <1>11, <1>12, <2>1, <2>2, SameDisk
       DEF Base, Segment, Reasons, Room, BOOT2_SEG, KERNEL_SEG
  <2> QED BY <2>1, <2>3, Stopped DEF Ended
<1>15. CASE n < 54
  <2>1. pc' = IF regs.cx = 1 THEN "info" ELSE "read"
    <3>1. DOMAIN blocks \cap Running = {}
      BY <1>2, <1>9, <1>13, <1>15
    <3> HIDE DEF blocks
    <3> QED BY <1>6, <3>1 DEF Store
  <2>2. Base'
    BY <1>1, <1>6, <1>11, <1>12, <2>1, SameDisk DEF Base, Segment, Reasons
  <2>3. Taken' /\ Walked'
    <3>1. mem'[62] = mem[62]
      BY <1>2, <1>11, <1>15
    <3> QED BY <1>1, <1>6, <3>1, SameDisk
            DEF AtRead, Taken, Stage2, BOOT2_SEG, Sizes, Walked, HasChain
  <2>4. \A i \in 1 .. n + 1 : mem'[8 + i - 1] = Sector(0, list[i] + DATA_SEC_OFFSET - 2)
    <3>1. \A i \in 1 .. n : mem[8 + i - 1] = Sector(0, list[i] + DATA_SEC_OFFSET - 2)
      BY <1>2 DEF FileIn, KERNEL_SEG
    <3>2. ASSUME NEW i \in 1 .. n + 1
          PROVE  mem'[8 + i - 1] = Sector(0, list[i] + DATA_SEC_OFFSET - 2)
      <4>1. CASE i = n + 1
        <5>1. 8 + i - 1 = 8 + n
          BY <1>2, <4>1
        <5> QED BY <1>4, <1>11, <4>1, <5>1
      <4>2. CASE i # n + 1
        <5>1. i \in 1 .. n /\ 8 + i - 1 \in 0 .. 127 /\ 8 + i - 1 # 8 + n
          BY <1>2, <4>2
        <5> QED BY <1>11, <3>1, <5>1
      <4> QED BY <4>1, <4>2
    <3> QED BY <3>2
  <2>5. (bx + 1) % Segment = 8 + (n + 1)
    BY <1>2, <1>15 DEF Segment
  <2>6. CASE regs.cx = 1
    <3>1. n + 1 = Len(list) /\ Len(list) <= 54
      BY <1>2, <1>15, <2>6 DEF n
    <3>2. FileIn(Len(list))'
      BY <1>6, <2>4, <3>1 DEF FileIn, KERNEL_SEG
    <3>3. AtInfo'
      BY <1>6, <2>3, <3>1, <3>2 DEF AtInfo, Room, BOOT2_SEG, KERNEL_SEG
    <3> QED BY <2>1, <2>2, <2>6, <3>3 DEF LInv
  <2>7. CASE regs.cx # 1
    <3>1. /\ regs'.cx = regs.cx - 1 /\ regs'.bx = 8 + (n + 1)
          /\ regs' \in [ax : Nat, bx : Nat, cx : Nat]
      BY <1>2, <1>7, <2>5, <2>7
    <3>2. Len(list) - (regs.cx - 1) = n + 1 /\ n + 1 <= 54 /\ regs.cx - 1 \in 1 .. Len(list)
      BY <1>2, <1>15, <2>7 DEF n
    <3>4. FileIn(Len(list) - regs.cx)'
      BY <1>6, <2>4, <3>1, <3>2 DEF FileIn, KERNEL_SEG
    <3>3. AtRead'
      BY <1>6, <2>3, <3>1, <3>2, <3>4 DEF AtRead, Room, BOOT2_SEG, KERNEL_SEG
    <3> QED BY <2>1, <2>2, <2>7, <3>3 DEF LInv
  <2> QED BY <2>6, <2>7
<1> QED BY <1>2, <1>14, <1>15

(***************************************************************************)
(* The structure for the kernel.                                           *)
(***************************************************************************)
LEMMA SysInfoStep == ASSUME LInv, StoreSysInfo PROVE LInv'
<1>1. pc = "info" /\ AtInfo /\ Base /\ DiskOK
  BY DEF LInv, StoreSysInfo, Base
<1> DEFINE blocks == [b \in {3} |-> SysInfo]
           size == 65536 * stack[1] + stack[2]
<1>2. /\ Store(blocks, "map")
      /\ info' = [NoInfo EXCEPT !.tot_mem = HighMemory + stack[3], !.kernel_size = size, !.boot_drive = DrvNum]
      /\ stack' = <<size>> /\ regs' = [di |-> 0, bp |-> 0]
      /\ UNCHANGED <<disk, DrvNum, list, asked, failed, request>>
  BY DEF StoreSysInfo, BOOT_RELOCATE_SEG
<1>3. Picked.size \in Nat
  BY <1>1, PickedShape DEF AtInfo, Taken, DirEntries
<1>4. size = Picked.size /\ stack[3] = LowMemory
  <2>1. stack[1] = Picked.size \div 65536 /\ stack[2] = Picked.size % 65536 /\ stack[3] = LowMemory
    BY <1>1 DEF AtInfo, Taken, Sizes
  <2>2. 65536 * (Picked.size \div 65536) + (Picked.size % 65536) = Picked.size
    BY <1>3
  <2> QED BY <2>1, <2>2
<1> HIDE DEF size
<1>5. info' = [tot_mem |-> HighMemory + LowMemory, kernel_size |-> Picked.size, boot_drive |-> DrvNum,
               entries |-> 0, marker |-> 0]
  BY <1>2, <1>4 DEF NoInfo
<1>6. pc' = "map"
  <2>1. DOMAIN blocks \cap Running = {}
    BY <1>1 DEF Running, Boot2Blocks, BOOT2_SEG, RsvdSecCnt
  <2> HIDE DEF blocks
  <2> QED BY <1>2, <2>1 DEF Store
<1>7. /\ DOMAIN mem' = 0 .. 127 /\ mem'[3] = SysInfo
      /\ \A b \in 0 .. 127 : b # 3 => mem'[b] = mem[b]
  <2>1. mem' = [b \in DOMAIN mem |-> IF b \in DOMAIN blocks THEN blocks[b] ELSE mem[b]]
    BY <1>2 DEF Store
  <2>2. DOMAIN mem = 0 .. 127
    BY <1>1 DEF Base, Segment
  <2> QED BY <2>1, <2>2
<1>8. Base'
  BY <1>1, <1>2, <1>6, <1>7, SameDisk DEF Base, ReadsAreLegal, Reasons, Segment
<1>9. HighMemory + LowMemory = LowMemory + HighMemory /\ HighMemory + LowMemory \in Nat
  BY FirmwareAssumption
<1>10. InfoIn'
  <2>1. Told'
    <3> DEFINE memory == HighMemory + LowMemory
    <3>1. memory \in Nat /\ memory = LowMemory + HighMemory
      BY <1>9
    <3>2. info' = [tot_mem |-> memory, kernel_size |-> Picked.size, boot_drive |-> DrvNum,
                   entries |-> 0, marker |-> 0]
      BY <1>5
    <3> HIDE DEF memory
    <3>3. Picked' = Picked /\ DrvNum' = DrvNum
      BY <1>2, SameDisk
    <3> QED BY <1>3, <3>1, <3>2, <3>3 DEF Told
  <2>2. mem'[62] = mem[62]
    BY <1>7
  <2>3. HasPicked'
    BY <1>1, <1>2, SameDisk DEF AtInfo, Taken
  <2> QED BY <1>1, <1>2, <1>7, <2>1, <2>2, <2>3
          DEF InfoIn, AtInfo, Taken, Stage2, BOOT2_SEG, BOOT_RELOCATE_SEG
<1>11. FileIn(Len(list))'
  <2>1. Len(list) \in Nat /\ Len(list) <= 54
    BY <1>1 DEF AtInfo, Walked, Room, KERNEL_SEG, BOOT2_SEG
  <2>2. ASSUME NEW i \in 1 .. Len(list)
        PROVE  mem'[8 + i - 1] = Sector(0, list[i] + DATA_SEC_OFFSET - 2)
    <3>1. 8 + i - 1 \in 0 .. 127 /\ 8 + i - 1 # 3
      BY <2>1
    <3>2. mem[8 + i - 1] = Sector(0, list[i] + DATA_SEC_OFFSET - 2)
      BY <1>1 DEF AtInfo, FileIn, KERNEL_SEG
    <3> QED BY <1>7, <3>1, <3>2
  <2> QED BY <1>2, <2>2 DEF FileIn, KERNEL_SEG
<1>12. Ready'
  BY <1>1, <1>2, <1>4, <1>10, <1>11, SameDisk DEF Ready, AtInfo, Walked, HasChain
<1>13. AtMap'
  BY <1>1, <1>2, <1>12, FirmwareAssumption DEF AtMap, AtInfo, Taken
<1> QED BY <1>6, <1>8, <1>13 DEF LInv

LEMMA ReadyStays ==
  ASSUME Ready, UNCHANGED <<disk, DrvNum, mem, list, stack, info>>
  PROVE  Ready'
BY SameDisk DEF Ready, InfoIn, Stage2, Told, Walked, HasChain, FileIn

LEMMA MapStep == ASSUME LInv, GetMemoryMap \/ GetMemoryMap_error PROVE LInv'
<1>1. pc = "map" /\ AtMap /\ Base
  BY DEF LInv, GetMemoryMap, GetMemoryMap_error
<1>2. UNCHANGED <<disk, DrvNum, mem, list, stack, info, request>> /\ pc' \in {"count", "map"}
  BY DEF GetMemoryMap, GetMemoryMap_error
<1>3. Base' /\ Ready'
  BY <1>1, <1>2, SameDisk, ReadyStays DEF Base, AtMap, ReadsAreLegal, Reasons
<1>4. CASE GetMemoryMap
  <2>1. /\ asked' = asked + 1 /\ failed' = failed
        /\ regs' \in {regs, [di |-> regs.di + 1, bp |-> regs.bp + 1]}
        /\ pc' = "map" => asked' < MaxRegions
    BY <1>4 DEF GetMemoryMap
  <2>2. /\ regs' \in [di : Nat, bp : Nat] /\ regs'.bp <= asked' /\ regs'.di = regs'.bp
        /\ asked' \in Nat /\ asked' <= MaxRegions
    BY <1>1, <2>1, FirmwareAssumption DEF AtMap
  <2>3. regs'.bp <= MaxRegions
    BY <2>2, FirmwareAssumption
  <2>4. pc' = "map" => AtMap'
    BY <1>3, <2>1, <2>2 DEF AtMap
  <2>5. pc' = "count" => AtCount'
    BY <1>3, <2>2, <2>3 DEF AtCount, Mapped
  <2> QED BY <1>2, <1>3, <2>4, <2>5 DEF LInv
<1>5. CASE GetMemoryMap_error
  <2>1. regs' = [regs EXCEPT !.bp = 0] /\ failed' = TRUE /\ pc' = "count"
    BY <1>5 DEF GetMemoryMap_error
  <2>2. regs' \in [di : Nat, bp : Nat] /\ regs'.bp <= MaxRegions
    BY <1>1, <2>1, FirmwareAssumption DEF AtMap
  <2>3. AtCount'
    BY <1>3, <2>1, <2>2 DEF AtCount, Mapped
  <2> QED BY <1>3, <2>1, <2>3 DEF LInv
<1> QED BY <1>4, <1>5

LEMMA CountStep == ASSUME LInv, EndSysInfo PROVE LInv'
<1>1. pc = "count" /\ AtCount /\ Base
  BY DEF LInv, EndSysInfo
<1>2. /\ UNCHANGED <<disk, DrvNum, mem, list, stack, regs, failed, request>> /\ pc' = "a20"
      /\ info' = [info EXCEPT !.entries = regs.bp % 256, !.marker = regs.di]
  BY DEF EndSysInfo, Counted
<1>3. regs.bp % 256 \in Nat /\ regs.di \in Nat
  BY <1>1 DEF AtCount, Mapped
<1>4. Told
  BY <1>1 DEF AtCount, Ready, InfoIn
<1>5. info' = [tot_mem |-> info.tot_mem, kernel_size |-> info.kernel_size, boot_drive |-> info.boot_drive,
               entries |-> regs.bp % 256, marker |-> regs.di]
  <2> DEFINE i == [info EXCEPT !.entries = regs.bp % 256]
  <2>1. i = [tot_mem |-> info.tot_mem, kernel_size |-> info.kernel_size, boot_drive |-> info.boot_drive,
             entries |-> regs.bp % 256, marker |-> info.marker]
    BY <1>4 DEF Told
  <2>2. info' = [i EXCEPT !.marker = regs.di]
    BY <1>2
  <2> HIDE DEF i
  <2> QED BY <2>1, <2>2
<1>6. Told'
  <2> DEFINE e == regs.bp % 256
             d == regs.di
  <2>1. e \in Nat /\ d \in Nat
    BY <1>3
  <2>2. info' = [tot_mem |-> info.tot_mem, kernel_size |-> info.kernel_size,
                 boot_drive |-> info.boot_drive, entries |-> e, marker |-> d]
    BY <1>5
  <2> HIDE DEF e, d
  <2>3. Picked' = Picked /\ DrvNum' = DrvNum
    BY <1>2, SameDisk
  <2> QED BY <1>4, <2>1, <2>2, <2>3 DEF Told
<1>7. Ready'
  BY <1>1, <1>2, <1>6, SameDisk DEF AtCount, Ready, InfoIn, Stage2, Walked, HasChain, FileIn
<1>8. Base'
  BY <1>1, <1>2, SameDisk DEF Base, ReadsAreLegal, Reasons
<1>9. AtGate'
  BY <1>1, <1>2, <1>5, <1>7 DEF AtGate, AtCount, Listed, Mapped
<1> QED BY <1>2, <1>8, <1>9 DEF LInv

LEMMA GateStep == ASSUME LInv, a20_enabled PROVE LInv'
<1>1. pc = "a20" /\ AtGate /\ Base
  BY DEF LInv, a20_enabled
<1>2. /\ UNCHANGED <<disk, DrvNum, mem, list, stack, info, regs, failed, a20, request>>
      /\ pc' = "copy"
  BY DEF a20_enabled
<1>3. a20
  BY DEF a20_enabled, GateA20, CheckGateA20
<1>4. Base'
  BY <1>1, <1>2, SameDisk DEF Base, ReadsAreLegal, Reasons
<1>5. AtCopy'
  BY <1>1, <1>2, <1>3, ReadyStays DEF AtCopy, AtGate, Listed, Mapped
<1> QED BY <1>2, <1>4, <1>5 DEF LInv

(***************************************************************************)
(* The copy takes as many blocks as the file has clusters.                 *)
(***************************************************************************)
LEMMA CopyStep == ASSUME LInv, main32 PROVE LInv'
<1>1. pc = "copy" /\ AtCopy /\ Base /\ DiskOK
  BY DEF LInv, main32, Base
<1>2. HasPicked /\ stack[1] = Picked.size
  BY <1>1 DEF AtCopy, AtGate, Ready, InfoIn
<1>3. Picked \in DirEntries /\ Picked.size \in Nat /\ Picked.chain \in Seq(Clusters)
  BY <1>1, <1>2, PickedShape DEF DirEntries
<1>4. Moved(Picked.size) = Picked.size
  BY <1>3 DEF Moved
<1> DEFINE blocks == {b \in 8 .. 127 : (b - 8) * 512 < Picked.size}
           copy == [i \in 1 .. Cardinality(blocks) |-> mem[8 + i - 1]]
<1>5. /\ pc' = "start"
      /\ UNCHANGED <<disk, DrvNum, mem, list, regs, info, failed, a20, request>>
      /\ himem' = [kernel |-> copy, bytes |-> Picked.size]
  <2>1. stack[1] = Picked.size /\ Moved(stack[1]) = Picked.size /\ a20
    BY <1>1, <1>2, <1>4 DEF AtCopy
  <2> QED BY <2>1 DEF main32, KERNEL_SEG, Segment, BytesPerSec
<1>6. ASSUME ~Picked.deleted PROVE copy = Sectors(0, Picked)
  <2> DEFINE n == Len(Picked.chain)
  <2>1. (Picked.size + 511) \div 512 = n /\ n \in Nat
    BY <1>1, <1>2, <1>3, <1>6, PickedShape
  <2>2. CASE n = 0
    <3>1. Picked.size = 0
      BY <1>3, <2>1, <2>2
    <3>2. blocks = {}
      BY <3>1
    <3>3. Cardinality(blocks) = 0
      BY <3>2, FS_EmptySet
    <3>4. DOMAIN Picked.chain = {} /\ 1 .. 0 = {}
      BY <1>3, <2>2
    <3> HIDE DEF blocks
    <3> QED BY <3>3, <3>4 DEF Sectors
  <2>3. CASE n > 0
    <3>1. HasChain /\ list = Picked.chain
      BY <1>1, <1>3, <1>6, <2>3 DEF HasChain, AtCopy, AtGate, Ready, Walked
    <3>2. n <= 54 /\ \A i \in 1 .. n : mem[8 + i - 1] = Sector(0, list[i] + DATA_SEC_OFFSET - 2)
      BY <1>1, <3>1 DEF AtCopy, AtGate, Ready, Room, BOOT2_SEG, KERNEL_SEG, FileIn
    <3>3. blocks = 8 .. 8 + n - 1
      <4>1. Picked.size <= 512 * n /\ Picked.size > 512 * (n - 1)
        BY <1>3, <2>1
      <4> HIDE DEF n
      <4>2. ASSUME NEW b \in 8 .. 127 PROVE (b - 8) * 512 < Picked.size <=> b <= 8 + n - 1
        BY <1>3, <2>1, <4>1
      <4> QED BY <2>1, <3>2, <4>2
    <3>4. Cardinality(blocks) = n
      <4>1. 8 \in Int /\ 8 + n - 1 \in Int
        BY <2>1
      <4>2. Cardinality(8 .. 8 + n - 1) = IF 8 > 8 + n - 1 THEN 0 ELSE (8 + n - 1) - 8 + 1
        BY <4>1, FS_Interval, Zenon
      <4> HIDE DEF blocks
      <4> QED BY <2>1, <2>3, <3>3, <4>2
    <3>5. DOMAIN Picked.chain = 1 .. n
      BY <1>3
    <3>6. ASSUME NEW i \in 1 .. n
          PROVE  mem[8 + i - 1] = Sector(0, 4 + 9 + 9 + 14 + Picked.chain[i] - 2)
      <4>1. Picked.chain[i] \in Nat
        BY <1>3, <3>5, ClusterIsNat
      <4>2. Picked.chain[i] + DATA_SEC_OFFSET - 2 = 4 + 9 + 9 + 14 + Picked.chain[i] - 2
        BY <4>1 DEF DATA_SEC_OFFSET, ROOT_DIR_SEC_OFFSET, ROOT_DIR_TOTAL_SECTORS, RsvdSecCnt, FATSz16
      <4> QED BY <3>1, <3>2, <4>2
    <3> HIDE DEF blocks, n
    <3> QED BY <3>4, <3>5, <3>6 DEF Sectors
  <2> QED BY <2>1, <2>2, <2>3
<1> HIDE DEF copy
<1>7. Base'
  BY <1>1, <1>5, SameDisk DEF Base, ReadsAreLegal, Reasons
<1>8. Whole'
  <2>1. Picked' = Picked
    BY <1>5, SameDisk
  <2> QED BY <1>5, <1>6, <2>1 DEF Whole, Sectors
<1>9. InfoIn' /\ Listed'
  BY <1>1, <1>5, SameDisk DEF AtCopy, AtGate, Ready, InfoIn, Stage2, Told, Listed, Mapped
<1> QED BY <1>5, <1>7, <1>8, <1>9 DEF LInv, AtStart

\* The kernel's checks fail only when the firmware has listed no memory.
LEMMA KernelStep == ASSUME LInv, _start_init PROVE LInv'
<1>1. pc = "start" /\ AtStart /\ Base
  BY DEF LInv, _start_init
<1>2. /\ UNCHANGED <<disk, DrvNum, mem, himem, list, regs, info, failed, a20, request>>
      /\ pc' = IF ChecksPass THEN "kernel" ELSE "panic"
  BY DEF _start_init
<1>3. AtStart'
  BY <1>1, <1>2, SameDisk DEF AtStart, InfoIn, Stage2, Told, Listed, Mapped, Whole, Sectors
<1>4. MaxRegions < 256 /\ ~ChecksPass => failed \/ regs.bp = 0
  <2> SUFFICES ASSUME MaxRegions < 256, ~failed, regs.bp # 0 PROVE ChecksPass
    OBVIOUS
  <2>1. /\ regs.bp \in Nat /\ regs.bp <= MaxRegions /\ regs.di = regs.bp
        /\ info.entries = regs.bp % 256 /\ info.marker = regs.di
        /\ mem[BOOT_RELOCATE_SEG] = SysInfo
    BY <1>1 DEF AtStart, Listed, Mapped, InfoIn
  <2>2. regs.bp % 256 = regs.bp
    BY <2>1, FirmwareAssumption
  <2> QED BY <2>1, <2>2 DEF ChecksPass
<1>5. Base'
  BY <1>1, <1>2, <1>4, SameDisk DEF Base, ReadsAreLegal, Reasons
<1> QED BY <1>2, <1>3, <1>5 DEF LInv

-----------------------------------------------------------------------------
LEMMA InitLInv == Init => LInv
<1> SUFFICES ASSUME Init PROVE LInv
  OBVIOUS
<1>1. DiskOK
  BY DEF Init, DiskOK
<1>2. DOMAIN mem = 0 .. Segment - 1
  BY DEF Init
<1>3. ReadsAreLegal
  <2>1. LBA2CHS(0).head = 0 /\ LBA2CHS(0).sector = 1 /\ BiosLba(LBA2CHS(0)) = 0
    BY DEF LBA2CHS, SecPerTrk, NumHeads, BiosLba
  <2>2. request.chs = LBA2CHS(0) /\ request.count = 1 /\ request.at = 62
    BY DEF Init, BOOT2_SEG
  <2> QED BY <2>1, <2>2 DEF ReadsAreLegal, SecPerTrk, NumHeads, Segment, MAX_CLUSTERS
<1>4. Reasons /\ pc = "main" /\ AtMain
  BY DEF Init, Reasons, AtMain
<1> QED BY <1>1, <1>2, <1>3, <1>4 DEF LInv, Base

LEMMA NextLInv ==
  ASSUME ListsFit
  PROVE  LInv /\ [Next]_vars => LInv'
<1> SUFFICES ASSUME LInv, [Next]_vars PROVE LInv'
  OBVIOUS
<1>1. CASE main(mem[BOOT2_SEG].drive) \/ ResetDrive
  BY <1>1, BootSectorStep
<1>2. CASE LoadBoot2 \/ LoadRootDirectory \/ RootDirFindFile \/ LoadFAT
  BY <1>2, LoadBoot2Step, LoadRootStep, FindStep, LoadFATStep
<1>3. CASE LoadFile_start \/ LoadFile_readClusters
  BY <1>3, ParseStep, ReadStep
<1>4. CASE StoreSysInfo \/ GetMemoryMap \/ GetMemoryMap_error \/ EndSysInfo
  BY <1>4, SysInfoStep, MapStep, CountStep
<1>5. CASE a20_enabled \/ main32 \/ _start_init
  BY <1>5, GateStep, CopyStep, KernelStep
<1>6. CASE \/ ResetDrive_error \/ DriveReadSectors_error \/ RootDirFindFile_missing
           \/ GetTotalMemorySize_error \/ EnableA20 \/ Stop
  BY <1>6, FailStep
<1>7. CASE UNCHANGED vars
  <2> USE <1>7 DEF vars
  <2>1. Picked' = Picked /\ HasPicked' = HasPicked /\ DiskOK' = DiskOK /\ Files(0)' = Files(0)
    BY SameDisk
  <2>2. Base => Base'
    BY <2>1 DEF Base, ReadsAreLegal, Reasons
  <2>3. (AtMain => AtMain') /\ (AtBoot => AtBoot') /\ Stage2' = Stage2 /\ Sizes' = Sizes
    BY <2>1 DEF AtMain, AtBoot, Sizes, Stage2
  <2>4. (AtRoot => AtRoot') /\ (AtFind => AtFind')
    BY <2>3 DEF AtRoot, AtFind
  <2>5. AtFat => AtFat'
    BY <2>1, <2>3 DEF AtFat, FirstCluster
  <2>6. Taken => Taken'
    BY <2>1, <2>3 DEF Taken
  <2>7. Walk => Walk'
    BY <2>1 DEF Walk, Along, HasChain
  <2>8. AtParse => AtParse'
    BY <2>6, <2>7 DEF AtParse, TableIn
  <2>9. Walked => Walked'
    BY <2>1 DEF Walked, HasChain
  <2>10. (AtRead => AtRead') /\ (AtInfo => AtInfo')
    BY <2>6, <2>9 DEF AtRead, AtInfo, FileIn
  <2>11. Ready => Ready'
    BY ReadyStays
  <2>12. (Mapped => Mapped') /\ (Listed => Listed')
    BY DEF Mapped, Listed
  <2>13. (AtMap => AtMap') /\ (AtCount => AtCount') /\ (AtGate => AtGate') /\ (AtCopy => AtCopy')
    BY <2>11, <2>12 DEF AtMap, AtCount, AtGate, AtCopy
  <2>14. AtStart => AtStart'
    BY <2>1, <2>3, <2>12 DEF AtStart, InfoIn, Told, Whole, Sectors
  <2> QED BY <2>2, <2>3, <2>4, <2>5, <2>8, <2>10, <2>13, <2>14 DEF LInv
<1> QED BY <1>1, <1>2, <1>3, <1>4, <1>5, <1>6, <1>7 DEF Next

LEMMA LoaderInvariance ==
  ASSUME ListsFit
  PROVE  Spec => []LInv
BY InitLInv, NextLInv, PTL DEF Spec

(***************************************************************************)
(* Whatever disk it is, however its files are scattered: the kernel starts *)
(* with the whole file the loader has picked, in order (FAT12.inc).        *)
(***************************************************************************)
THEOREM KernelArrivesWhole ==
  ASSUME ListsFit
  PROVE  Spec => []FileDelivered
<1>1. LInv => FileDelivered
  BY DEF LInv, AtStart, Whole, FileDelivered, Handed
<1> QED BY <1>1, LoaderInvariance, PTL

(***************************************************************************)
(* The structure at SYS_INFO_SEG tells the kernel its size, the memory and *)
(* the drive (boot2.asm).                                                  *)
(***************************************************************************)
THEOREM KernelIsToldRight ==
  ASSUME ListsFit
  PROVE  Spec => []InfoRight
<1>1. LInv => InfoRight
  BY DEF LInv, AtStart, InfoIn, Told, Stage2, InfoRight, Handed
<1> QED BY <1>1, LoaderInvariance, PTL

(***************************************************************************)
(* No read asks of int 13h what its callers must not ask, or for a sector  *)
(* beyond the disk, wherever the clusters lie (DriveReadSectors.inc:10).   *)
(***************************************************************************)
THEOREM BiosIsAskedRight ==
  ASSUME ListsFit
  PROVE  Spec => []ReadsAreLegal
<1>1. LInv => ReadsAreLegal
  BY DEF LInv, Base
<1> QED BY <1>1, LoaderInvariance, PTL

(***************************************************************************)
(* A machine that does not start its kernel has a reason, and a file that  *)
(* overwrites the loader is longer than 54 sectors, when the firmware's    *)
(* list is one whose length fits the byte that is stored (boot2.asm:111).  *)
(***************************************************************************)
THEOREM BootStopsForAReason ==
  ASSUME ListsFit, MaxRegions < 256
  PROVE  Spec => []StopsForAReason
<1>1. LInv => StopsForAReason
  BY DEF LInv, Base, Reasons, StopsForAReason, Room
<1> QED BY <1>1, LoaderInvariance, PTL
=============================================================================
