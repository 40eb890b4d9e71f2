------------------------------- MODULE Loader -------------------------------
(***************************************************************************)
(* The boot loader, from the boot sector the BIOS loads (floppy.asm) over  *)
(* the second stage (boot2.asm and its includes) to the checks of the      *)
(* kernel's entry point (_start.c).  Memory is counted in blocks of one    *)
(* sector; a block holds a sector of a disk, or something the loader       *)
(* itself has put there.  The numbers are the ones of the source.          *)
(***************************************************************************)
EXTENDS Integers, Sequences, FiniteSets

CONSTANTS
  Directories, \* root directories a disk may have: sequences of entries
               \* [attr, kernel, deleted, chain, size]
  Second,      \* the root directory of the disk in drive 1
  BootDrives,  \* the drives the BIOS may boot from
  MaxRegions,  \* how many times int 15h E820h answers at most
  LowMemory,   \* int 12h: the memory below 1 MB, in KB
  HighMemory   \* int 15h E801h: the memory above it, in KB

ASSUME DriveAssumption == BootDrives \subseteq {0, 1}
ASSUME FirmwareAssumption ==
  /\ MaxRegions \in Nat \ {0}
  /\ {LowMemory, HighMemory} \subseteq Nat

-----------------------------------------------------------------------------
(***************************************************************************)
(* The geometry of the disk and the layout of the memory.                  *)
(***************************************************************************)
BytesPerSec == 512
SecPerTrk == 18
NumHeads == 2
RsvdSecCnt == 4
FATSz16 == 9
ROOT_DIR_SEC_OFFSET == RsvdSecCnt + 2 * FATSz16
ROOT_DIR_TOTAL_SECTORS_Rounded == 15
ROOT_DIR_TOTAL_SECTORS == 14
DATA_SEC_OFFSET == ROOT_DIR_SEC_OFFSET + ROOT_DIR_TOTAL_SECTORS
MAX_CLUSTERS == 2880
KERNEL_FILENAME_ATTRIB == 7

Segment == 128         \* blocks a 16 bit offset reaches
BOOT_RELOCATE_SEG == 3 \* 0x600, then FAT_BUFFER_SEG, then SYS_INFO_SEG
KERNEL_SEG == 8        \* 0x1000: root directory, then FAT, then kernel
BOOT2_SEG == 62        \* 0x7C00: the boot sector, then the second stage
Boot2Blocks == BOOT2_SEG .. BOOT2_SEG + RsvdSecCnt - 2

(***************************************************************************)
(* The disks that are spoken of: clusters lie on the disk, a file has as   *)
(* many as its size needs, and no cluster belongs to two files or twice to *)
(* one.  A deleted entry keeps its first cluster, whoever has it now.      *)
(***************************************************************************)
Clusters == 2 .. MAX_CLUSTERS - DATA_SEC_OFFSET + 1
DirEntries ==
  [attr : Nat, kernel : BOOLEAN, deleted : BOOLEAN, chain : Seq(Clusters), size : Nat]

WellFormed(d) ==
  /\ d \in Seq(DirEntries)
  /\ \A i \in DOMAIN d :
       ~d[i].deleted => (d[i].size + BytesPerSec - 1) \div BytesPerSec = Len(d[i].chain)
  /\ \A i, j \in DOMAIN d : ~d[i].deleted /\ ~d[j].deleted =>
       \A k \in DOMAIN d[i].chain, l \in DOMAIN d[j].chain :
         d[i].chain[k] = d[j].chain[l] => i = j /\ k = l

ASSUME DiskAssumption == \A d \in Directories : WellFormed(d)

Sector(drive, lba) == [drive |-> drive, lba |-> lba]
Junk == Sector(-1, 0)
List == Sector(-1, 1)
SysInfo == Sector(-1, 2)

NoInfo == [tot_mem |-> 0, kernel_size |-> 0, boot_drive |-> 0, entries |-> 0, marker |-> 0]

VARIABLES
  pc,
  disk,    \* the root directory of the disk in each drive
  DrvNum,  \* what the loader keeps as the drive it was loaded from
  mem,     \* the first 64 KB
  himem,   \* what is at KERNEL_HIMEM
  stack,   \* the words on the stack, top first
  regs,    \* ax, bx and cx of LoadFile; DI and BP of GetMemoryMap
  list,    \* the words stored at FAT_BUFFER_SEG
  info,    \* the structure at SYS_INFO_SEG; marker: entries before end_marker
  a20,     \* whether address line 20 is let through
  asked,   \* how often E820h has answered
  failed,  \* a service of the BIOS has failed (history)
  request  \* the last int 13h read (history)

vars == <<pc, disk, DrvNum, mem, himem, stack, regs, list, info, a20, asked, failed, request>>

-----------------------------------------------------------------------------
(***************************************************************************)
(* The disk: its allocation table, entry by entry and byte by byte, and    *)
(* the sector a cylinder, head and sector number stand for.                *)
(***************************************************************************)
Files(drive) == {disk[drive][i] : i \in {j \in DOMAIN disk[drive] : ~disk[drive][j].deleted}}

EndOfChain == 4095

Holders(drive, n) == {f \in Files(drive) : \E i \in DOMAIN f.chain : f.chain[i] = n}

After(file, n) == LET i == CHOOSE j \in DOMAIN file.chain : file.chain[j] = n
                  IN IF i = Len(file.chain) THEN EndOfChain ELSE file.chain[i + 1]

FatEntry(drive, n) ==
  CASE n < 2 -> EndOfChain - 15 * (1 - n)
    [] n >= 2 /\ Holders(drive, n) = {} -> 0
    [] n >= 2 /\ Holders(drive, n) # {} -> After(CHOOSE f \in Holders(drive, n) : TRUE, n)

FatByte(drive, k) ==
  LET even == FatEntry(drive, 2 * (k \div 3))
      odd == FatEntry(drive, 2 * (k \div 3) + 1)
  IN CASE k % 3 = 0 -> even % 256
       [] k % 3 = 1 -> even \div 256 + 16 * (odd % 16)
       [] k % 3 = 2 -> odd \div 16

BiosLba(chs) == (chs.cylinder * NumHeads + chs.head) * SecPerTrk + chs.sector - 1

(***************************************************************************)
(* LBA2CHS.  It also leaves 0 in DL, the drive of the next int 13h.        *)
(***************************************************************************)
LBA2CHS(lba) == [cylinder |-> (lba \div (SecPerTrk * NumHeads)) % 256,
                 head |-> (lba \div SecPerTrk) % NumHeads,
                 sector |-> (lba % SecPerTrk) + 1]
DL == 0

-----------------------------------------------------------------------------
Ended == {"kernel", "panic", "reboot", "halted", "lost"}

(***************************************************************************)
(* Storing into memory.  A loader that overwrites the stage that runs does *)
(* not know what it does next.                                             *)
(***************************************************************************)
Running == IF pc = "boot2" THEN {BOOT_RELOCATE_SEG} ELSE Boot2Blocks

Store(blocks, next) ==
  /\ mem' = [b \in DOMAIN mem |-> IF b \in DOMAIN blocks THEN blocks[b] ELSE mem[b]]
  /\ pc' = IF DOMAIN blocks \cap Running = {} THEN next ELSE "lost"

BootFailure == /\ pc' = "reboot"
               /\ UNCHANGED <<disk, DrvNum, mem, himem, stack, regs, list, info, a20, asked>>

(***************************************************************************)
(* int 13h, AH = 02h.  Too few sectors, like an error, end in BootFailure. *)
(***************************************************************************)
DriveReadSectors(drive, chs, count, at, next) ==
  /\ Store([b \in at .. at + count - 1 |-> Sector(drive, BiosLba(chs) + b - at)], next)
  /\ request' = [chs |-> chs, count |-> count, at |-> at]
  /\ UNCHANGED <<disk, DrvNum, himem, list, info, a20, asked, failed>>

DriveReadSectors_error ==
  /\ pc \in {"boot2", "root", "fat", "read"}
  /\ failed' = TRUE
  /\ BootFailure /\ UNCHANGED request

-----------------------------------------------------------------------------
(***************************************************************************)
(* The boot sector.                                                        *)
(***************************************************************************)
main(drive) ==
  /\ pc = "main"
  /\ mem' = [mem EXCEPT ![BOOT_RELOCATE_SEG] = mem[BOOT2_SEG]]
  /\ DrvNum' = drive
  /\ stack' = <<LowMemory>>
  /\ pc' = "reset"
  /\ UNCHANGED <<disk, himem, regs, list, info, a20, asked, failed, request>>

ResetDrive ==
  /\ pc = "reset"
  /\ pc' = "boot2"
  /\ UNCHANGED <<disk, DrvNum, mem, himem, stack, regs, list, info, a20, asked, failed, request>>

ResetDrive_error == pc = "reset" /\ failed' = TRUE /\ BootFailure /\ UNCHANGED request

LoadBoot2 ==
  /\ pc = "boot2"
  /\ DriveReadSectors(DrvNum, [cylinder |-> 0, head |-> 0, sector |-> 2],
                      RsvdSecCnt - 1, BOOT2_SEG, "root")
  /\ UNCHANGED <<stack, regs>>

(***************************************************************************)
(* The second stage: find the file ...                                     *)
(***************************************************************************)
LoadRootDirectory ==
  /\ pc = "root"
  /\ DriveReadSectors(DL, LBA2CHS(ROOT_DIR_SEC_OFFSET), ROOT_DIR_TOTAL_SECTORS, KERNEL_SEG, "find")
  /\ UNCHANGED <<stack, regs>>

\* The name is not compared: "repe stosb" stores, and leaves the flags alone.
Candidates(entries) == {i \in DOMAIN entries : entries[i].attr = KERNEL_FILENAME_ATTRIB}

FirstCluster(file) == IF file.chain = << >> THEN 0 ELSE file.chain[1]

Pushed_Swapped(file) == <<FirstCluster(file), file.size % 65536, file.size \div 65536>>
Pushed(file) == <<FirstCluster(file), file.size \div 65536, file.size % 65536>>

RootDirFindFile ==
  LET entries == disk[mem[KERNEL_SEG].drive]
      found == Candidates(entries)
  IN /\ pc = "find"
     /\ found # {}
     /\ stack' = Pushed(entries[CHOOSE i \in found : \A j \in found : i <= j]) \o stack
     /\ pc' = "fat"
     /\ UNCHANGED <<disk, DrvNum, mem, himem, regs, list, info, a20, asked, failed, request>>

RootDirFindFile_missing ==
  /\ pc = "find"
  /\ Candidates(disk[mem[KERNEL_SEG].drive]) = {}
  /\ BootFailure /\ UNCHANGED <<failed, request>>

(***************************************************************************)
(* ... walk its chain through the allocation table, which takes the place  *)
(* of the root directory ...                                               *)
(***************************************************************************)
LoadFAT ==
  /\ pc = "fat"
  /\ DriveReadSectors(DL, LBA2CHS(RsvdSecCnt), FATSz16, KERNEL_SEG, "parse")
  /\ regs' = [ax |-> stack[1], bx |-> KERNEL_SEG, cx |-> 0]
  /\ stack' = Tail(stack)

Byte(k) ==
  LET s == mem[KERNEL_SEG + k \div BytesPerSec]
  IN FatByte(s.drive, (s.lba - RsvdSecCnt) * BytesPerSec + (k % BytesPerSec))
Word(k) == Byte(k) + 256 * Byte(k + 1)

NextCluster_Even(n) == Word(n + n \div 2) % 4096
NextCluster(n) == LET w == Word(n + n \div 2)
                  IN IF n % 2 = 1 THEN w \div 16 ELSE w % 4096

LoadFile_start ==
  LET next == NextCluster(regs.ax)
  IN /\ pc = "parse"
     /\ list' = Append(list, regs.ax)
     /\ Store([b \in {BOOT_RELOCATE_SEG + (2 * Len(list)) \div BytesPerSec} |-> List],
              IF next >= MAX_CLUSTERS THEN "read" ELSE "parse")
     /\ regs' = [regs EXCEPT !.ax = next, !.cx = @ + 1]
     /\ UNCHANGED <<disk, DrvNum, himem, stack, info, a20, asked, failed, request>>

(***************************************************************************)
(* ... and read it, a cluster at a time, over the allocation table.        *)
(***************************************************************************)
LoadFile_readClusters ==
  /\ pc = "read"
  /\ DriveReadSectors(DL, LBA2CHS(list[Len(list) - regs.cx + 1] + DATA_SEC_OFFSET - 2), 1, regs.bx,
                      IF regs.cx = 1 THEN "info" ELSE "read")
  /\ regs' = [regs EXCEPT !.bx = (@ + 1) % Segment, !.cx = @ - 1]
  /\ UNCHANGED stack

(***************************************************************************)
(* The structure for the kernel, over the list of clusters.                *)
(***************************************************************************)
StoreSysInfo ==
  LET size == 65536 * stack[1] + stack[2]
  IN /\ pc = "info"
     /\ Store([b \in {BOOT_RELOCATE_SEG} |-> SysInfo], "map")
     /\ info' = [NoInfo EXCEPT !.tot_mem = HighMemory + stack[3], !.kernel_size = size, !.boot_drive = DrvNum]
     /\ stack' = <<size>>
     /\ regs' = [di |-> 0, bp |-> 0]
     /\ UNCHANGED <<disk, DrvNum, himem, list, a20, asked, failed, request>>

GetTotalMemorySize_error == pc = "info" /\ failed' = TRUE /\ BootFailure /\ UNCHANGED request

(***************************************************************************)
(* int 15h E820h: an entry, an empty one, or an error, which also is how   *)
(* some machines say that there are no more.                               *)
(***************************************************************************)
GetMemoryMap ==
  /\ pc = "map"
  /\ asked' = asked + 1
  /\ regs' \in {regs, [di |-> regs.di + 1, bp |-> regs.bp + 1]}
  /\ pc' \in {"count"} \cup (IF asked' < MaxRegions THEN {"map"} ELSE {})
  /\ UNCHANGED <<disk, DrvNum, mem, himem, stack, list, info, a20, failed, request>>

GetMemoryMap_error ==
  /\ pc = "map"
  /\ regs' = [regs EXCEPT !.bp = 0]
  /\ failed' = TRUE
  /\ pc' = "count"
  /\ UNCHANGED <<disk, DrvNum, mem, himem, stack, list, info, a20, asked, request>>

Counted(r) == [entries |-> r.bp % 256, marker |-> r.di]

EndSysInfo ==
  /\ pc = "count"
  /\ info' = [info EXCEPT !.entries = Counted(regs).entries, !.marker = Counted(regs).marker]
  /\ pc' = "a20"
  /\ UNCHANGED <<disk, DrvNum, mem, himem, stack, regs, list, a20, asked, failed, request>>

(***************************************************************************)
(* The gate of address line 20: write 0 at 0:0500h and FFh 1 MB above it,  *)
(* and see what 0:0500h holds.  EnableA20 halts.                           *)
(***************************************************************************)
CheckGateA20 == IF a20 THEN 0 ELSE 255

GateA20_Inverted == CheckGateA20 = 255
GateA20 == CheckGateA20 # 255

a20_enabled ==
  /\ pc = "a20" /\ GateA20
  /\ pc' = "copy"
  /\ UNCHANGED <<disk, DrvNum, mem, himem, stack, regs, list, info, a20, asked, failed, request>>

EnableA20_Again ==
  /\ pc = "a20" /\ ~GateA20
  /\ UNCHANGED vars

EnableA20 ==
  /\ pc = "a20" /\ ~GateA20
  /\ pc' = "halted"
  /\ UNCHANGED <<disk, DrvNum, mem, himem, stack, regs, list, info, a20, asked, failed, request>>

(***************************************************************************)
(* Protected mode: after a key, double words and then bytes of the kernel  *)
(* go to KERNEL_HIMEM, and the kernel starts.  A size beyond the 64 KB of  *)
(* the model copies what the model knows.                                  *)
(***************************************************************************)
Moved(size) == 4 * (size \div 4) + (size % 4)

main32 ==
  LET blocks == {b \in KERNEL_SEG .. Segment - 1 : (b - KERNEL_SEG) * BytesPerSec < Moved(stack[1])}
  IN /\ pc = "copy"
     /\ himem' = IF a20 THEN [kernel |-> [i \in 1 .. Cardinality(blocks) |-> mem[KERNEL_SEG + i - 1]],
                              bytes |-> Moved(stack[1])]
                        ELSE himem
     /\ stack' = << >>
     /\ pc' = "start"
     /\ UNCHANGED <<disk, DrvNum, mem, regs, list, info, a20, asked, failed, request>>

(***************************************************************************)
(* The checks of _start_init and _start_boot_info.                         *)
(***************************************************************************)
ChecksPass == /\ mem[BOOT_RELOCATE_SEG] = SysInfo
              /\ info.marker = info.entries
              /\ info.entries >= 1

_start_init ==
  /\ pc = "start"
  /\ pc' = IF ChecksPass THEN "kernel" ELSE "panic"
  /\ UNCHANGED <<disk, DrvNum, mem, himem, stack, regs, list, info, a20, asked, failed, request>>

-----------------------------------------------------------------------------
Init ==
  /\ \E first \in Directories : disk = [drive \in {0, 1} |-> IF drive = 0 THEN first ELSE Second]
  /\ \E drive \in BootDrives :
       mem = [b \in 0 .. Segment - 1 |-> IF b = BOOT2_SEG THEN Sector(drive, 0) ELSE Junk]
  /\ a20 \in BOOLEAN
  /\ pc = "main" /\ DrvNum = 0
  /\ himem = [kernel |-> << >>, bytes |-> 0]
  /\ stack = << >> /\ list = << >>
  /\ regs = [ax |-> 0, bx |-> 0, cx |-> 0]
  /\ info = NoInfo
  /\ asked = 0 /\ failed = FALSE
  /\ request = [chs |-> LBA2CHS(0), count |-> 1, at |-> BOOT2_SEG]

Stop == pc \in Ended /\ UNCHANGED vars

Next ==
  \/ main(mem[BOOT2_SEG].drive) \/ ResetDrive \/ LoadBoot2
  \/ LoadRootDirectory \/ RootDirFindFile
  \/ LoadFAT \/ LoadFile_start \/ LoadFile_readClusters
  \/ StoreSysInfo \/ GetMemoryMap \/ EndSysInfo
  \/ a20_enabled \/ EnableA20 \/ main32 \/ _start_init
  \/ ResetDrive_error \/ DriveReadSectors_error \/ RootDirFindFile_missing
  \/ GetTotalMemorySize_error \/ GetMemoryMap_error
  \/ Stop

\* The loader never waits, but for the user's key; interrupts do not delay it for ever.
Spec == Init /\ [][Next]_vars /\ WF_vars(Next)

-----------------------------------------------------------------------------
Entries == disk[0]
Picked == LET found == {i \in DOMAIN Entries : Entries[i].attr = KERNEL_FILENAME_ATTRIB}
          IN Entries[CHOOSE i \in found : \A j \in found : i <= j]
Sectors(drive, file) == [i \in DOMAIN file.chain |-> Sector(drive, 4 + 9 + 9 + 14 + file.chain[i] - 2)]
HasPicked == \E i \in DOMAIN Entries : Entries[i].attr = KERNEL_FILENAME_ATTRIB
Handed == pc \in {"start", "kernel"}

TypeOK ==
  /\ pc \in Ended \cup {"main", "reset", "boot2", "root", "find", "fat", "parse", "read", "info", "map",
                         "count", "a20", "copy", "start"}
  /\ DrvNum \in {0, 1} /\ a20 \in BOOLEAN /\ failed \in BOOLEAN
  /\ DOMAIN mem = 0 .. Segment - 1
  /\ \A b \in DOMAIN mem : mem[b].drive \in -1 .. 1 /\ mem[b].lba \in 0 .. MAX_CLUSTERS - 1
  /\ \A i \in DOMAIN list : list[i] \in 0 .. MAX_CLUSTERS - 1
  /\ info.entries \in 0 .. 255 /\ info.marker \in 0 .. MaxRegions
  /\ asked \in 0 .. MaxRegions

(***************************************************************************)
(* The kernel starts with every sector of the file the loader has picked,  *)
(* in the order of its chain, and no byte short: the walk of the table     *)
(* ends before the table is overwritten (README.md:109).                   *)
(***************************************************************************)
FileDelivered == Handed /\ ~Picked.deleted =>
  himem = [kernel |-> Sectors(0, Picked), bytes |-> Picked.size]

(***************************************************************************)
(* The structure the kernel finds says how large the kernel is, how much   *)
(* memory there is and from which drive it came, for words that went       *)
(* through the stack of two stages.                                        *)
(***************************************************************************)
InfoRight == Handed =>
  /\ info.kernel_size = Picked.size
  /\ info.tot_mem = LowMemory + HighMemory
  /\ mem[BOOT2_SEG] = Sector(info.boot_drive, 1)

(***************************************************************************)
(* What int 13h asks of a caller (DriveReadSectors.inc:10): not across a   *)
(* cylinder, fewer than 128 sectors, not across the segment; and sectors   *)
(* that are on the disk (TotSec16).                                        *)
(***************************************************************************)
ReadsAreLegal ==
  /\ request.count \in 1 .. 127
  /\ request.at + request.count <= Segment
  /\ request.chs.head * SecPerTrk + request.chs.sector - 1 + request.count <= NumHeads * SecPerTrk
  /\ BiosLba(request.chs) + request.count <= MAX_CLUSTERS

(***************************************************************************)
(* A machine that does not start its kernel has a reason: the BIOS failed, *)
(* there is no such file, line 20 is off, the firmware lists no memory, or *)
(* the file reaches from KERNEL_SEG into the loader.                       *)
(***************************************************************************)
StopsForAReason ==
  /\ pc = "reboot" => failed \/ ~HasPicked
  /\ pc = "halted" => ~a20
  /\ pc = "panic" => failed \/ regs.bp = 0
  /\ pc = "lost" => Len(list) > BOOT2_SEG - KERNEL_SEG

\* One way or the other the loader comes to an end.
BootEnds == <>(pc \in Ended)

(***************************************************************************)
(* The file the kernel is started from is the one named BROSKRNL.SYS       *)
(* (README.md:122).                                                        *)
(***************************************************************************)
KernelDelivered == Handed => \E f \in Files(0) : f.kernel /\ himem.kernel = Sectors(0, f)

(***************************************************************************)
(* The kernel is read from the drive the machine was booted from, which    *)
(* boot2.asm:40 hands in DL, as FAT12.inc:55 asks.                         *)
(***************************************************************************)
KernelFromBootDrive == Handed => \A i \in DOMAIN himem.kernel : himem.kernel[i].drive = info.boot_drive
=============================================================================
