---------------------------- MODULE Floppy_proofs ----------------------------
(***************************************************************************)
(* For every geometry, number of tries, set of drives and of calls, with   *)
(* drives that fail and a controller that misses bytes: the floppy driver  *)
(* and its controller stay in step, no interrupt is mistaken for another,  *)
(* and a sector that arrives is the one asked for, where it was asked for. *)
(***************************************************************************)
EXTENDS Floppy, TLAPS

\* The places a wait for the interrupt leads to, and the command waited for.
Awaited == {"sense", "calibrated", "sought", "results"}
CmdOf(p) == IF p = "sense" THEN "reset" ELSE IF p = "calibrated" THEN "calibrate"
            ELSE IF p = "sought" THEN "seek" ELSE "read"

(***************************************************************************)
(* The types, part by part.                                                *)
(***************************************************************************)
DriverOK == /\ pc \in Pcs /\ next \in Pcs \cup {"none"}
            /\ left \subseteq Drives /\ result \in Buffers \cup {NULL, NotCalled}
Repeats == IF TRIES > 4 THEN TRIES ELSE 4
JobOK == job \in [op : {"init", "read"}, drive : Drives \cup {0}, lba : Lbas \cup {0},
                  i : 0..(Repeats - 1)]
FlagsOK == /\ g_fdc_irq \in BOOLEAN /\ lineUp \in BOOLEAN /\ irq6 \in BOOLEAN
           /\ gate \in BOOLEAN /\ dropped \in BOOLEAN
BufferOK == g_pDmaBuf \in Buffers /\ dma \in Channels

DeviceRecords == [phase : {"idle", "busy", "result", "partial"},
                  cmd : {"none", "reset", "calibrate", "seek", "read"},
                  drive : Drives \cup {0}, cyl : Nat, lba : Nat]
DeviceOK == /\ dev \in DeviceRecords /\ unsensed \in 0..4 /\ motors \subseteq Drives
            /\ at \in [Drives -> 0..(Cylinders - 1)]

\* Where only fdc_init gets to.
Starting == {"boot", "reset", "sense", "specify", "calibrate", "calibrated", "motor_off",
             "failed", "reset_done"}

(***************************************************************************)
(* The control flow: where waits and sleeps lead, how far the loops are,   *)
(* and that no call has ended before fdc_init has.                         *)
(***************************************************************************)
FlowInv ==
  /\ pc \in {"wait", "clear"} => next \in Awaited
  /\ pc = "sleep" => next \in {"calibrate", "seek", "reset_done", "failed", "read_done"}
  /\ pc = "motor_off" => next \in {"reset_done", "failed"}
  /\ pc \in {"boot", "reset"} => left # {}
  /\ pc \notin {"boot", "reset"} => job.drive \in Drives
  /\ Place \in {"motor_on", "calibrate", "calibrated", "seek", "sought"} => job.i < TRIES
  /\ Place = "sense" => job.i < 4
  /\ pc \in {"wait", "clear"} /\ next = "sense" => job.i = 0
  /\ Place \in Starting \/ (pc = "motor_on" /\ job.op = "init") => result = NotCalled

(***************************************************************************)
(* One interrupt at a time, from the command to the test of the flag.      *)
(***************************************************************************)
IrqInv ==
  /\ dev.phase = "busy" => pc = "wait" /\ ~g_fdc_irq /\ ~irq6
  /\ irq6 => pc = "wait" /\ ~g_fdc_irq
  /\ g_fdc_irq => pc \in {"wait", "clear"}

(***************************************************************************)
(* The command being executed is the one whose interrupt is waited for,    *)
(* for the drive, the sector and the buffer of this call.                  *)
(***************************************************************************)
CommandInv ==
  dev.phase = "busy" =>
    /\ dev.cmd = CmdOf(next)
    /\ dev.cmd # "reset" => dev.drive = job.drive
    /\ dev.cmd = "read" =>
         /\ dev.lba = LbaAt(TrackByte(job.lba), HeadOf(job.lba), SectorOf(job.lba))
         /\ \E c \in Channels : dma = ProgramDma(c, g_pDmaBuf, Counted(SECTOR_SIZE))

(***************************************************************************)
(* As long as no byte is dropped: how many statuses are left to read.      *)
(***************************************************************************)
ToSense == IF dev.phase = "busy" THEN 0
           ELSE IF Place = "sense" THEN 4 - job.i
           ELSE IF Place \in {"calibrated", "sought"} THEN 1 ELSE 0

TurnInv == ~dropped /\ pc # "panic" =>
  /\ dev.phase # "partial"
  /\ dev.phase = "result" => Place = "results"
  /\ unsensed = ToSense
  /\ lineUp => Place \in Awaited /\ dev.phase # "busy"

MotorInv ==
  /\ Place \in {"calibrate", "calibrated", "seek", "sought", "transfer", "results"}
       => motors = {job.drive} /\ gate
  /\ Place \in {"reset_done", "failed", "read_done"} => motors = {}
  /\ MotorsOff

FInv == /\ DriverOK /\ JobOK /\ FlagsOK /\ BufferOK /\ DeviceOK
        /\ FlowInv /\ IrqInv /\ CommandInv /\ TurnInv /\ MotorInv

-----------------------------------------------------------------------------
(***************************************************************************)
(* Division by a constant of the model.                                    *)
(***************************************************************************)
LEMMA Division ==
  ASSUME NEW n \in Nat, NEW k \in Nat \ {0}
  PROVE  /\ n \div k \in Nat /\ n % k \in 0..(k - 1)
         /\ n = k * (n \div k) + (n % k)
OBVIOUS

LEMMA AtLeastOnce ==
  ASSUME NEW k \in Nat, NEW x \in Int, x >= 1
  PROVE  k * x >= k
<1>1. k * (x - 1) >= 0
  OBVIOUS
<1>2. k * x = k * (x - 1) + k
  OBVIOUS
<1> QED BY <1>1, <1>2

LEMMA Quotient ==
  ASSUME NEW k \in Nat \ {0}, NEW q \in Nat, NEW r \in 0..(k - 1)
  PROVE  (k * q + r) \div k = q /\ (k * q + r) % k = r
<1> DEFINE n == k * q + r
           p == n \div k
           s == n % k
<1>0. n \in Nat /\ n = k * q + r
  OBVIOUS
<1> HIDE DEF n
<1>1. p \in Nat /\ s \in 0..(k - 1) /\ n = k * p + s
  BY <1>0, Division
<1> HIDE DEF p, s
<1>2. k * (p - q) = r - s /\ k * (q - p) = s - r
  BY <1>0, <1>1
<1>3. ~(p - q >= 1)
  BY <1>1, <1>2, AtLeastOnce
<1>4. ~(q - p >= 1)
  BY <1>1, <1>2, AtLeastOnce
<1>5. p = q
  BY <1>1, <1>3, <1>4
<1>6. r = s
  BY <1>0, <1>1, <1>5
<1> QED BY <1>5, <1>6 DEF n, p, s

LEMMA SmallRemainder ==
  ASSUME NEW k \in Nat \ {0}, NEW n \in Nat, n < k
  PROVE  n % k = n
<1>1. n \in 0..(k - 1) /\ 0 \in Nat
  OBVIOUS
<1>2. (k * 0 + n) % k = n
  BY <1>1, Quotient, Zenon
<1> QED BY <1>2

(***************************************************************************)
(* _fdc_lba_to_chs names the sector it is given, as long as the cylinder   *)
(* fits the byte the callers cut it to.                                    *)
(***************************************************************************)
LEMMA PlacesAreNumbers ==
  ASSUME NEW lba \in Nat
  PROVE  /\ TrackByte(lba) \in Nat /\ HeadOf(lba) \in Nat /\ SectorOf(lba) \in Nat \ {0}
         /\ LbaAt(TrackByte(lba), HeadOf(lba), SectorOf(lba)) \in Nat
<1> USE DiskAssumption, DmaByteAssumption
<1>1. SECTORS * 2 \in Nat \ {0}
  OBVIOUS
<1>2. TrackOf(lba) \in Nat /\ lba % (SECTORS * 2) \in Nat
  <2>1. TrackOf(lba) \in Nat /\ lba % (SECTORS * 2) \in 0..((SECTORS * 2) - 1)
    BY <1>1, Division, Zenon DEF TrackOf
  <2> QED BY <1>1, <2>1
<1>3. TrackByte(lba) \in Nat
  BY <1>2, Division DEF TrackByte
<1>4. HeadOf(lba) \in Nat
  BY <1>2, Division DEF HeadOf
<1>5. SectorOf(lba) \in Nat \ {0}
  BY Division DEF SectorOf
<1>6. (TrackByte(lba) * 2 + HeadOf(lba)) * SECTORS \in Nat
  BY <1>3, <1>4
<1> QED BY <1>3, <1>4, <1>5, <1>6 DEF LbaAt

LEMMA SameSector ==
  ASSUME NEW lba \in Nat, lba < SECTORS * 2 * DmaByte
  PROVE  LbaAt(TrackByte(lba), HeadOf(lba), SectorOf(lba)) = lba
<1> USE DiskAssumption, DmaByteAssumption
<1> DEFINE k == SECTORS * 2
           t == lba \div k
           r == lba % k
<1>1. k \in Nat \ {0}
  OBVIOUS
<1>2. t \in Nat /\ r \in 0..(k - 1) /\ lba = k * t + r
  BY <1>1, Division
<1>3. t < DmaByte
  <2>1. SUFFICES ASSUME t - DmaByte >= 0 PROVE FALSE
    BY <1>2
  <2>2. k * (t - DmaByte) >= 0 /\ k * (t - DmaByte) = k * t - k * DmaByte
    BY <1>1, <1>2, <2>1
  <2> QED BY <1>1, <1>2, <2>2
<1>4. TrackByte(lba) = t
  <2>1. t % DmaByte = t
    BY <1>2, <1>3, SmallRemainder
  <2> QED BY <2>1 DEF TrackByte, TrackOf
<1>5. CASE r < SECTORS
  <2>1. r \in 0..(SECTORS - 1) /\ 2 * t \in Nat /\ 0 \in Nat
    BY <1>2, <1>5
  <2>2. (SECTORS * 0 + r) \div SECTORS = 0 /\ (SECTORS * (2 * t) + r) % SECTORS = r
    BY <2>1, Quotient, Zenon
  <2>3. SECTORS * 0 + r = r /\ SECTORS * (2 * t) + r = lba
    BY <1>2
  <2>4. HeadOf(lba) = 0 /\ SectorOf(lba) = r + 1
    BY <2>2, <2>3, Zenon DEF HeadOf, SectorOf
  <2>5. (t * 2 + 0) * SECTORS + ((r + 1) - 1) = lba
    BY <1>2
  <2> HIDE DEF k, t, r
  <2> QED BY <1>4, <2>4, <2>5, Zenon DEF LbaAt
<1>6. CASE r >= SECTORS
  <2> DEFINE s == r - SECTORS
  <2>1. s \in 0..(SECTORS - 1) /\ 2 * t + 1 \in Nat /\ 1 \in Nat
    BY <1>2, <1>6
  <2>2. (SECTORS * 1 + s) \div SECTORS = 1 /\ (SECTORS * (2 * t + 1) + s) % SECTORS = s
    <3> HIDE DEF s
    <3> QED BY <2>1, Quotient, Zenon
  <2>3. SECTORS * 1 + s = r /\ SECTORS * (2 * t + 1) + s = lba
    <3> HIDE DEF t, r
    <3>1. SECTORS * (2 * t + 1) = SECTORS * 2 * t + SECTORS
      BY <1>2
    <3>2. SECTORS * 2 * t = k * t
      OBVIOUS
    <3> HIDE DEF k
    <3> QED BY <1>1, <1>2, <3>1, <3>2
  <2>4. HeadOf(lba) = 1 /\ SectorOf(lba) = s + 1
    <3> HIDE DEF s
    <3> QED BY <2>2, <2>3, Zenon DEF HeadOf, SectorOf
  <2>5. (t * 2 + 1) * SECTORS + ((s + 1) - 1) = lba
    BY <1>2
  <2> HIDE DEF k, t, r, s
  <2> QED BY <1>4, <2>4, <2>5, Zenon DEF LbaAt
<1> QED BY <1>2, <1>5, <1>6

(***************************************************************************)
(* Two digits are the address in the page, the third one is the page.      *)
(***************************************************************************)
LEMMA Digits ==
  ASSUME NEW b \in Nat
  PROVE  /\ Digit(b, 1) \in Bytes /\ Digit(b, DmaByte) \in Bytes /\ Digit(b, DmaPage) \in Bytes
         /\ Digit(b, 1) + DmaByte * Digit(b, DmaByte) = b % DmaPage
<1> USE DmaByteAssumption
<1> DEFINE q == b \div DmaByte
           r == b % DmaByte
           p == q \div DmaByte
           h == q % DmaByte
<1>1. DmaPage \in Nat \ {0}
  BY DEF DmaPage
<1>2. q \in Nat /\ r \in 0..(DmaByte - 1) /\ b = DmaByte * q + r
  BY Division
<1>3. p \in Nat /\ h \in 0..(DmaByte - 1) /\ q = DmaByte * p + h
  BY <1>2, Division
<1>4. Digit(b, 1) = r /\ Digit(b, DmaByte) = h
  <2>1. b \div 1 = b
    OBVIOUS
  <2> QED BY <2>1 DEF Digit
<1>5. Digit(b, DmaPage) \in 0..(DmaByte - 1)
  <2>1. b \div DmaPage \in Nat
    BY <1>1, Division
  <2> QED BY <2>1, Division DEF Digit
<1> HIDE DEF q, r, p, h
<1>6. b = DmaPage * p + (r + DmaByte * h)
  BY <1>2, <1>3 DEF DmaPage
<1>7. r + DmaByte * h \in 0..(DmaPage - 1)
  <2>1. DmaByte * h >= 0 /\ DmaByte * ((DmaByte - 1) - h) >= 0
    BY <1>3
  <2>2. DmaByte * ((DmaByte - 1) - h) = DmaPage - DmaByte - DmaByte * h
    BY <1>3 DEF DmaPage
  <2> QED BY <1>1, <1>2, <1>3, <2>1, <2>2
<1>8. b % DmaPage = r + DmaByte * h
  <2>1. (DmaPage * p + (r + DmaByte * h)) % DmaPage = r + DmaByte * h
    BY <1>1, <1>3, <1>7, Quotient, Zenon
  <2> QED BY <1>6, <2>1, Zenon
<1> QED BY <1>2, <1>3, <1>4, <1>5, <1>8 DEF Bytes

(***************************************************************************)
(* _fdc_dma_init, whatever the flip-flop was: the channel points at the    *)
(* buffer, and the transfer does not wrap inside its page.                 *)
(***************************************************************************)
LEMMA ProgrammedChannel ==
  ASSUME NEW c \in Channels, NEW b \in Nat, NEW l \in Nat
  PROVE  /\ ProgramDma(c, b, l) \in Channels
         /\ ProgramDma(c, b, l).addr = [low |-> Digit(b, 1), high |-> Digit(b, DmaByte)]
         /\ ProgramDma(c, b, l).count = [low |-> Digit(l, 1), high |-> Digit(l, DmaByte)]
         /\ ProgramDma(c, b, l).page = Digit(b, DmaPage)
         /\ Enabled(ProgramDma(c, b, l))
<1> DEFINE bl == Digit(b, 1)
           bh == Digit(b, DmaByte)
           bp == Digit(b, DmaPage)
           ll == Digit(l, 1)
           lh == Digit(l, DmaByte)
<1>1. bl \in Bytes /\ bh \in Bytes /\ bp \in Bytes /\ ll \in Bytes /\ lh \in Bytes
  BY Digits
<1> DEFINE A == [low |-> bl, high |-> bh]
           C == [low |-> ll, high |-> lh]
           c1 == dma_reset_flipflop(dma_mask_channel(c))
           c2 == dma_set_address(c1, bl, bh)
           c3 == dma_set_external_page_register(c2, bp)
           c4 == dma_reset_flipflop(c3)
           c5 == dma_set_count(c4, ll, lh)
           c6 == dma_set_read(c5)
           c7 == dma_unmask_channel(c6)
<1>2. c1 \in Channels /\ c1.flipflop = FALSE
  BY DEF Channels, dma_reset_flipflop, dma_mask_channel
<1> HIDE DEF bl, bh, bp, ll, lh, c1
<1>3. c2 \in Channels /\ c2.addr = A
  BY <1>1, <1>2 DEF dma_set_address, TwoWrites, Channels
<1> HIDE DEF c2, A
<1>4. c3 \in Channels /\ c3.addr = A /\ c3.page = bp
  BY <1>1, <1>3 DEF dma_set_external_page_register, Channels
<1> HIDE DEF c3
<1>5. c4 \in Channels /\ c4.addr = A /\ c4.page = bp /\ c4.flipflop = FALSE
  BY <1>4 DEF dma_reset_flipflop, Channels
<1> HIDE DEF c4
<1>6. c5 \in Channels /\ c5.addr = A /\ c5.page = bp /\ c5.count = C
  BY <1>1, <1>5 DEF dma_set_count, TwoWrites, Channels
<1> HIDE DEF c5, C
<1>7. c6 \in Channels /\ c6.addr = A /\ c6.page = bp /\ c6.count = C /\ c6.mode = "to_memory"
  <2> DEFINE m == dma_mask_channel(c5)
             w == [m EXCEPT !.mode = "to_memory"]
  <2>1. m \in Channels /\ m.addr = A /\ m.page = bp /\ m.count = C
    BY <1>6 DEF dma_mask_channel, Channels
  <2> HIDE DEF m
  <2>2. w \in Channels /\ w.addr = A /\ w.page = bp /\ w.count = C /\ w.mode = "to_memory"
    BY <2>1 DEF Channels
  <2>3. c6 = dma_unmask_channel(w)
    BY DEF dma_set_read, dma_set_mode, m
  <2> HIDE DEF w
  <2> QED BY <2>2, <2>3 DEF dma_unmask_channel, Channels
<1> HIDE DEF c6
<1>8. /\ c7 \in Channels /\ c7.addr = A /\ c7.page = bp /\ c7.count = C
      /\ ~c7.masked /\ c7.mode = "to_memory"
  BY <1>7 DEF dma_unmask_channel, Channels
<1>9. ProgramDma(c, b, l) = c7
  BY DEF ProgramDma, c1, c2, c3, c4, c5, c6, bl, bh, bp, ll, lh
<1> HIDE DEF c7
<1> QED BY <1>8, <1>9 DEF A, C, bl, bh, bp, ll, lh, Enabled

Fits(b) == b < DmaPage * DmaByte /\ (b % DmaPage) + SECTOR_SIZE <= DmaPage

LEMMA WholeSector ==
  ASSUME NEW c \in Channels, NEW b \in Nat, Fits(b)
  PROVE  /\ Start(ProgramDma(c, b, Counted(SECTOR_SIZE))) = b
         /\ Straight(ProgramDma(c, b, Counted(SECTOR_SIZE)))
<1> USE DmaByteAssumption, DiskAssumption
<1> DEFINE l == SECTOR_SIZE - 1
           d == ProgramDma(c, b, l)
<1>1. DmaPage \in Nat \ {0}
  BY DEF DmaPage
<1>2. l \in Nat /\ l < DmaPage
  BY <1>1
<1>3. Value(d.addr) = b % DmaPage /\ Value(d.count) = l % DmaPage
  <2>1. d.addr = [low |-> Digit(b, 1), high |-> Digit(b, DmaByte)]
    BY <1>2, ProgrammedChannel, Zenon
  <2>2. d.count = [low |-> Digit(l, 1), high |-> Digit(l, DmaByte)]
    BY <1>2, ProgrammedChannel, Zenon
  <2> HIDE DEF d, l
  <2> QED BY <1>2, <2>1, <2>2, Digits DEF Value
<1>4. l % DmaPage = l
  BY <1>1, <1>2, SmallRemainder
<1>5. /\ b \div DmaPage \in Nat /\ b % DmaPage \in 0..(DmaPage - 1)
      /\ b = DmaPage * (b \div DmaPage) + (b % DmaPage)
  BY <1>1, Division, Zenon
<1>6. b \div DmaPage < DmaByte
  <2>1. SUFFICES ASSUME (b \div DmaPage) - DmaByte >= 0 PROVE FALSE
    BY <1>5
  <2> DEFINE q == b \div DmaPage
  <2>2. DmaPage * (q - DmaByte) >= 0 /\ DmaPage * (q - DmaByte) = DmaPage * q - DmaPage * DmaByte
    BY <1>1, <1>5, <2>1
  <2> HIDE DEF q
  <2> QED BY <1>1, <1>5, <2>2 DEF Fits, q
<1>7. d.page = b \div DmaPage
  <2>1. (b \div DmaPage) % DmaByte = b \div DmaPage
    BY <1>5, <1>6, SmallRemainder
  <2> QED BY <1>2, <2>1, ProgrammedChannel DEF Digit
<1> HIDE DEF d, l
<1>8. Start(d) = b
  BY <1>1, <1>3, <1>5, <1>7 DEF Start
<1>9. Straight(d)
  BY <1>1, <1>3, <1>4, <1>5 DEF Straight, Fits, l
<1> QED BY <1>8, <1>9 DEF d, l, Counted

-----------------------------------------------------------------------------
LEMMA SmallestDrive ==
  ASSUME left \subseteq Drives, left # {}
  PROVE  SmallerFirst \in left
<1>1. \E d \in left : \A e \in left : d <= e
  <2>1. CASE 0 \in left
    <3>1. \A e \in left : 0 <= e
      BY DriveAssumption
    <3> QED BY <2>1, <3>1
  <2>2. CASE 0 \notin left
    <3>1. left = {1}
      BY <2>2, DriveAssumption
    <3> QED BY <3>1
  <2> QED BY <2>1, <2>2
<1> QED BY <1>1 DEF SmallerFirst

(***************************************************************************)
(* The flags stay flags.                                                   *)
(***************************************************************************)
LEMMA FlagsStep == FInv /\ [Next]_vars => FlagsOK'
BY DEF FInv, FlagsOK, driver, idleDevice, device, ports, world, Next, DriverStep,
       fdc_handler, Execute, ResetDone, SeekDone, ReadDone, Finish, Interrupt, HeadMoves, HeadStays,
       WaitIrq, Goto, ClearIrq, Cleared, Slept, fdc_init, Reset, Quiet, SenseStep, CheckInt, Sensed,
       Sense, Again, Panic, Specify, DriveData, Dropped, Calibrate, Sent, Then, CalibrateStep,
       Calibrated, LastTry, ResetFailed, ResetReturns, MotorOn, MotorOff, ControlMotor,
       MotorSwitched, Seek, SeekStep, Sought, Arrived, Return, Transfer, Results, Drained,
       HandledStep, Handled, ReadReturns, ReadSector, fdc_set_dma_addr, vars

(***************************************************************************)
(* The loops stay within their bounds, the drives within those there are,  *)
(* and what is written to the controllers fits their registers.            *)
(***************************************************************************)
LEMMA TypesStep ==
  FInv /\ [Next]_vars =>
    DriverOK' /\ JobOK' /\ BufferOK' /\ DeviceOK'
<1> SUFFICES ASSUME FInv, [Next]_vars
             PROVE  DriverOK' /\ JobOK' /\ BufferOK' /\ DeviceOK'
  OBVIOUS
<1> USE DiskAssumption, ArgumentAssumption, DriveAssumption
    DEF FInv, driver, idleDevice, device, ports, world, DriverOK, JobOK, BufferOK, DeviceOK,
        DeviceRecords, Pcs, Repeats, FlowInv, Place, Awaited
<1>1. CASE fdc_handler
  BY <1>1 DEF fdc_handler
<1>2. CASE Execute
  BY <1>2 DEF Execute, ResetDone, SeekDone, ReadDone, Finish, Interrupt, HeadMoves, HeadStays
<1>3. CASE WaitIrq
  BY <1>3 DEF WaitIrq, Goto
<1>4. CASE ClearIrq
  BY <1>4 DEF ClearIrq, Cleared, Goto
<1>5. CASE Slept
  BY <1>5 DEF Slept, Goto
<1>6. CASE fdc_init
  BY <1>6 DEF fdc_init
<1>7. CASE Reset
  <2>1. dev' = [phase |-> "busy", cmd |-> "reset", drive |-> 0, cyl |-> 0, lba |-> 0]
    BY <1>7 DEF Reset, Quiet
  <2> QED BY <1>7, <2>1, SmallestDrive DEF Reset
<1>8. CASE SenseStep
  BY <1>8 DEF SenseStep, CheckInt, Sensed, Sense, Again, Goto, Panic
<1>9. CASE Specify
  BY <1>9 DEF Specify, DriveData, Dropped
<1>10. CASE Calibrate
  BY <1>10 DEF Calibrate, Sent, Dropped, Then
<1>11. CASE CalibrateStep
  BY <1>11 DEF CalibrateStep, CheckInt, Sensed, Calibrated, LastTry, Again, Then, Panic
<1>12. CASE ResetFailed \/ ResetReturns
  BY <1>12 DEF ResetFailed, ResetReturns, DriveData, Dropped, Panic
<1>13. CASE MotorOn \/ MotorOff
  BY <1>13 DEF MotorOn, MotorOff, ControlMotor, MotorSwitched, Then
<1>14. CASE Seek
  <2>1. TrackByte(job.lba) \in Nat
    BY PlacesAreNumbers
  <2> QED BY <1>14, <2>1 DEF Seek, Sent, Dropped, Then
<1>15. CASE SeekStep
  BY <1>15 DEF SeekStep, CheckInt, Sensed, Sought, Arrived, LastTry, Again, Goto, Return,
       Panic
<1>16. CASE Transfer
  <2>1. /\ TrackByte(job.lba) \in Nat
        /\ LbaAt(TrackByte(job.lba), HeadOf(job.lba), SectorOf(job.lba)) \in Nat
    BY PlacesAreNumbers
  <2>2. g_pDmaBuf \in Nat /\ Counted(SECTOR_SIZE) \in Nat
    BY DmaByteAssumption DEF Counted, DmaPage
  <2>3. dma' \in Channels
    BY <1>16, <2>2, ProgrammedChannel DEF Transfer
  <2> QED BY <1>16, <2>1, <2>3 DEF Transfer, Sent, Dropped, Then
<1>17. CASE Results
  BY <1>17 DEF Results, Drained, Goto
<1>18. CASE HandledStep
  <2>1. /\ pc' \in {"motor_off_read", "panic"} /\ unsensed' \in 0..4
        /\ UNCHANGED <<next, job, left, result, g_pDmaBuf, dma, dev, motors, at>>
    BY <1>18 DEF HandledStep, CheckInt, Sensed, Handled, Goto, Panic
  <2> QED BY <2>1
<1>19. CASE ReadReturns
  BY <1>19 DEF ReadReturns, Return
<1>20. CASE \E d \in Drives, lba \in Lbas : ReadSector(d, lba)
  BY <1>20 DEF ReadSector
<1>21. CASE \E b \in Buffers : fdc_set_dma_addr(b)
  BY <1>21 DEF fdc_set_dma_addr
<1>22. CASE UNCHANGED vars
  BY <1>22 DEF vars
<1> QED BY <1>1, <1>2, <1>3, <1>4, <1>5, <1>6, <1>7, <1>8, <1>9, <1>10, <1>11, <1>12, <1>13,
       <1>14, <1>15, <1>16, <1>17, <1>18, <1>19, <1>20, <1>21, <1>22 DEF Next, DriverStep

(***************************************************************************)
(* Flow, interrupts, the command, the statuses and the motors keep         *)
(* together: a command is sent only where no flag and no request is left,  *)
(* every status is read before the next one (four after a reset, one after *)
(* a seek, none after a read), and no call changes drive, sector or buffer *)
(* while the controller is busy.                                           *)
(***************************************************************************)
LEMMA TurnsStep ==
  FInv /\ [Next]_vars =>
    FlowInv' /\ IrqInv' /\ CommandInv' /\ TurnInv' /\ MotorInv'
<1> SUFFICES ASSUME FInv, [Next]_vars
             PROVE  FlowInv' /\ IrqInv' /\ CommandInv' /\ TurnInv' /\ MotorInv'
  OBVIOUS
<1> USE DiskAssumption, ArgumentAssumption, DriveAssumption
    DEF FInv, driver, idleDevice, device, ports, world, DriverOK, JobOK, BufferOK, DeviceOK,
        DeviceRecords, FlowInv, Place, Awaited, Starting, IrqInv, CommandInv, CmdOf, TurnInv,
        ToSense, MotorInv, MotorsOff, NULL, NotCalled
<1>1. CASE fdc_handler
  BY <1>1 DEF fdc_handler
<1>2. CASE Execute
  BY <1>2 DEF Execute, ResetDone, SeekDone, ReadDone, Finish, Interrupt, HeadMoves, HeadStays
<1>3. CASE WaitIrq
  BY <1>3 DEF WaitIrq, Goto
<1>4. CASE ClearIrq
  BY <1>4 DEF ClearIrq, Cleared, Goto
<1>5. CASE Slept
  BY <1>5 DEF Slept, Goto
<1>6. CASE fdc_init
  BY <1>6 DEF fdc_init
<1>7. CASE Reset
  BY <1>7, SmallestDrive DEF Reset, Quiet
<1>8. CASE SenseStep
  BY <1>8 DEF SenseStep, CheckInt, Sensed, Sense, Again, Goto, Panic
<1>9. CASE Specify
  BY <1>9 DEF Specify, DriveData, Dropped
<1>10. CASE Calibrate
  BY <1>10 DEF Calibrate, Sent, Dropped, Then
<1>11. CASE CalibrateStep
  BY <1>11 DEF CalibrateStep, CheckInt, Sensed, Calibrated, LastTry, Again, Then, Panic
<1>12. CASE ResetFailed \/ ResetReturns
  BY <1>12 DEF ResetFailed, ResetReturns, DriveData, Dropped, Panic
<1>13. CASE MotorOn \/ MotorOff
  BY <1>13 DEF MotorOn, MotorOff, ControlMotor, MotorSwitched, Then
<1>14. CASE Seek
  BY <1>14 DEF Seek, Sent, Dropped, Then
<1>15. CASE SeekStep
  BY <1>15 DEF SeekStep, CheckInt, Sensed, Sought, Arrived, LastTry, Again, Goto, Return,
       Panic
<1>16. CASE Transfer
  BY <1>16 DEF Transfer, Sent, Dropped, Then
<1>17. CASE Results
  BY <1>17 DEF Results, Drained, Goto
<1>18. CASE HandledStep
  BY <1>18 DEF HandledStep, CheckInt, Sensed, Handled, Goto, Panic
<1>19. CASE ReadReturns
  BY <1>19 DEF ReadReturns, Return
<1>20. CASE \E d \in Drives, lba \in Lbas : ReadSector(d, lba)
  BY <1>20 DEF ReadSector
<1>21. CASE \E b \in Buffers : fdc_set_dma_addr(b)
  BY <1>21 DEF fdc_set_dma_addr
<1>22. CASE UNCHANGED vars
  BY <1>22 DEF vars
<1> QED BY <1>1, <1>2, <1>3, <1>4, <1>5, <1>6, <1>7, <1>8, <1>9, <1>10, <1>11, <1>12, <1>13,
       <1>14, <1>15, <1>16, <1>17, <1>18, <1>19, <1>20, <1>21, <1>22 DEF Next, DriverStep

LEMMA FloppyInvariance == Spec => []FInv
<1>1. Init => FInv
  <2> SUFFICES ASSUME Init PROVE FInv
    OBVIOUS
  <2> USE DiskAssumption, DriveAssumption, DmaByteAssumption DEF Init
  <2>1. DriverOK /\ JobOK
    BY DEF DriverOK, JobOK, Pcs, Repeats
  <2>2. FlagsOK
    BY DEF FlagsOK
  <2>3. BufferOK
    BY DEF BufferOK, Channels, Bytes
  <2>4. DeviceOK
    BY DEF DeviceOK, DeviceRecords, Quiet
  <2>5. FlowInv /\ IrqInv /\ CommandInv /\ TurnInv /\ MotorInv
    BY DEF FlowInv, Starting, IrqInv, CommandInv, TurnInv, ToSense, MotorInv, MotorsOff, Place,
          Quiet, NULL, NotCalled
  <2> QED BY <2>1, <2>2, <2>3, <2>4, <2>5 DEF FInv
<1>2. FInv /\ [Next]_vars => FInv'
  BY FlagsStep, TypesStep, TurnsStep DEF FInv
<1> QED BY <1>1, <1>2, PTL DEF Spec

-----------------------------------------------------------------------------
(***************************************************************************)
(* Every variable of the driver and of the controller keeps its type; the  *)
(* loops of _fdc_reset, _fdc_calibrate and _fdc_seek end in time.          *)
(***************************************************************************)
THEOREM FloppyTyped == Spec => []TypeOK
<1>1. FInv => TypeOK
  BY DEF FInv, TypeOK, DriverOK, JobOK, Repeats, FlagsOK, BufferOK, DeviceOK, DeviceRecords
<1> QED BY <1>1, FloppyInvariance, PTL

(***************************************************************************)
(* Until a byte is dropped, every command is sent to a controller that     *)
(* waits for one, with every status before it read (fdc.c).                *)
(***************************************************************************)
THEOREM DriverInStep == Spec => []InStep
<1>1. FInv => InStep
  BY DEF FInv, InStep, IrqInv, TurnInv, ToSense, Place, Awaited, DeviceOK, DeviceRecords
<1> QED BY <1>1, FloppyInvariance, PTL

(***************************************************************************)
(* The interrupt _fdc_wait_irq has waited for is the one of the command    *)
(* sent last, bytes dropped or not.                                        *)
(***************************************************************************)
THEOREM InterruptsMatch == Spec => []WaitsForThisCommand
<1>1. FInv => WaitsForThisCommand
  BY DEF FInv, WaitsForThisCommand, IrqInv
<1> QED BY <1>1, FloppyInvariance, PTL

(***************************************************************************)
(* Heads move and sectors are read under a running motor and an open gate  *)
(* (_fdc_control_motor comes before every command).                        *)
(***************************************************************************)
THEOREM CommandsFindMotor == Spec => []MotorRuns
<1>1. FInv => MotorRuns
  BY DEF FInv, MotorRuns, IrqInv, CommandInv, CmdOf, MotorInv, FlowInv, Place, Awaited
<1> QED BY <1>1, FloppyInvariance, PTL

(***************************************************************************)
(* fdc_init, and a fdc_read_sector that returns a sector, leave no motor   *)
(* running; a call whose seek fails (fdc.c:334) leaves its drive's on, and *)
(* no other.                                                               *)
(***************************************************************************)
THEOREM MotorsGoOff == Spec => []MotorsOff
<1>1. FInv => MotorsOff
  BY DEF FInv, MotorInv
<1> QED BY <1>1, FloppyInvariance, PTL

-----------------------------------------------------------------------------
(***************************************************************************)
(* What the callers must see to: a buffer that the channel can address and *)
(* that crosses no page, a sector whose cylinder fits a byte.              *)
(***************************************************************************)
CallersFit == /\ \A b \in Buffers : Fits(b)
              /\ \A lba \in Lbas : lba < SECTORS * 2 * DmaByte

LEMMA CommandIsAsked ==
  ASSUME FInv, CallersFit, dev.phase = "busy", dev.cmd = "read"
  PROVE  /\ dev.drive = job.drive /\ dev.lba = job.lba
         /\ Start(dma) = g_pDmaBuf /\ Straight(dma)
<1>1. job.lba \in Nat /\ job.lba < SECTORS * 2 * DmaByte
  <2>1. job.lba \in Lbas \cup {0}
    BY DEF FInv, JobOK
  <2>2. CASE job.lba \in Lbas
    BY <2>2, ArgumentAssumption DEF CallersFit
  <2>3. CASE job.lba = 0
    BY <2>3, DiskAssumption, DmaByteAssumption
  <2> QED BY <2>1, <2>2, <2>3
<1>2. dev.drive = job.drive /\ dev.lba = job.lba
  BY <1>1, SameSector DEF FInv, CommandInv
<1>3. PICK c \in Channels : dma = ProgramDma(c, g_pDmaBuf, Counted(SECTOR_SIZE))
  BY DEF FInv, CommandInv
<1>4. g_pDmaBuf \in Nat /\ Fits(g_pDmaBuf)
  BY ArgumentAssumption DEF FInv, BufferOK, CallersFit
<1> QED BY <1>2, <1>3, <1>4, WholeSector

(***************************************************************************)
(* Only a read brings anything.                                            *)
(***************************************************************************)
LEMMA OnlyReadsLand ==
  ASSUME [Next]_vars, landed' # landed
  PROVE  /\ dev.phase = "busy" /\ dev.cmd = "read"
         /\ landed' = [drive |-> dev.drive, lba |-> dev.lba,
                       start |-> Start(dma), straight |-> Straight(dma)]
<1> USE DEF vars, driver, idleDevice, device, ports, world
<1>1. CASE Execute
  BY <1>1 DEF Execute, ResetDone, SeekDone, ReadDone
<1>2. CASE DriverStep
  BY <1>2 DEF DriverStep, WaitIrq, ClearIrq, Slept, fdc_init, Reset, SenseStep, Specify,
              Calibrate, CalibrateStep, ResetFailed, ResetReturns, MotorOn, Seek, SeekStep,
              Transfer, Results, HandledStep, MotorOff, ReadReturns, CheckInt, ControlMotor
<1>3. CASE fdc_handler
  BY <1>3 DEF fdc_handler
<1>4. CASE \E d \in Drives, lba \in Lbas : ReadSector(d, lba)
  BY <1>4 DEF ReadSector
<1>5. CASE \E b \in Buffers : fdc_set_dma_addr(b)
  BY <1>5 DEF fdc_set_dma_addr
<1> QED BY <1>1, <1>2, <1>3, <1>4, <1>5 DEF Next

(***************************************************************************)
(* Whatever the drives and the controller do: a sector that is transferred *)
(* is the one the call asked for, of its drive, whole, in its buffer.      *)
(***************************************************************************)
THEOREM OnlyAskedSectorsLand ==
  ASSUME CallersFit
  PROVE  Spec => SectorDeliveredIfRead
<1>1. ASSUME FInv, [Next]_vars
      PROVE  [landed' # landed => landed'.lba = job.lba /\ landed'.drive = job.drive
                               /\ landed'.start = g_pDmaBuf /\ landed'.straight]_vars
  <2> SUFFICES ASSUME landed' # landed
               PROVE  /\ landed'.lba = job.lba /\ landed'.drive = job.drive
                      /\ landed'.start = g_pDmaBuf /\ landed'.straight
    OBVIOUS
  <2> QED BY <1>1, CommandIsAsked, OnlyReadsLand
<1> QED BY <1>1, FloppyInvariance, PTL DEF Spec, SectorDeliveredIfRead

(***************************************************************************)
(* Drives that do not fail and a controller that takes every byte: the     *)
(* head is on the cylinder when the transfer starts, and the sector is     *)
(* there once the interrupt is.                                            *)
(***************************************************************************)
Wanted == [drive |-> job.drive, lba |-> job.lba, start |-> g_pDmaBuf, straight |-> TRUE]

HonestInv ==
  /\ ~dropped
  /\ Place = "sought" => dev.cmd = "seek" /\ dev.drive = job.drive
  /\ Place = "transfer" => at[job.drive] = TrackByte(job.lba)
  /\ dev.phase = "busy" /\ dev.cmd = "read" =>
       /\ dev.cyl = TrackByte(job.lba) /\ at[job.drive] = TrackByte(job.lba)
       /\ Enabled(dma)
  /\ Place = "results" /\ dev.phase # "busy" => landed = Wanted
  /\ Place \in {"handled", "motor_off_read", "read_done"} => landed = Wanted
  /\ SectorDelivered

LEMMA HonestStep ==
  ASSUME CallersFit, ~Faulty, ~Slow, FInv, HonestInv, [Next]_vars
  PROVE  HonestInv'
<1> USE DEF HonestInv, FInv, driver, idleDevice, device, ports, world, Place, Awaited, Wanted,
            SectorDelivered, Returned, Asked, FlowInv, DriverOK, JobOK, Starting
<1>1. CASE fdc_handler
  BY <1>1 DEF fdc_handler, IrqInv
<1>2. CASE Execute
  <2>1. CASE dev.cmd # "read"
    BY <1>2, <2>1 DEF Execute, ResetDone, SeekDone, ReadDone, Finish, Interrupt, HeadMoves,
                      HeadStays, IrqInv, CommandInv, CmdOf, DeviceOK, DeviceRecords
  <2>2. CASE dev.cmd = "read"
    <3>1. /\ dev.phase = "busy" /\ pc = "wait" /\ next = "results"
          /\ dev.drive = job.drive /\ at[dev.drive] = dev.cyl
      BY <1>2, <2>2 DEF Execute, IrqInv, CommandInv, CmdOf
    <3>2. landed' = [drive |-> dev.drive, lba |-> dev.lba,
                     start |-> Start(dma), straight |-> Straight(dma)]
      BY <1>2, <2>2, <3>1 DEF Execute, ResetDone, SeekDone, ReadDone
    <3>3. Straight(dma) = TRUE
      BY <2>2, <3>1, CommandIsAsked DEF Straight
    <3>4. landed' = Wanted
      BY <2>2, <3>1, <3>2, <3>3, CommandIsAsked
    <3> QED BY <1>2, <2>2, <3>1, <3>4
            DEF Execute, ResetDone, SeekDone, ReadDone, Finish, DeviceOK, DeviceRecords
  <2> QED BY <2>1, <2>2
<1>3. CASE WaitIrq
  BY <1>3 DEF WaitIrq, Goto, IrqInv
<1>4. CASE ClearIrq
  BY <1>4 DEF ClearIrq, Cleared, Goto, IrqInv
<1>5. CASE Slept
  BY <1>5 DEF Slept, Goto, IrqInv
<1>6. CASE fdc_init
  BY <1>6 DEF fdc_init, IrqInv
<1>7. CASE Reset
  BY <1>7 DEF Reset, Quiet, DeviceOK
<1>8. CASE SenseStep
  BY <1>8 DEF SenseStep, CheckInt, Sensed, Sense, Again, Goto, Panic, IrqInv
<1>9. CASE Specify
  BY <1>9 DEF Specify, DriveData, Dropped, IrqInv
<1>10. CASE Calibrate
  BY <1>10 DEF Calibrate, Sent, Dropped, Then, DeviceOK, DeviceRecords
<1>11. CASE CalibrateStep
  BY <1>11 DEF CalibrateStep, CheckInt, Sensed, Calibrated, LastTry, Again, Then, Panic, IrqInv
<1>12. CASE ResetFailed \/ ResetReturns
  BY <1>12, ArgumentAssumption
     DEF ResetFailed, ResetReturns, DriveData, Dropped, Panic, NotCalled, IrqInv
<1>13. CASE MotorOn \/ MotorOff
  BY <1>13 DEF MotorOn, MotorOff, ControlMotor, MotorSwitched, Then, IrqInv
<1>14. CASE Seek
  BY <1>14 DEF Seek, Sent, Dropped, Then, TurnInv, IrqInv, DeviceOK, DeviceRecords
<1>15. CASE SeekStep
  <2>1. /\ pc = "sought" /\ dev.phase = "idle" /\ unsensed = 1 /\ dev.cmd = "seek"
        /\ UNCHANGED <<g_pDmaBuf, dma, dev, at, landed>>
    BY <1>15 DEF SeekStep, CheckInt, TurnInv, ToSense, IrqInv, DeviceOK, DeviceRecords
  <2>2. CASE Panic
    BY <1>15, <2>1, <2>2 DEF SeekStep, CheckInt, Sensed, Panic
  <2>3. CASE Sought(at[job.drive]) /\ dropped' = dropped
    <3>1. CASE Arrived(at[job.drive])
      BY <2>1, <2>3, <3>1 DEF Sought, Arrived, Goto
    <3>2. CASE ~Arrived(at[job.drive]) /\ LastTry
      BY <2>1, <2>3, <3>2, ArgumentAssumption DEF Sought, Return, NULL
    <3>3. CASE ~Arrived(at[job.drive]) /\ ~LastTry
      BY <2>1, <2>3, <3>3 DEF Sought, Again
    <3> QED BY <3>1, <3>2, <3>3
  <2> QED BY <1>15, <2>1, <2>2, <2>3 DEF SeekStep, CheckInt, Sensed
<1>16. CASE Transfer
  <2>1. dev.phase = "idle"
    BY <1>16 DEF Transfer, TurnInv, IrqInv, DeviceOK, DeviceRecords
  <2>2. /\ dev' = [phase |-> "busy", cmd |-> "read", drive |-> job.drive,
                   cyl |-> TrackByte(job.lba),
                   lba |-> LbaAt(TrackByte(job.lba), HeadOf(job.lba), SectorOf(job.lba))]
        /\ dropped' = dropped
    BY <1>16, <2>1 DEF Transfer, Sent, Dropped
  <2>3. Enabled(dma')
    <3>1. g_pDmaBuf \in Nat /\ Counted(SECTOR_SIZE) \in Nat /\ dma \in Channels
      BY ArgumentAssumption, DiskAssumption, DmaByteAssumption DEF BufferOK, Counted, DmaPage
    <3> QED BY <1>16, <3>1, ProgrammedChannel DEF Transfer
  <2>4. /\ pc = "transfer" /\ pc' = "wait" /\ next' = "results"
        /\ UNCHANGED <<job, result, at>>
    BY <1>16 DEF Transfer, Then
  <2> QED BY <2>2, <2>3, <2>4
<1>17. CASE Results
  BY <1>17 DEF Results, Drained, Goto, IrqInv, DeviceOK, DeviceRecords
<1>18. CASE HandledStep
  BY <1>18 DEF HandledStep, CheckInt, Sensed, Handled, Goto, Panic, IrqInv
<1>19. CASE ReadReturns
  BY <1>19 DEF ReadReturns, Return, IrqInv
<1>20. CASE \E d \in Drives, lba \in Lbas : ReadSector(d, lba)
  BY <1>20 DEF ReadSector, IrqInv
<1>21. CASE \E b \in Buffers : fdc_set_dma_addr(b)
  BY <1>21 DEF fdc_set_dma_addr, IrqInv
<1>22. CASE UNCHANGED vars
  BY <1>22 DEF vars, IrqInv
<1> QED BY <1>1, <1>2, <1>3, <1>4, <1>5, <1>6, <1>7, <1>8, <1>9, <1>10, <1>11, <1>12, <1>13,
       <1>14, <1>15, <1>16, <1>17, <1>18, <1>19, <1>20, <1>21, <1>22 DEF Next, DriverStep

(***************************************************************************)
(* What fdc_read_sector returns is the sector it was asked for (fdc.h:14), *)
(* when no drive fails and no byte is dropped: the cases in which it is    *)
(* not are the ones in which the status bytes would have told.             *)
(***************************************************************************)
THEOREM SectorsDelivered ==
  ASSUME CallersFit, ~Faulty, ~Slow
  PROVE  Spec => []SectorDelivered
<1>1. Init => HonestInv
  BY DEF Init, HonestInv, Place, Quiet, Starting, SectorDelivered, Returned
<1>2. FInv /\ HonestInv /\ [Next]_vars => HonestInv'
  BY HonestStep
<1>3. HonestInv => SectorDelivered
  BY DEF HonestInv
<1> QED BY <1>1, <1>2, <1>3, FloppyInvariance, PTL DEF Spec

-----------------------------------------------------------------------------
(***************************************************************************)
(* The refinement.  Only fdc_init calibrates, only a call seeks and reads. *)
(***************************************************************************)
Calling == {"seek", "sought", "transfer", "results", "handled", "motor_off_read", "read_done"}

OpInv == /\ Place \in Starting => job.op = "init"
         /\ Place \in Calling => job.op = "read"

LEMMA OpStep == FInv /\ OpInv /\ [Next]_vars => OpInv'
<1> SUFFICES ASSUME FInv, OpInv, [Next]_vars
             PROVE  OpInv'
  OBVIOUS
<1> USE DEF FInv, DriverOK, JobOK, FlowInv, Awaited, OpInv, Place, Starting, Calling,
            vars, driver, world, idleDevice, device, ports
<1>1. CASE fdc_handler \/ Execute \/ (\E b \in Buffers : fdc_set_dma_addr(b)) \/ UNCHANGED vars
  BY <1>1 DEF fdc_handler, Execute, fdc_set_dma_addr
<1>2. CASE WaitIrq \/ ClearIrq \/ Slept \/ fdc_init \/ Reset
  BY <1>2 DEF WaitIrq, ClearIrq, Slept, fdc_init, Reset, Goto
<1>3. CASE SenseStep \/ Specify \/ Calibrate \/ CalibrateStep
  BY <1>3 DEF SenseStep, CheckInt, Sense, Specify, Calibrate, CalibrateStep, Calibrated, Again,
              Goto, Panic, Then
<1>4. CASE ResetFailed \/ ResetReturns \/ MotorOn \/ MotorOff
  BY <1>4 DEF ResetFailed, ResetReturns, Panic, MotorOn, MotorOff, ControlMotor, Then
<1>5. CASE Seek \/ SeekStep \/ Transfer \/ Results \/ HandledStep \/ ReadReturns
  BY <1>5 DEF Seek, SeekStep, CheckInt, Sought, Transfer, Results, HandledStep, Handled,
              ReadReturns, Return, Again, Goto, Panic, Then
<1>6. CASE \E d \in Drives, lba \in Lbas : ReadSector(d, lba)
  BY <1>6 DEF ReadSector
<1> QED BY <1>1, <1>2, <1>3, <1>4, <1>5, <1>6 DEF Next, DriverStep

(***************************************************************************)
(* The controller's work, seen by the reader: a read that ends is the      *)
(* attempt, a reset, a calibration and a seek are nothing.                 *)
(***************************************************************************)
LEMMA ExecuteRefines ==
  ASSUME FInv, OpInv, CallersFit, [Next]_vars, Execute
  PROVE  [Reader!Next]_Reader!vars
<1> USE DEF FInv, IrqInv, CommandInv, OpInv, Place, Awaited, FlowInv, Calling, Starting
<1>1. /\ dev.phase = "busy" /\ pc = "wait" /\ dev.cmd = CmdOf(next)
      /\ UNCHANGED <<pc, next, job, g_pDmaBuf, result>>
  BY DEF Execute, driver
<1>2. UNCHANGED Request
  BY <1>1 DEF Request
<1>3. CASE dev.cmd = "read"
  <2>1. next = "results" /\ job.op = "read"
    BY <1>1, <1>3 DEF CmdOf
  <2>2. dev'.phase = "result"
    BY <1>3 DEF Execute, ReadDone, Finish, DeviceOK, DeviceRecords, ResetDone, SeekDone
  <2>3. Phase = "asked" /\ Phase' = "attempted"
    BY <1>1, <2>1, <2>2 DEF Phase, Attempted
  <2>4. landed' \in {landed, Reader!WholeSector}
    <3>1. CASE landed' # landed
      <4>1. landed' = [drive |-> dev.drive, lba |-> dev.lba,
                       start |-> Start(dma), straight |-> Straight(dma)]
        BY <3>1, OnlyReadsLand
      <4>2. dev.drive = job.drive /\ dev.lba = job.lba /\ Start(dma) = g_pDmaBuf
        BY <1>1, <1>3, CommandIsAsked
      <4>3. Straight(dma) = TRUE
        BY <1>1, <1>3, CommandIsAsked DEF Straight
      <4> QED BY <2>1, <4>1, <4>2, <4>3 DEF Reader!WholeSector, Request
    <3> QED BY <3>1
  <2> QED BY <1>1, <1>2, <2>3, <2>4 DEF Reader!Next, Reader!Attempt
<1>4. CASE dev.cmd # "read"
  <2>1. next # "results" /\ Place' = Place /\ Place \in Awaited
    BY <1>1, <1>4 DEF CmdOf
  <2>2. ~Attempted /\ ~Attempted'
    BY <1>1, <2>1 DEF Attempted
  <2>3. UNCHANGED landed
    BY <1>4, OnlyReadsLand
  <2> QED BY <1>1, <1>2, <2>2, <2>3 DEF Reader!vars, Phase
<1> QED BY <1>3, <1>4

(***************************************************************************)
(* The rest of fdc.c, seen by the reader: the calls, their answers, and    *)
(* steps within a call or within fdc_init that are nothing.                *)
(***************************************************************************)
LEMMA DriverRefines ==
  ASSUME FInv, OpInv, DriverStep
  PROVE  [Reader!Next]_Reader!vars
<1> USE DEF FInv, DriverOK, JobOK, FlowInv, IrqInv, Awaited, OpInv, Place, Starting, Calling,
            driver, world, idleDevice, device, ports, Phase, Request, Attempted, Reader!vars
<1>1. CASE WaitIrq \/ ClearIrq \/ Slept \/ fdc_init
  BY <1>1 DEF WaitIrq, ClearIrq, Slept, fdc_init, Goto
<1>2. CASE Reset \/ Specify \/ Calibrate \/ ResetReturns
  <2>1. job.op = "init" /\ job'.op = "init" /\ pc # "panic" /\ pc' # "panic"
    BY <1>2 DEF Reset, Specify, Calibrate, ResetReturns, Then
  <2>2. UNCHANGED <<g_pDmaBuf, landed, result>>
    BY <1>2 DEF Reset, Specify, Calibrate, ResetReturns, Then
  <2> QED BY <2>1, <2>2
<1>3. CASE ResetFailed \/ ((SenseStep \/ CalibrateStep \/ SeekStep \/ HandledStep) /\ pc' = "panic")
  <2>1. pc' = "panic" /\ UNCHANGED <<job, result, g_pDmaBuf, landed>>
    <3>1. CASE ResetFailed
      BY <3>1 DEF ResetFailed, Panic
    <3>2. CASE SenseStep
      BY <1>3, <3>2 DEF SenseStep, CheckInt, Sense, Again, Goto, Panic, ResetFailed
    <3>3. CASE CalibrateStep
      BY <1>3, <3>3 DEF CalibrateStep, CheckInt, Calibrated, Again, Then, Panic, ResetFailed
    <3>4. CASE SeekStep
      BY <1>3, <3>4 DEF SeekStep, CheckInt, Sought, Again, Goto, Return, Panic, ResetFailed
    <3>5. CASE HandledStep
      BY <1>3, <3>5 DEF HandledStep, CheckInt, Handled, Goto, Panic, ResetFailed
    <3> QED BY <1>3, <3>1, <3>2, <3>3, <3>4, <3>5
  <2> QED BY <2>1 DEF Reader!Next, Reader!Halt
<1>4. CASE (SenseStep \/ CalibrateStep) /\ pc' # "panic"
  <2>1. job.op = "init" /\ job'.op = "init" /\ pc # "panic"
    BY <1>4 DEF SenseStep, CalibrateStep, CheckInt, Sense, Calibrated, Again, Goto, Panic, Then
  <2>2. UNCHANGED <<g_pDmaBuf, landed, result>>
    BY <1>4 DEF SenseStep, CalibrateStep, CheckInt, Sense, Calibrated, Again, Goto, Panic, Then
  <2> QED BY <1>4, <2>1, <2>2
<1>5. CASE HandledStep /\ pc' # "panic"
  BY <1>5 DEF HandledStep, CheckInt, Handled, Goto, Panic
<1>6. CASE SeekStep /\ pc' # "panic"
  BY <1>6 DEF SeekStep, CheckInt, Sought, Again, Goto, Return, Panic, Reader!Next, Reader!Answer
<1>7. CASE MotorOn \/ MotorOff
  BY <1>7 DEF MotorOn, MotorOff, ControlMotor, Then
<1>8. CASE Seek \/ Results
  BY <1>8 DEF Seek, Results, Drained, DeviceOK, DeviceRecords, Then, Goto
<1>9. CASE Transfer
  BY <1>9 DEF Transfer, Sent, Dropped, Then, Reader!Next, Reader!Attempt
<1>10. CASE ReadReturns
  BY <1>10 DEF ReadReturns, Return, Reader!Next, Reader!Answer
<1> QED BY <1>1, <1>2, <1>3, <1>4, <1>5, <1>6, <1>7, <1>8, <1>9, <1>10 DEF DriverStep

LEMMA StepRefines ==
  ASSUME FInv, OpInv, CallersFit, [Next]_vars
  PROVE  [Reader!Next]_Reader!vars
<1> USE DEF driver, world, idleDevice, device, ports, Phase, Request, Attempted, Place, Reader!vars
<1>1. CASE fdc_handler \/ UNCHANGED vars
  BY <1>1 DEF fdc_handler, vars
<1>2. CASE \E d \in Drives, lba \in Lbas : ReadSector(d, lba)
  BY <1>2 DEF ReadSector, Reader!Next, Reader!Ask
<1>3. CASE \E b \in Buffers : fdc_set_dma_addr(b)
  BY <1>3 DEF fdc_set_dma_addr, Reader!Next, Reader!SetBuffer
<1> QED BY <1>1, <1>2, <1>3, ExecuteRefines, DriverRefines DEF Next

(***************************************************************************)
(* fdc.c reads sectors atomically: whatever fails, is dropped or keeps the *)
(* driver waiting, a sector is brought only during a call, at most once in *)
(* it, the one asked for to the buffer set before it, and by no call that  *)
(* returns NULL.                                                           *)
(***************************************************************************)
THEOREM FloppyImplementsReader ==
  ASSUME CallersFit
  PROVE  Spec => ImplementsReader
<1>1. Init => Reader!Init /\ OpInv
  BY DEF Init, OpInv, Place, Calling, Starting, Phase, Request, Reader!Init, Reader!NoRequest
<1>2. FInv /\ OpInv /\ [Next]_vars => OpInv'
  BY OpStep
<1>3. FInv /\ OpInv /\ [Next]_vars => [Reader!Next]_Reader!vars
  BY StepRefines
<1> QED BY <1>1, <1>2, <1>3, FloppyInvariance, PTL DEF Spec, ImplementsReader, Reader!Spec

=============================================================================
