------------------------------- MODULE Floppy -------------------------------
(***************************************************************************)
(* fdc.c: the floppy driver, its interrupt flag, the DMA channel, and the  *)
(* controller and drives it talks to (external).  The main thread runs the *)
(* driver; IRQ 6 comes at any moment.  Handlers do not nest (Interrupts)   *)
(* and sleep ends (Timer), so here the handler is one step and sleep two.  *)
(***************************************************************************)
EXTENDS DMA

CONSTANTS
  Drives,      \* the drives the CMOS byte lists: 0, 1 or both
  SECTORS,     \* FDC_SECTORS_PER_TRACK
  Cylinders,   \* how many cylinders a disk has
  TRIES,       \* how often the driver repeats a calibration or a seek: 10
  SECTOR_SIZE, \* FDC_DMA_BUF_SIZE
  Lbas,        \* arguments of fdc_read_sector
  Buffers,     \* arguments of fdc_set_dma_addr, and the initial address
  Faulty,      \* whether drives make mistakes
  Slow         \* whether the controller may keep a byte waiting too long

ASSUME DriveAssumption == Drives \subseteq {0, 1} /\ Drives # {}
ASSUME DiskAssumption == /\ SECTORS \in Nat \ {0} /\ Cylinders \in Nat \ {0}
                         /\ TRIES \in Nat \ {0} /\ SECTOR_SIZE \in 1..DmaPage
ASSUME ArgumentAssumption == Lbas \subseteq Nat /\ Buffers \subseteq Nat \ {0}
ASSUME WorldAssumption == Faulty \in BOOLEAN /\ Slow \in BOOLEAN

VARIABLES
  pc, next,    \* the driver: where it is, and where it goes after a wait
  job,         \* what it is doing: the drive, the sector, the loop counter
  left,        \* drives fdc_init has not reset yet
  result,      \* the pointer the last fdc_read_sector returned
  dropped,     \* the driver has given up on a byte (history)
  g_fdc_irq,   \* set by the handler
  g_pDmaBuf,   \* where sectors go
  dma,         \* DMA channel 2
  dev,         \* the controller: its phase and the command it works on
  lineUp,      \* the controller's interrupt line
  irq6,        \* the request latched in the interrupt controller
  unsensed,    \* interrupts whose status nobody has asked for
  motors,      \* drives whose motor runs
  gate,        \* whether DMA and interrupts are let through (DOR bit 3)
  at,          \* the cylinder each drive's head is on
  landed       \* the last sector a transfer brought, and where to

driver == <<pc, next, job, left, result>>
idleDevice == <<lineUp, irq6, unsensed, at, landed>>
device == <<dev, idleDevice, dropped>>
ports == <<motors, gate>>
world == <<g_fdc_irq, g_pDmaBuf, dma, device, ports>>
vars == <<driver, world>>

-----------------------------------------------------------------------------
(***************************************************************************)
(* _fdc_lba_to_chs, and the bytes the callers cut track to.                *)
(***************************************************************************)
HeadOf(lba) == (lba % (SECTORS * 2)) \div SECTORS
TrackOf(lba) == lba \div (SECTORS * 2)
SectorOf(lba) == (lba % SECTORS) + 1
TrackByte(lba) == TrackOf(lba) % DmaByte

\* The sector of the disk at a place.
LbaAt(track, head, sector) == (track * 2 + head) * SECTORS + (sector - 1)

-----------------------------------------------------------------------------
NULL == 0
NotCalled == -1   \* no call of fdc_read_sector has ended yet

Nothing == [lba |-> -1, drive |-> -1, start |-> -1, straight |-> TRUE]
Quiet == [phase |-> "idle", cmd |-> "none", drive |-> 0, cyl |-> 0, lba |-> 0]

Init ==
  /\ pc = "boot" /\ next = "none" /\ left = Drives /\ result = NotCalled
  /\ job = [op |-> "init", drive |-> 0, lba |-> 0, i |-> 0]
  /\ g_fdc_irq = FALSE
  /\ g_pDmaBuf \in Buffers
  /\ \E b \in BOOLEAN :
        dma = [addr |-> [low |-> 0, high |-> 0], count |-> [low |-> 0, high |-> 0],
               page |-> 0, flipflop |-> b, masked |-> TRUE, mode |-> "none"]
  /\ dev = Quiet /\ lineUp = FALSE /\ irq6 = FALSE /\ unsensed = 0
  /\ motors = {} /\ gate \in BOOLEAN /\ dropped = FALSE
  /\ at \in [Drives -> 0..(Cylinders - 1)]
  /\ landed = Nothing

Goto(p) == pc' = p /\ UNCHANGED <<next, job, left, result>>
Then(p, q) == pc' = p /\ next' = q /\ UNCHANGED <<job, left, result>>
Again(p) == pc' = p /\ job' = [job EXCEPT !.i = @ + 1] /\ UNCHANGED <<next, left, result>>

(***************************************************************************)
(* The handler of IRQ 6.                                                   *)
(***************************************************************************)
fdc_handler == /\ irq6 /\ pc # "boot"
               /\ irq6' = FALSE /\ g_fdc_irq' = TRUE
               /\ UNCHANGED <<driver, g_pDmaBuf, dma, ports,
                              dev, lineUp, unsensed, at, landed, dropped>>

(***************************************************************************)
(* The controller (external).  It executes the command it has received and *)
(* raises its line; the request is latched on the rising edge only, so a   *)
(* line that is still up brings no second interrupt.                       *)
(***************************************************************************)
Interrupt == /\ lineUp' = TRUE
             /\ irq6' = (irq6 \/ (~lineUp /\ gate))

Finish(phase, statuses) == /\ dev' = [dev EXCEPT !.phase = phase]
                           /\ unsensed' = statuses
                           /\ Interrupt

HeadMoves == at' = [at EXCEPT ![dev.drive] = dev.cyl]
HeadStays == UNCHANGED at

ResetDone == /\ dev.cmd = "reset" /\ Finish("idle", 4)
             /\ UNCHANGED <<at, landed>>

\* A head that is sent beyond the last cylinder, or a drive that fails, ends
\* the command with the head elsewhere.
SeekDone == /\ dev.cmd \in {"calibrate", "seek"} /\ Finish("idle", 1)
            /\ \/ dev.cyl < Cylinders /\ HeadMoves
               \/ (Faulty \/ dev.cyl >= Cylinders) /\ HeadStays
            /\ UNCHANGED landed

ReadDone == /\ dev.cmd = "read" /\ Finish("result", 0)
            /\ \/ /\ at[dev.drive] = dev.cyl /\ Enabled(dma)
                  /\ landed' = [drive |-> dev.drive, lba |-> dev.lba,
                                start |-> Start(dma), straight |-> Straight(dma)]
               \/ (Faulty \/ at[dev.drive] # dev.cyl) /\ UNCHANGED landed
            /\ UNCHANGED at

Execute == /\ dev.phase = "busy"
           /\ ResetDone \/ SeekDone \/ ReadDone
           /\ UNCHANGED <<driver, g_fdc_irq, g_pDmaBuf, dma, ports, dropped>>

(***************************************************************************)
(* _fdc_send_command gives up on a byte after FDC_RETRIES polls of the     *)
(* status and tells nobody.  A slow controller that misses one waits for   *)
(* it for ever.                                                            *)
(***************************************************************************)
Dropped == Slow /\ dropped' = TRUE /\ dev' = [dev EXCEPT !.phase = "partial"]

Sent(cmd, cyl, lba) ==
  \/ /\ dev' = IF dev.phase = "idle"
                 THEN [phase |-> "busy", cmd |-> cmd, drive |-> job.drive,
                       cyl |-> cyl, lba |-> lba]
                 ELSE dev
     /\ UNCHANGED dropped
  \/ Dropped

(***************************************************************************)
(* _fdc_check_int: SENSE INTERRUPT STATUS takes the line down and tells    *)
(* the cylinder.  Asked without need, or not asked because its byte was    *)
(* dropped, it tells nothing, and what the driver reads is anything.       *)
(***************************************************************************)
Sensed(cyl) == \/ /\ unsensed > 0 /\ dev.phase = "idle"
                  /\ cyl = IF dev.cmd = "reset" THEN 0 ELSE at[dev.drive]
                  /\ unsensed' = unsensed - 1 /\ lineUp' = FALSE
                  /\ UNCHANGED dropped
               \/ /\ unsensed = 0 \/ dev.phase # "idle"
                  /\ UNCHANGED <<unsensed, lineUp, dropped>>
               \/ /\ Slow /\ dropped' = TRUE
                  /\ UNCHANGED <<unsensed, lineUp>>

Cyls == 0..Cylinders

-----------------------------------------------------------------------------
(***************************************************************************)
(* The driver.  Waiting for the interrupt: the flag is tested, and then    *)
(* cleared.                                                                *)
(***************************************************************************)
Cleared_Kept == g_fdc_irq
Cleared == FALSE

WaitIrq == /\ pc = "wait" /\ g_fdc_irq
           /\ Goto("clear")
           /\ UNCHANGED world
ClearIrq == /\ pc = "clear"
            /\ g_fdc_irq' = Cleared
            /\ Goto(next)
            /\ UNCHANGED <<g_pDmaBuf, dma, device, ports>>

\* _fdc_control_motor: one drive's motor on and every other one off, or all
\* off and with them the gate; and then sleep.
MotorSwitched_Drive0(on) == /\ motors' = IF on THEN {0} ELSE {}
                            /\ gate' = on
MotorSwitched_NoGate(on) == /\ motors' = IF on THEN {job.drive} ELSE {}
                            /\ gate' = FALSE
MotorSwitched(on) == /\ motors' = IF on THEN {job.drive} ELSE {}
                     /\ gate' = on

ControlMotor(here, on, q) == /\ pc = here
                             /\ MotorSwitched(on)
                             /\ Then("sleep", q)
                             /\ UNCHANGED <<g_fdc_irq, g_pDmaBuf, dma, device>>
Slept == /\ pc = "sleep"
         /\ Goto(next)
         /\ UNCHANGED world

\* _fdc_drive_data: SPECIFY has no result and brings no interrupt.
DriveData == UNCHANGED <<dev, dropped>> \/ Dropped

\* fdc_init: register the handler, then reset the drives that are there.
SmallerFirst == CHOOSE d \in left : \A e \in left : d <= e

fdc_init == /\ pc = "boot"
            /\ pc' = "reset"
            /\ UNCHANGED <<next, job, left, result, world>>

\* _fdc_reset: the controller off and on again, ...
Reset == /\ pc = "reset"
         /\ job' = [op |-> "init", drive |-> SmallerFirst, lba |-> 0, i |-> 0]
         /\ dev' = [Quiet EXCEPT !.phase = "busy", !.cmd = "reset"]
         /\ motors' = {} /\ gate' = TRUE
         /\ lineUp' = FALSE /\ unsensed' = 0
         /\ pc' = "wait" /\ next' = "sense"
         /\ UNCHANGED <<left, result, g_fdc_irq, g_pDmaBuf, dma, irq6, at, landed, dropped>>

\* ... four times the status of the interrupt, one for each drive, ...
Panic == pc' = "panic" /\ UNCHANGED <<next, job, left, result>>

CheckInt(Continue(_)) ==
  /\ \/ \E cyl \in Cyls : Sensed(cyl) /\ Continue(cyl)
     \/ /\ Slow \/ dev.phase = "busy"
        /\ UNCHANGED <<unsensed, lineUp, dropped>> /\ Panic
  /\ UNCHANGED <<g_fdc_irq, g_pDmaBuf, dma, dev, irq6, at, landed, ports>>

Sense_Once(cyl) == Goto("specify")
Sense_Five(cyl) == IF job.i < 4 THEN Again("sense") ELSE Goto("specify")
Sense(cyl) == IF job.i < 3 THEN Again("sense") ELSE Goto("specify")

SenseStep == pc = "sense" /\ CheckInt(Sense)

\* ... the data rate (for which no controller listens at the port written),
\* the drive's timing, ...
Specify == /\ pc = "specify"
           /\ DriveData
           /\ pc' = "motor_on" /\ job' = [job EXCEPT !.i = 0]
           /\ UNCHANGED <<next, left, result>>
           /\ UNCHANGED <<g_fdc_irq, g_pDmaBuf, dma, idleDevice, ports>>

\* ... and _fdc_calibrate.
Calibrate == /\ pc = "calibrate"
             /\ Sent("calibrate", 0, 0)
             /\ Then("wait", "calibrated")
             /\ UNCHANGED <<g_fdc_irq, g_pDmaBuf, dma, idleDevice, ports>>

LastTry == job.i + 1 >= TRIES

Calibrated(cyl) ==
  IF cyl = 0 THEN Then("motor_off", "reset_done")
  ELSE IF LastTry THEN Then("motor_off", "failed") ELSE Again("calibrate")
CalibrateStep == pc = "calibrated" /\ CheckInt(Calibrated)

ResetFailed == /\ pc = "failed" /\ Panic
               /\ UNCHANGED world

\* The next drive, or the last _fdc_drive_data of fdc_init.
ResetReturns ==
  /\ pc = "reset_done"
  /\ left' = left \ {job.drive}
  /\ \/ left' # {} /\ pc' = "reset" /\ UNCHANGED <<dev, dropped>>
     \/ left' = {} /\ pc' = "idle" /\ DriveData
  /\ UNCHANGED <<next, job, result>>
  /\ UNCHANGED <<g_fdc_irq, g_pDmaBuf, dma, idleDevice, ports>>

(***************************************************************************)
(* fdc_read_sector.                                                        *)
(***************************************************************************)
ReadSector(d, lba) ==
  /\ pc = "idle"
  /\ job' = [op |-> "read", drive |-> d, lba |-> lba, i |-> 0]
  /\ pc' = "motor_on"
  /\ UNCHANGED <<next, left, result, g_fdc_irq, g_pDmaBuf, dma, device, ports>>

MotorOn == ControlMotor("motor_on", TRUE,
                        IF job.op = "init" THEN "calibrate" ELSE "seek")

Seek == /\ pc = "seek"
        /\ Sent("seek", TrackByte(job.lba), 0)
        /\ Then("wait", "sought")
        /\ UNCHANGED <<g_fdc_irq, g_pDmaBuf, dma, idleDevice, ports>>

\* A seek that never arrives returns NULL, at once.
Return(r, p) == pc' = p /\ result' = r /\ UNCHANGED <<next, job, left>>

Arrived(cyl) == cyl = TrackByte(job.lba)
Sought(cyl) == IF Arrived(cyl) THEN Goto("transfer")
               ELSE IF LastTry THEN Return(NULL, "idle") ELSE Again("seek")
SeekStep == pc = "sought" /\ CheckInt(Sought)

\* _fdc_dma_init, and the READ command.
Digit(n, weight) == (n \div weight) % DmaByte
Counted(length) == length - 1

ProgramDma_NoReset(c, b, l) ==
  dma_unmask_channel(dma_set_read(dma_set_count(
    dma_set_external_page_register(dma_set_address(dma_mask_channel(c),
      Digit(b, 1), Digit(b, DmaByte)), Digit(b, DmaPage)),
    Digit(l, 1), Digit(l, DmaByte))))
ProgramDma(c, b, l) ==
  LET addressed == dma_set_external_page_register(
                     dma_set_address(dma_reset_flipflop(dma_mask_channel(c)),
                                     Digit(b, 1), Digit(b, DmaByte)),
                     Digit(b, DmaPage))
      counted   == dma_set_count(dma_reset_flipflop(addressed),
                                 Digit(l, 1), Digit(l, DmaByte))
  IN  dma_unmask_channel(dma_set_read(counted))

Transfer ==
  /\ pc = "transfer"
  /\ dma' = ProgramDma(dma, g_pDmaBuf, Counted(SECTOR_SIZE))
  /\ Sent("read", TrackByte(job.lba),
          LbaAt(TrackByte(job.lba), HeadOf(job.lba), SectorOf(job.lba)))
  /\ Then("wait", "results")
  /\ UNCHANGED <<g_fdc_irq, g_pDmaBuf, idleDevice, ports>>

\* The seven status bytes, which nobody looks at: the first one takes the
\* line down, the last one ends the command.
Drained_Six(phase) == phase
Drained(phase) == IF phase = "result" THEN "idle" ELSE phase

Results == /\ pc = "results"
           /\ \/ dev' = [dev EXCEPT !.phase = Drained(@)] /\ UNCHANGED dropped
              \/ Slow /\ dropped' = TRUE /\ UNCHANGED dev
           /\ lineUp' = FALSE
           /\ Goto("handled")
           /\ UNCHANGED <<g_fdc_irq, g_pDmaBuf, dma, irq6, unsensed, at, landed, ports>>

Handled_Done(cyl) == Goto("read_done")
Handled(cyl) == Goto("motor_off_read")
HandledStep == pc = "handled" /\ CheckInt(Handled)

MotorOff == \/ ControlMotor("motor_off", FALSE, next)
            \/ ControlMotor("motor_off_read", FALSE, "read_done")

ReadReturns == /\ pc = "read_done"
               /\ Return(g_pDmaBuf, "idle")
               /\ UNCHANGED world

fdc_set_dma_addr(b) == /\ pc = "idle"
                       /\ g_pDmaBuf' = b
                       /\ UNCHANGED <<driver, g_fdc_irq, dma, device, ports>>

DriverStep ==
  \/ WaitIrq \/ ClearIrq \/ Slept
  \/ fdc_init \/ Reset \/ SenseStep \/ Specify
  \/ Calibrate \/ CalibrateStep \/ ResetFailed \/ ResetReturns
  \/ MotorOn \/ Seek \/ SeekStep \/ Transfer \/ Results \/ HandledStep
  \/ MotorOff \/ ReadReturns

Next == \/ fdc_handler \/ Execute \/ DriverStep
        \/ \E d \in Drives, lba \in Lbas : ReadSector(d, lba)
        \/ \E b \in Buffers : fdc_set_dma_addr(b)

\* The interrupt path serves every request, the controller finishes every
\* command it has been given, and the driver runs.
Fairness == WF_vars(fdc_handler) /\ WF_vars(Execute) /\ WF_vars(DriverStep)

Spec == Init /\ [][Next]_vars /\ Fairness

-----------------------------------------------------------------------------
Pcs == {"boot", "reset", "wait", "clear", "sense", "specify", "calibrate", "calibrated",
        "failed", "reset_done", "motor_on", "sleep", "seek", "sought", "transfer",
        "results", "handled", "motor_off", "motor_off_read", "read_done", "idle", "panic"}

TypeOK ==
  /\ pc \in Pcs /\ next \in Pcs \cup {"none"}
  /\ job \in [op : {"init", "read"}, drive : Drives \cup {0}, lba : Lbas \cup {0},
              i : 0..(IF TRIES > 4 THEN TRIES ELSE 4) - 1]
  /\ left \subseteq Drives /\ result \in Buffers \cup {NULL, NotCalled}
  /\ g_fdc_irq \in BOOLEAN /\ g_pDmaBuf \in Buffers /\ dma \in Channels
  /\ dev.phase \in {"idle", "busy", "result", "partial"}
  /\ lineUp \in BOOLEAN /\ irq6 \in BOOLEAN /\ unsensed \in 0..4
  /\ motors \subseteq Drives /\ gate \in BOOLEAN /\ dropped \in BOOLEAN
  /\ at \in [Drives -> 0..(Cylinders - 1)]

(***************************************************************************)
(* The driver and the controller agree on whose turn it is, until a byte   *)
(* is dropped: a command is sent only to a controller that waits for one,  *)
(* with every status of the command before read.                           *)
(***************************************************************************)
InStep == ~dropped =>
  /\ pc \in {"sense", "specify", "calibrate", "calibrated", "seek", "sought",
            "transfer", "handled"} => dev.phase = "idle"
  /\ pc \in {"calibrate", "seek", "transfer"} => unsensed = 0 /\ ~lineUp

(***************************************************************************)
(* The interrupt the driver has waited for is the one of the command it    *)
(* has sent: no flag, request or level is left over from another one, not  *)
(* even when bytes are dropped.                                            *)
(***************************************************************************)
WaitsForThisCommand ==
  /\ pc \in {"clear", "sense", "calibrated", "sought", "results"} => dev.phase # "busy"
  /\ pc \in {"calibrate", "seek", "transfer"} => ~g_fdc_irq /\ ~irq6

(***************************************************************************)
(* A head moves, and a sector is read, only while that drive's motor runs  *)
(* and the gate lets the interrupt through.                                *)
(***************************************************************************)
MotorRuns == dev.phase = "busy" /\ dev.cmd # "reset"
               => dev.drive \in motors /\ gate

(***************************************************************************)
(* What fdc_read_sector returns points at the sector it was asked for, the *)
(* whole of it (fdc.h:14), ...                                             *)
(***************************************************************************)
Asked == [drive |-> job.drive, lba |-> job.lba, start |-> result, straight |-> TRUE]
Returned == pc = "idle" /\ result \in Buffers

SectorDelivered == Returned => landed = Asked

(***************************************************************************)
(* ... at least if it brings one: what a transfer brings is the sector     *)
(* asked for, of that drive, the whole of it at the address defined        *)
(* (fdc.h:14).  The driver does not look where the buffer lies (fdc.c:64). *)
(***************************************************************************)
SectorDeliveredIfRead == [][landed' # landed => landed'.lba = job.lba
                                             /\ landed'.drive = job.drive
                                             /\ landed'.start = g_pDmaBuf
                                             /\ landed'.straight]_vars

(***************************************************************************)
(* The driver, the controller and their interrupt implement an atomic      *)
(* read: nothing is brought behind a caller's back, twice in a call, or by *)
(* a call that returns NULL (fdc.c:334), whatever fails and whatever is    *)
(* dropped.  A call has attempted its read when the controller is through  *)
(* with the command.                                                       *)
(***************************************************************************)
\* What the driver does next once a wait or a sleep is over.
Place == IF pc \in {"wait", "clear", "sleep"} THEN next ELSE pc

Attempted == /\ Place \in {"results", "handled", "motor_off_read", "read_done"}
             /\ dev.phase # "busy"
Phase == IF pc = "panic" THEN "halted"
         ELSE IF pc = "idle" \/ job.op = "init" THEN "idle"
         ELSE IF Attempted THEN "attempted" ELSE "asked"
Request == IF job.op = "init" THEN [drive |-> 0, lba |-> -1]
           ELSE [drive |-> job.drive, lba |-> job.lba]

Reader == INSTANCE SectorReader
          WITH phase <- Phase, request <- Request, buffer <- g_pDmaBuf,
               brought <- landed, answer <- result
ImplementsReader == Reader!Spec

(***************************************************************************)
(* Between calls no motor runs (fdc.c:336), but for the one that a call    *)
(* whose seek has failed leaves on (fdc.c:334): it is that call's drive,   *)
(* and the next call that returns a sector stops it.                       *)
(***************************************************************************)
MotorsOff == pc = "idle" => motors = IF result = NULL THEN {job.drive} ELSE {}

(***************************************************************************)
(* Every call returns, or the kernel panics: as long as the controller     *)
(* takes every byte.                                                       *)
(***************************************************************************)
CallsEnd == pc # "idle" ~> pc \in {"idle", "panic"} \/ dropped
=============================================================================
