\* Two drives that may fail, disks of eight sectors, a controller that may keep a
\* byte waiting too long, buffers that do not cross a page of the DMA controller
\* (16 bytes here).
CONSTANTS
  DmaByte = 4
  Drives = {0, 1}
  SECTORS = 2
  Cylinders = 2
  TRIES = 2
  SECTOR_SIZE = 4
  Lbas = {0, 3, 6}
  Buffers = {8, 20}
  Faulty = TRUE
  Slow = TRUE
SPECIFICATION Spec
INVARIANTS TypeOK InStep WaitsForThisCommand MotorRuns MotorsOff
PROPERTIES ImplementsReader CallsEnd
\* A panic halts the machine, and a driver that waits for an interrupt of a
\* command that never started waits for ever.
CHECK_DEADLOCK FALSE
