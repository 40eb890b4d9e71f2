\* A drive that may fail to read.
CONSTANTS
  DmaByte = 4
  Drives = {0}
  SECTORS = 2
  Cylinders = 2
  TRIES = 2
  SECTOR_SIZE = 4
  Lbas = {0, 6}
  Buffers = {8}
  Faulty = TRUE
  Slow = FALSE
SPECIFICATION Spec
INVARIANT SectorDelivered
CHECK_DEADLOCK FALSE
