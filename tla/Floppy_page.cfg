\* A drive that reads everything, and a buffer that crosses a page of the DMA
\* controller (16 bytes here; the sector has four).
CONSTANTS
  DmaByte = 4
  Drives = {0}
  SECTORS = 2
  Cylinders = 2
  TRIES = 2
  SECTOR_SIZE = 4
  Lbas = {0, 6}
  Buffers = {8, 14}
  Faulty = FALSE
  Slow = FALSE
SPECIFICATION Spec
PROPERTY SectorDeliveredIfRead
CHECK_DEADLOCK FALSE
