\* The layout of the Makefiles and eleven disks (MCLoader).
CONSTANTS
  Directories <- Floppies
  Second <- InSecond
  BootDrives = {0, 1}
  MaxRegions = 3
  LowMemory = 640
  HighMemory = 3000
SPECIFICATION Spec
INVARIANTS FileDelivered InfoRight ReadsAreLegal StopsForAReason
PROPERTY BootEnds
