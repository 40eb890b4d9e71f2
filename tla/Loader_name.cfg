\* The same disks, booted from the first drive.
CONSTANTS
  Directories <- Floppies
  Second <- InSecond
  BootDrives = {0}
  MaxRegions = 3
  LowMemory = 640
  HighMemory = 3000
SPECIFICATION Spec
INVARIANT KernelDelivered
