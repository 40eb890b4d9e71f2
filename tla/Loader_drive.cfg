\* The same disks, booted from the second drive.
CONSTANTS
  Directories <- Floppies
  Second <- InSecond
  BootDrives = {1}
  MaxRegions = 3
  LowMemory = 640
  HighMemory = 3000
SPECIFICATION Spec
INVARIANT KernelFromBootDrive
