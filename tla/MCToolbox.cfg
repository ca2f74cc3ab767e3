SPECIFICATION Spec
CONSTANTS
  Running <- Kernels
  Shipped <- ShippedOptions
  MaxChanges = 2
  MaxChoices = 3
  MaxFaults = 1
  Chunk = 16
  MaxImage = 44
  NandCount = 24
  Images = {0, 20, 33, 50}
  Capacities = {0, 30, 48, 60}
  Sectors = 11
  Step = 5
  Retries = 4
  MaxDumps = 2
INVARIANTS
  TypeOK
  SettingsTellThePatches
  OnlyChosenPatches
  FlagsAreShown
  ModesTell
  FilesKept
  OtherOsSafe
  DumpInOrder
PROPERTY
  CobraHeals
CHECK_DEADLOCK FALSE
