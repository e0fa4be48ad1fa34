\* Three operations of two processes open a file of any version, while statements fail and processes die.
SPECIFICATION FairSpec
CONSTANTS
  o1 = o1
  o2 = o2
  o3 = o3
  Openers = {o1, o2, o3}
  Process <- TwoProcesses
  Versions = {0, 1, 2, 3}
  MaxFaults = 2
INVARIANTS HandlesAreComplete UpgradeIsAtomic
PROPERTIES OldFilesOpen
