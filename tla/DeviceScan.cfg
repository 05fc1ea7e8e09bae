\* Two processes, one of which starts or ends, two scans, and few descriptors.
SPECIFICATION FairSpec
CONSTANTS
  Pids = {1, 2}
  MaxFiles = 3
  MaxScans = 2
  MaxChanges = 1
INVARIANTS TypeOK OwnersListed UpToDate FilesAccounted
PROPERTY ScanEnds
\* Scans are bounded, and may be lost.
CHECK_DEADLOCK FALSE
