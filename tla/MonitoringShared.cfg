\* A Remove stops the watch of another directory.
SPECIFICATION Spec
CONSTANTS
  Paths <- ThreePaths
  Dirs <- TwoDirs
  Dir <- SharedDir
  Calls = {"add", "remove"}
  FileOps = {}
  MaxCalls = 5
  MaxOps = 0
  MaxWatches = 4
INVARIANTS ListedIsWatched
\* The bounds end every behaviour.
CHECK_DEADLOCK FALSE
