\* An editor saves and quits.
SPECIFICATION Spec
CONSTANTS
  Paths <- TwoPaths
  Dirs <- OneDir
  Dir <- SameDir
  Calls = {"add"}
  FileOps = {"append", "moveAway", "create"}
  MaxCalls = 1
  MaxOps = 4
  MaxWatches = 1
INVARIANTS ReaderSurvives
\* The bounds end every behaviour.
CHECK_DEADLOCK FALSE
