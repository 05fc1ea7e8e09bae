\* Files are added, never removed, and grow.
SPECIFICATION FairSpec
CONSTANTS
  Paths <- TwoPaths
  Dirs <- TwoDirs
  Dir <- SeparateDir
  Calls = {"add"}
  FileOps = {"append"}
  MaxCalls = 2
  MaxOps = 4
  MaxWatches = 2
INVARIANTS ReaderSurvives ReportedWithoutGaps
PROPERTIES AllReported
\* The bounds end every behaviour.
CHECK_DEADLOCK FALSE
