\* Any sequence of requests for the files of one directory, which are
\* written, truncated, rotated and replaced.
SPECIFICATION Spec
CONSTANTS
  Paths = {a, b}
  Dirs <- OneDir
  Dir <- SameDir
  Calls = {"add", "remove"}
  FileOps = {"append", "truncate", "moveAway", "create", "moveIn"}
  MaxCalls = 3
  MaxOps = 3
  MaxWatches = 3
INVARIANTS TypeOK CountMatchesTargets ListedIsWatched ReportedInOrder
\* The files of one directory are interchangeable.
SYMMETRY PathsSymmetry
\* The bounds end every behaviour.
CHECK_DEADLOCK FALSE
