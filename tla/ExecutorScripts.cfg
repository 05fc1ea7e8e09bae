\* Archives with scripts of both kinds; two calls, failures and a restart.
SPECIFICATION FairSpec
CONSTANTS
  PolicyScripts <- Policies
  InspectionScripts <- Inspections
  MaxRequests = 2
  MaxSeconds = 3
  MaxRestarts = 1
INVARIANTS TypeOK ScriptsAreOwn TrueMeansDone HeldDescriptors
PROPERTY CallEnds
\* The process may stay dead, and the calls of a behaviour are bounded.
CHECK_DEADLOCK FALSE
