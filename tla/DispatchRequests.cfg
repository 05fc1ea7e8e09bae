\* Requests with and without data, and unknown ones.
SPECIFICATION FairSpec
CONSTANTS
  Protocols = {"DEVICE", "PROCESS", "POLICY_REQUEST", "CHANGE_INTERVAL_REQUEST", "unknown"}
  Intervals <- Positive
  FdLists = 2
  MaxRequests = 2
  MaxQueue = 1
INVARIANTS TypeOK AnsweredWhenIdle AnswersInOrder
PROPERTIES ImplementsService
\* The timer may stop, and the requests of a behaviour are bounded.
CHECK_DEADLOCK FALSE
