\* One failure: requests and messages survive it, or are lost for good.
SPECIFICATION AgentSpec
CONSTANTS
  Fds = {3, 4}
  MaxConns = 5
  MaxFailures = 1
  MaxMessages = 7
  MaxRequests = 1
  OtherThreads = FALSE
  MaxReports = 1
  MaxThrows = 1
INVARIANTS AgentTypeOK
PROPERTIES RequestIsSettled PushedIsTaken
\* SIGPIPE may stop the whole agent.
CHECK_DEADLOCK FALSE
