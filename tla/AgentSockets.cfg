\* Reports and failures at any place; other threads open and close files.
SPECIFICATION AgentSpec
CONSTANTS
  Fds = {3, 4}
  MaxConns = 3
  MaxFailures = 1
  MaxMessages = 5
  MaxRequests = 0
  OtherThreads = TRUE
  MaxReports = 2
  MaxThrows = 0
INVARIANTS TypeOK NoSocketLeak SentInOrder
\* SIGPIPE may stop the whole agent.
CHECK_DEADLOCK FALSE
