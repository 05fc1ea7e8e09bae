\* Two requests over up to three connections, cut at any place, and the answers
\* on their way back.
SPECIFICATION AgentSpec
CONSTANTS
  Fds = {3, 4}
  MaxConns = 3
  MaxFailures = 1
  MaxMessages = 5
  MaxRequests = 2
  OtherThreads = FALSE
  MaxReports = 0
  MaxThrows = 1
INVARIANTS AgentInv AnswersAreOwn RequestsInOrder FramesIntact GarbagePerReconnect
\* SIGPIPE may stop the whole agent.
CHECK_DEADLOCK FALSE
