\* Nothing fails and the server is there: the agent is the reliable link, and
\* answers every request.
SPECIFICATION ReliableSpec
CONSTANTS
  Fds = {3, 4}
  MaxConns = 2
  MaxFailures = 0
  MaxMessages = 6
  MaxRequests = 3
  OtherThreads = FALSE
  MaxReports = 1
  MaxThrows = 0
PROPERTIES ImplementsLink ImplementsRoundTrip
\* Requests and reports are bounded.
CHECK_DEADLOCK FALSE
