\* One client that connects twice, pipes of one frame, a death of each process.
CONSTANTS
  Clients = {1}
  Topics = {t1}
  Requests = {"init", "publish", "echo"}
  Suffixes = {s1, s2}
  PipeCap = 1
  MaxConns = 2
  MaxReqs = 2
  MaxCcsDeaths = 1
  MaxMcpDeaths = 1
SPECIFICATION FairSpec
CHECK_DEADLOCK FALSE
INVARIANT TypeOK
INVARIANT RoutedWithinLife
PROPERTY RequestsHandled
PROPERTY RepliesTaken
