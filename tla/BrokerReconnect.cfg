\* One client that reconnects from the same address; nothing dies.
CONSTANTS
  Clients = {1}
  Topics = {t1}
  Requests = {"init"}
  Suffixes = {s1, s2}
  PipeCap = 2
  MaxConns = 2
  MaxReqs = 2
  MaxCcsDeaths = 0
  MaxMcpDeaths = 0
SPECIFICATION Spec
CHECK_DEADLOCK FALSE
INVARIANT SubscriptionMade
