\* Two connections and three requests, with a death of MCP.
CONSTANTS
  Clients = {1, 2}
  Topics = {t1}
  Requests = {"init", "publish"}
  Suffixes = {s1, s2}
  PipeCap = 4
  MaxConns = 2
  MaxReqs = 3
  MaxCcsDeaths = 0
  MaxMcpDeaths = 1
SPECIFICATION Spec
CHECK_DEADLOCK FALSE
SYMMETRY SlotSymmetry
INVARIANT OnlyWhatWasAsked
INVARIANT InOrder
INVARIANT SubscribersServed
PROPERTY ImplementsPubSub
