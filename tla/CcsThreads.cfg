\* Two threads, two ports, two descriptors that share a slot, two connections,
\* two signals; the server ends when told to.
SPECIFICATION FairSpec
CONSTANTS
  Aux = {0, 1}
  Masks = {{0, 1}, {1}}
  Fds = {1, 3}
  MAX_SOCKET_NUM = 2
  ClientLimit = 1
  PipeCap = 1
  Conns = {1, 2}
  MaxSignals = 2
CHECK_DEADLOCK FALSE
INVARIANT DescriptorsTheirOwn
INVARIANT Accounted
PROPERTY ClosedByItsThread
PROPERTY Settled
PROPERTY ExitObeyed
