\* A message that the kernel takes whole and one that it does not.
CONSTANTS
  Peers = {p1, p2}
  NoPeer = NoPeer
  Programs = {"ccs", "scc"}
  Lens = {1, 3}
  SndBuf = 2
  MaxMsgs = 3
  MaxConns = 2
SPECIFICATION FairSpec
CHECK_DEADLOCK FALSE
INVARIANT StreamRight
PROPERTY FailIsFinal
PROPERTY Drained
PROPERTY Answered
