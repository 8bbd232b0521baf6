\* Headers of 2 bytes, messages of 2 and 3, and one that is longer than the
\* buffer; any split into reads.
CONSTANTS
  Lens = {2, 3, 6}
  HeaderLen = 2
  RecvRoom = 5
  Programs = {"ccs", "scc"}
  PipeCap = 1
  MaxMsgs = 3
SPECIFICATION FairSpec
CHECK_DEADLOCK FALSE
INVARIANT WholeMessages
INVARIANT NothingSkipped
INVARIANT BufferRight
PROPERTY AllTaken
