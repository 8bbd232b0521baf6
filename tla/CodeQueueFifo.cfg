\* The ring of CodeQueue.cfg, compared step by step with MessageFifo.  Lengths
\* tell the messages apart, one body is enough to tell whole from spoilt.  The
\* buffer offered to GetHeadCode is smaller than the longer body, so frames of
\* 6 that cross the edge stick.
CONSTANTS
  Size = 18
  Lens = {1, 6}
  Payloads = {p1}
  Blank = Blank
  OutBuf = 5
  MaxCrashes = 1
SPECIFICATION FairSpec
PROPERTY ImplementsFifo
PROPERTY HeadTaken
