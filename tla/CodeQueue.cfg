\* A ring of 18 bytes holds one frame of 10 bytes or two of 5: every append
\* wraps within a few steps and the larger ones are often refused.
CONSTANTS
  Size = 18
  Lens = {1, 6}
  Payloads = {p1, p2}
  Blank = Blank
  OutBuf = 6
  MaxCrashes = 1
SYMMETRY BodySymmetry
SPECIFICATION Spec
INVARIANT FramesIntact
INVARIANT OverrunNeedsRace
INVARIANT ReaderHasHead
INVARIANT NoLostWakeup
INVARIANT IInv
PROPERTY HeldStable
