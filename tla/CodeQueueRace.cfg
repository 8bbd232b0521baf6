\* The same ring, without a crash: does every frame survive?
CONSTANTS
  Size = 18
  Lens = {1, 6}
  Payloads = {p1, p2}
  Blank = Blank
  OutBuf = 6
  MaxCrashes = 0
SYMMETRY BodySymmetry
SPECIFICATION Spec
INVARIANT EveryFrameIntact
