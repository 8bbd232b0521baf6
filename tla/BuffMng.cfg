\* Two buffers over a pool of three blocks of two bytes, which one of them can
\* use up.
CONSTANTS
  Bufs = {b1, b2}
  BlockNum = 3
  BLOCKSIZE = 2
  Lens = {1, 3}
  Values = 5
SPECIFICATION Spec
INVARIANT PoolRight
PROPERTY ImplementsFifos
