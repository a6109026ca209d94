SPECIFICATION Spec
CONSTANTS
  NBlk = 3
  ChunkLen = 2
  b1 = b1
  b2 = b2
  x = x
  y = y
  NoBuf = NoBuf
  Blank = Blank
  Buf <- MCBuf
  Value <- MCValue
  Pattern <- MCPattern
  Retries = 1
  MaxSlow = 0
INVARIANT ErrorCloses
SYMMETRY Symmetry
CONSTRAINT CleanStart
