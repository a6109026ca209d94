SPECIFICATION FairSpec
CONSTANTS
  NBlk = 2
  ChunkLen = 1
  b1 = b1
  b2 = b2
  x = x
  y = y
  NoBuf = NoBuf
  Blank = Blank
  Buf <- MCBuf
  Value <- MCValue
  Pattern <- MCOneBlock
  Retries = 2
  MaxSlow = 1
PROPERTY CallsReturn
