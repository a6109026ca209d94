SPECIFICATION MCSpec
CONSTANTS
  NBlk = 7
  ChunkLen <- MCChunkLen
  b1 = b1
  b2 = b2
  b3 = b3
  x = x
  y = y
  NoBuf = NoBuf
  Blank = Blank
  Buf <- MCBuf
  Value <- MCValue
  Pattern <- MCPattern
  Retries = 1
  MaxSlow = 0
  FSec <- MCFSec
  Place <- MCPlace
  HostData <- MCHostData
  CmdLens <- MCCmdLens
  MaxCmds = 2
INVARIANTS BuffersDisjoint NeverRefused
PROPERTY IsBlockDevice
SYMMETRY Symmetry
