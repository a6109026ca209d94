SPECIFICATION FairSpec
CONSTANTS
  Cards <- MCCards
  Starts <- MCStarts
  CmdLens <- MCLens
  Buf <- MCBuf
  Csize = 2
  Slots = 2
  PerSector = 2
  MaxExtents = 3
  Word = 1000
  Unallocated = 99
  NBlk = 60
  ChunkLen = 2
  Retries = 2
  MaxSlow = 1
  NBuf = 3
  StreamMax = 3
  ByteWord = 8
INVARIANTS ReadTruly ResidueTold FailsOnlyOnFault StreamClosed CacheFresh
PROPERTIES ReadEnds
