CONSTANTS
  FrameLen = 2
  BUF_SIZE = 5
  FifoLen = 2
  Labels = 3
  Blank = blank
SPECIFICATION FairSpec
INVARIANTS ReadFits WholeBlock
PROPERTIES BlocksInOrder FramesGetWritten
