CONSTANTS
  Dollar = dollar
  Newline = newline
  Chars = {dollar, newline, x, y}
  Check <- MCCheck
  Fields <- MCFields
  Sample <- MCSample
  NoMessage = noMessage
  BufSize = 2
  FifoDepth = 2
  FullThreshold = 2
  RecvQueueLen = 2
  StoreQueueLen = 1
  MaxBurst = 2
  Samples <- MCSamples
  NoSample = noSample
  Capacity = 2
  SizeModulus = 3
SPECIFICATION FairSpec

PROPERTY NoneLeftBehind
