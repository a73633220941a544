CONSTANTS
  Samples = {s1, s2, s3}
  NoSample = noSample
  Capacity = 4
  SizeModulus = 5
SPECIFICATION RingSpec
INVARIANT RingConsistent
PROPERTY RefinesLossyFifo
