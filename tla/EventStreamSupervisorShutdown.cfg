CONSTANTS
  Streams = {k1, k2}
  Workers = {w1, w2}
  x1 = x1
  Exchanges = {x1}
  k1 = k1
  k2 = k2
  StreamID <- MCStreamID
  None = None
SPECIFICATION FairSpec
PROPERTIES
  ShutdownStops
