CONSTANTS
  Streams = {k1, k2}
  Exchanges = {x1, x2, x3, x4}
  Workers = {w1, w2}
  x1 = x1
  k1 = k1
  k2 = k2
  StreamID <- MCStreamID
  None = None
SPECIFICATION FairSpec
INVARIANTS
  TypeOK
  OneWorkerPerStream
  AnsweredOnce
  RunLeavesNoWorker
PROPERTIES
  EveryExchangeAnswered
  RunReturns
