SPECIFICATION DriverSpec
CONSTANTS
  g = g
  a1 = a1
  b1 = b1
  Block <- MCBlock
  Number <- MCNumber
  Parent <- MCParent
  L1Origin <- MCL1Origin
  NoBlock = NoBlock
  NoChannel = NoChannel
  ChannelID = {c1, c2}
  MaxL1 = 0
  MaxFrames = 1
  TargetNumFrames = 1
  ChannelTimeout = 1
  SubSafetyMargin = 0
  MaxChannelDuration = 0
  SeqWindowSize = 1
  SpanBatches = FALSE
  MaxPendingTransactions = 2
  SignalEvery = 2
  MaxConcurrentDARequests = 1
  DATypes = {TRUE}
VIEW ReachableState
SYMMETRY Symmetric
INVARIANTS
  DriverTypeOK
  FittingTxsAccountedFor
  CancellationTracked
