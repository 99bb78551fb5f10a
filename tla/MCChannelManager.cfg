SPECIFICATION Spec
CONSTANTS
  g = g
  a1 = a1
  a2 = a2
  b2 = b2
  Block <- MCBlock
  Number <- MCNumber
  Parent <- MCParent
  L1Origin <- MCL1Origin
  NoBlock = NoBlock
  NoChannel = NoChannel
  ChannelID = {c1, c2}
  MaxL1 = 1
  MaxFrames = 2
  TargetNumFrames = 2
  ChannelTimeout = 1
  SubSafetyMargin = 0
  MaxChannelDuration = 0
  SeqWindowSize = 1
  SpanBatches = FALSE
VIEW ReachableState
SYMMETRY Symmetric
INVARIANTS
  TypeOK
  BlocksFormChain
  ChannelsCoverCursor
  FullySubmittedIsConfirmed
  PendingTxsTracked
  TxsDoNotOverlap
  AssertedPanicsUnreachable
PROPERTIES
  ClosedChannelsKeepContents
