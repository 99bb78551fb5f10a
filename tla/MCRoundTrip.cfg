SPECIFICATION RoundTripSpec
CONSTANTS
  g = g
  a1 = a1
  a2 = a2
  a3 = a3
  Genesis = g
  Block <- MCBlock
  Number <- MCNumber
  Parent <- MCParent
  L1Origin <- MCL1Origin
  NoBlock = NoBlock
  NoChannel = NoChannel
  ChannelID = {c1, c2, c3}
  MaxL1 = 4
  MaxFrames = 2
  TargetNumFrames = 1
  ChannelTimeout = 1
  SubSafetyMargin = 0
  MaxChannelDuration = 0
  SeqWindowSize = 9
  SpanBatches = FALSE
  Scenarios <- MCScenarios
VIEW View
SYMMETRY Symmetric
CHECK_DEADLOCK FALSE
INVARIANTS
  RoundTripTypeOK
  NothingLeftBehind
  PrunedStaysSafe
PROPERTY
  PanicOnlyOnceSafe
