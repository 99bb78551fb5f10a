SPECIFICATION Spec
CONSTANTS
  NoBlock = NoBlock
  NoAttributes = NoAttributes
  L1Block <- MCL1Block
  L1Number <- MCL1Number
  L1Parent <- MCL1Parent
  L1Genesis = "a0"
  L2Block <- MCL2Block
  Number <- MCNumber
  Parent <- MCParent
  Genesis = "g"
  L1Origin <- MCL1Origin
  Batches <- MCBatches
  Concluding <- MCConcluding
  Invalid <- MCInvalid
  DepositsOnly <- MCDepositsOnly
  SyncLookback = 1
  ChannelTimeout = 1
  FinalityLookback = 2
  FinalityDelay = 1
  Scenarios <- MCScenariosStale
INVARIANTS
  SafeIsDerived
