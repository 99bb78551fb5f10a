SPECIFICATION Spec
CONSTANTS
  NoBlock = NoBlock
  L1Block = {"o"}
  L1Number <- MCL1Number
  L1Parent <- MCL1Parent
  L1Genesis = "o"
  L2Block <- MCL2Block
  Number <- MCNumber
  Parent <- MCParent
  Genesis = "g"
  L1Origin <- MCL1Origin
  Batches <- MCBatches
  Concluding = {}
  Invalid = {}
  DepositsOnly <- MCDepositsOnly
  SyncLookback = 0
  Server = {"p", "q"}
  Leader0 = "p"
  Builder <- MCBuilder
  Scenarios <- MCScenariosReorg
INVARIANTS
  NoUnsafeReorg
CHECK_DEADLOCK FALSE
