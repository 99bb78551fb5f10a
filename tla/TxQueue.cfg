SPECIFICATION FairSpec
CONSTANTS
  Tx = {t1, t2, t3}
  MaxPending = 2
  MaxConcurrentDARequests = 2
CHECK_DEADLOCK FALSE
INVARIANTS
  SerialSendersReport
  SerialSendsBounded
PROPERTIES
  KillEndsPublishing
