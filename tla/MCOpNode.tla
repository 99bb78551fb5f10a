------------------------------ MODULE MCOpNode ------------------------------
EXTENDS OpNode, TLC

MCL1Block == {"a0", "a1", "a2", "b1", "b2", "b3"}
MCL1Number == [a0 |-> 0, a1 |-> 1, a2 |-> 2, b1 |-> 1, b2 |-> 2,
              b3 |-> 3] @@ (NoBlock :> 0)
MCL1Parent == [a0 |-> NoBlock, a1 |-> "a0", a2 |-> "a1", b1 |-> "a0", b2 |-> "b1",
              b3 |-> "b2"]

MCL2Block == {"g", "x1", "x2", "y1", "d1", "y2"}
MCNumber == [g |-> 0, x1 |-> 1, x2 |-> 2, y1 |-> 1, d1 |-> 1, y2 |-> 2] @@ (NoBlock :> 0)
MCParent == [g |-> NoBlock, x1 |-> "g", x2 |-> "x1", y1 |-> "g", d1 |-> "g", y2 |-> "d1"]
MCL1Origin == [g |-> "a0", x1 |-> "a0", x2 |-> "a1", y1 |-> "a0", d1 |-> "a0", y2 |-> "b1"]

MCBatches == [a0 |-> {}, a1 |-> {"x1"}, a2 |-> {"x2"}, b1 |-> {"y1"}, b2 |-> {}, b3 |-> {"y2"}]
MCConcluding == {"x1", "x2", "y1", "y2"}
MCInvalid == {"y1"}
MCDepositsOnly == [y1 |-> "d1"]

Bounds(gossip, finalizing, faults, reorgs, restarts, manual) ==
  [ gossip |-> gossip, finalizing |-> finalizing, faults |-> faults, reorgs |-> reorgs,
    restarts |-> restarts, manual |-> manual ]

L1Reorganizes == Bounds({"x1", "y1"}, {}, 0, 1, 0, 0)
CallsFail == Bounds({"x1", "y1"}, {}, 1, 0, 0, 0)
NodeRestarts == Bounds({"x1"}, {"a1"}, 0, 0, 1, 1)
FinalityMeetsReorg == Bounds({}, {"a1", "a2", "b1", "b2"}, 0, 1, 0, 0)
FinalityMeetsFault == Bounds({"x1", "y1"}, {"a1"}, 1, 0, 0, 0)
RestartMeetsFault == Bounds({}, {"a2", "b3"}, 1, 0, 1, 0)
OneReorg == Bounds({}, {}, 0, 1, 0, 0)

MCScenarios == {L1Reorganizes, CallsFail, NodeRestarts}
MCScenariosFinality == {FinalityMeetsReorg, FinalityMeetsFault, RestartMeetsFault}
MCScenariosStale == {FinalityMeetsReorg}
MCScenariosLive == {OneReorg}
=============================================================================
