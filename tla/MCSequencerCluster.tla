------------------------- MODULE MCSequencerCluster -------------------------
EXTENDS SequencerCluster, TLC

\* p has two jobs for genesis, so it can build again what expired; p and q may each
\* build on p1.
MCL2Block == {"g", "p1", "r1", "p2", "q2"}
MCNumber == [g |-> 0, p1 |-> 1, r1 |-> 1, p2 |-> 2, q2 |-> 2] @@ (NoBlock :> 0)
MCParent == [g |-> NoBlock, p1 |-> "g", r1 |-> "g", p2 |-> "p1", q2 |-> "p1"]
MCBuilder == [g |-> "p", p1 |-> "p", r1 |-> "p", p2 |-> "p", q2 |-> "q"]
MCL1Origin == [b \in MCL2Block |-> "o"]
MCL1Number == ("o" :> 0) @@ (NoBlock :> 0)
MCL1Parent == [o |-> NoBlock]
MCBatches == [o |-> {}]
MCDepositsOnly == [b \in {} |-> b]

Bounds(elections, lost, faults, restarts, ill, stalls) ==
  [ elections |-> elections, lost |-> lost, faults |-> faults, restarts |-> restarts,
    ill |-> ill, stalls |-> stalls ]

UpdateOwed == Bounds(0, 0, 2, 0, 0, FALSE)
AnswerLost == Bounds(1, 1, 0, 0, 0, FALSE)
NodeRestarts == Bounds(0, 0, 0, 1, 1, FALSE)
RestartStalls == Bounds(0, 0, 0, 1, 0, TRUE)
LostThenExpires == Bounds(1, 1, 1, 0, 0, FALSE)
ElectedTwice == Bounds(2, 0, 0, 0, 0, FALSE)

MCScenarios == {UpdateOwed, LostThenExpires, NodeRestarts, RestartStalls}
MCScenariosLive == {AnswerLost}
MCScenariosReorg == {ElectedTwice}
=============================================================================
