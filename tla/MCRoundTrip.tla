---------------------------- MODULE MCRoundTrip ----------------------------
EXTENDS RoundTrip, TLC

CONSTANTS g, a1, a2, a3

MCBlock == {g, a1, a2, a3}
MCNumber == (g :> 0) @@ (a1 :> 1) @@ (a2 :> 2) @@ (a3 :> 3)
MCParent == (g :> NoBlock) @@ (a1 :> g) @@ (a2 :> a1) @@ (a3 :> a2)
MCL1Origin == (g :> 0) @@ (a1 :> 0) @@ (a2 :> 1) @@ (a3 :> 1)

Bounds(mined, built, pending, failures, restarts, resets) ==
  [ l1 |-> mined, l2 |-> built, pending |-> pending,
    failures |-> failures, restarts |-> restarts, resets |-> resets ]

\* No faults; a failure; a new batcher process; a reset of the node.
MCScenarios ==
  { Bounds(4, 2, 2, 0, 0, 0), Bounds(3, 1, 2, 1, 0, 0),
    Bounds(3, 1, 2, 0, 1, 0), Bounds(2, 3, 1, 0, 0, 1) }

\* L1 blocks that the node has read matter for receipts that are still to come, and
\* to a node that is reset.
Remembered(n) ==
  IF n > node.origin \/ budget.resets > 0 THEN l1[n]
  ELSE SelectSeq(l1[n], LAMBDA sub : sub \in sent)
L1View == [n \in DOMAIN l1 |-> Remembered(n)]

\* Channels that nothing refers to play no further part.
Alive ==
  Queued(mgr) \cup {tx.ch : tx \in mgr.txChannels} \cup {sub.id.ch : sub \in sent \cup pool}
  \cup UNION {{sub.id.ch : sub \in ToSet(L1View[n])} : n \in DOMAIN l1}
  \cup {f.id : f \in ToSet(node.datas)} \cup ({node.channel.id} \cap ChannelID)
View ==
  <<[mgr EXCEPT !.chan = [id \in Alive |-> mgr.chan[id]]],
    {id \in ChannelID : mgr.chan[id].blocks # <<>>},
    prevCurrentL1, loading, sent, pool, L1View, node, unsafe, budget>>

Symmetric == Permutations(ChannelID)
=============================================================================
