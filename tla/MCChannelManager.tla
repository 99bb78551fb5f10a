-------------------------- MODULE MCChannelManager --------------------------
(***************************************************************************)
(* A small instance of ChannelManager: two branches of the L2 chain that   *)
(* part above the first block, and an L1 origin that advances every other  *)
(* block.                                                                  *)
(***************************************************************************)
EXTENDS ChannelManager, TLC

CONSTANTS g, a1, a2, b2

MCBlock == {g, a1, a2, b2}
MCNumber == (g :> 0) @@ (a1 :> 1) @@ (a2 :> 2) @@ (b2 :> 2)
MCParent == (g :> NoBlock) @@ (a1 :> g) @@ (a2 :> a1) @@ (b2 :> a1)
MCL1Origin == (g :> 0) @@ (a1 :> 0) @@ (a2 :> 1) @@ (b2 :> 1)

\* Channels that neither the queue nor txChannels refers to play no further part.
Reachable == Queued(mgr) \cup {tx.ch : tx \in mgr.txChannels}
ReachableState ==
  <<[mgr EXCEPT !.chan = [id \in Reachable |-> mgr.chan[id]]],
    {id \in ChannelID : mgr.chan[id].blocks # <<>>}, prevCurrentL1>>

Symmetric == Permutations(ChannelID)
=============================================================================
