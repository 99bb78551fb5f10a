--------------------------- MODULE MCBatcherDriver ---------------------------
(***************************************************************************)
(* A small instance of BatcherDriver: a genesis block, and two branches    *)
(* that part at the first block after it.                                  *)
(***************************************************************************)
EXTENDS BatcherDriver, TLC

CONSTANTS g, a1, b1

MCBlock == {g, a1, b1}
MCNumber == [b \in Block |-> IF b = g THEN 0 ELSE 1]
MCParent == [b \in Block |-> IF b = g THEN NoBlock ELSE g]
MCL1Origin == [b \in Block |-> 0]

\* Channels that nothing refers to any more play no further part.
Reachable == Queued(mgr) \cup {tx.ch : tx \in mgr.txChannels \cup Outstanding}
ReachableState ==
  <<[mgr EXCEPT !.chan = [id \in Reachable \cap ChannelID |-> mgr.chan[id]]],
    {id \in ChannelID : mgr.chan[id].blocks # <<>>}, prevCurrentL1, loops,
    config>>

Symmetric == Permutations(ChannelID)
=============================================================================
