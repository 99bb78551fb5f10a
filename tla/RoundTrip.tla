----------------------------- MODULE RoundTrip -----------------------------
(***************************************************************************)
(* The way of a block from the sequencer through the batcher and L1 back   *)
(* into a rollup node: the channel manager, which gets its sync status     *)
(* from the node that derives from what the batcher put on L1.             *)
(*                                                                         *)
(* L1 includes transactions in any order, which is what failures, nonce    *)
(* gaps and a second batcher process lead to, and a transaction that was   *)
(* reported as failed may still be included, so that its frames are there  *)
(* twice.  L1 does not reorganize here, and the sequencing window does not *)
(* expire.                                                                 *)
(***************************************************************************)
EXTENDS ChannelManager, FiniteSets, SequencesExt

CONSTANTS
  Genesis,     \* the L2 genesis block
  Scenarios    \* what the environment may do

INSTANCE DerivationStages

\* How many L1 and L2 blocks are built, how many transactions may be in flight, and
\* how much goes wrong.
Scenario == [ l1 : 0 .. MaxL1, l2 : Nat, pending : Nat,
              failures : Nat, restarts : Nat, resets : Nat ]

\* A transaction on its way to L1.  What is sent again after a failure is a
\* transaction of its own.
Submission == [id : TxID, attempt : Nat]

ASSUME RoundTripAssumption ==
  /\ Genesis \in Block /\ L1Origin[Genesis] = 0
  /\ \A b \in Block : Number[Genesis] <= Number[b]
  /\ \A b, c \in Block : Number[b] = Number[c] => b = c
  /\ \A b \in Block : L1Origin[b] + SeqWindowSize > MaxL1
  /\ Scenarios \subseteq Scenario

VARIABLES
  loading,  \* the heights that the block loading loop has yet to load
  sent,     \* submissions whose handler has not reported yet
  pool,     \* submissions that L1 may include
  l1,       \* the L1 blocks after the first, each a sequence of submissions
  node,     \* the node's derivation stages
  unsafe,   \* the node's unsafe head
  budget    \* what is left of the scenario

envVars == <<loading, sent, pool, l1, node, unsafe, budget>>
allVars == <<vars, envVars>>

NoRange == <<1, 0>>
L1Head == Len(l1)

BlockAt(n) == CHOOSE b \in Block : Number[b] = n

-----------------------------------------------------------------------------
(* The batcher *)

\* The node's answer to optimism_syncStatus.
Status == [safe |-> node.safe, unsafe |-> unsafe, currentL1 |-> node.origin]

\* A tick of the block loading loop.  A sequencer that is out of sync changes nothing.
Poll ==
  /\ loading = NoRange
  /\ SyncAndPrune(Status)
  /\ loading' = LET range == BlocksToLoad(mgr, Status)
                IN  IF range[1] <= range[2] THEN range ELSE NoRange
  /\ UNCHANGED <<sent, pool, l1, node, unsafe, budget>>

\* One block of the range; one that does not extend the tip is taken for a reorg,
\* and the state is cleared from the safe head on.
LoadBlock ==
  /\ loading # NoRange
  /\ LET b == BlockAt(loading[1])
     IN  IF ExtendsTip(b)
         THEN /\ AddL2Block(b)
              /\ loading' = IF loading[1] = loading[2] THEN NoRange
                            ELSE <<loading[1] + 1, loading[2]>>
         ELSE ClearState(L1Origin[node.safe]) /\ loading' = NoRange
  /\ UNCHANGED <<sent, pool, l1, node, unsafe, budget>>

\* The publishing loop takes what is ready and sends it.
Publish ==
  /\ Cardinality(sent) < budget.pending
  /\ \E r \in TxDataOutcome(mgr, L1Head, mgr.useBlobs,
                            [forcePublish |-> FALSE, ignoreMaxChannelDuration |-> FALSE]) :
       /\ TxData(L1Head, mgr.useBlobs,
                 [forcePublish |-> FALSE, ignoreMaxChannelDuration |-> FALSE], r)
       /\ LET new == IF r.tx = NoTx THEN {} ELSE {[id |-> r.tx, attempt |-> budget.failures]}
          IN  sent' = sent \cup new /\ pool' = pool \cup new
  /\ UNCHANGED <<loading, l1, node, unsafe, budget>>

\* The receipts loop; a transaction of a channel that was cleared is ignored.
Confirm(sub) ==
  /\ \E n \in 1 .. L1Head :
       /\ sub \in ToSet(l1[n])
       /\ IF sub.id \in mgr.txChannels THEN TxConfirmed(sub.id, n) ELSE Running /\ UNCHANGED vars
  /\ sent' = sent \ {sub}
  /\ UNCHANGED <<loading, pool, l1, node, unsafe, budget>>

\* A failure is reported, although the transaction may be included already, or later.
Fail(sub) ==
  /\ budget.failures > 0
  /\ budget' = [budget EXCEPT !.failures = @ - 1]
  /\ IF sub.id \in mgr.txChannels THEN TxFailed(sub.id) ELSE Running /\ UNCHANGED vars
  /\ sent' = sent \ {sub}
  /\ pool' \in {pool, pool \ {sub}}
  /\ UNCHANGED <<loading, l1, node, unsafe>>

\* The batcher process is replaced; what it sent stays in the pool.
RestartBatcher ==
  /\ budget.restarts > 0
  /\ budget' = [budget EXCEPT !.restarts = @ - 1]
  /\ Restart(L1Origin[node.safe], mgr.useBlobs)
  /\ sent' = {} /\ loading' = NoRange
  /\ UNCHANGED <<pool, l1, node, unsafe>>

-----------------------------------------------------------------------------
(* L1, the sequencer and the node *)

\* An L1 block with some of the transactions in the pool, in some order.
MineBlock ==
  /\ budget.l1 > 0
  /\ budget' = [budget EXCEPT !.l1 = @ - 1]
  /\ \E subs \in SUBSET pool : \E order \in SetToSeqs(subs) :
       l1' = Append(l1, order) /\ pool' = pool \ subs
  /\ UNCHANGED <<vars, loading, sent, node, unsafe>>

\* The sequencer builds a block whose L1 origin exists.
SequenceBlock ==
  /\ budget.l2 > 0
  /\ budget' = [budget EXCEPT !.l2 = @ - 1]
  /\ \E b \in Block : Parent[b] = unsafe /\ L1Origin[b] <= L1Head /\ unsafe' = b
  /\ UNCHANGED <<vars, loading, sent, pool, l1, node>>

\* The frames of a transaction (ParseFrames).  The last one of a closed channel says so.
Frames(tx) ==
  [ i \in 1 .. tx.last - tx.first + 1 |->
      LET n == tx.first + i - 1
      IN  [id |-> tx.ch, number |-> n,
           last |-> mgr.chan[tx.ch].full /\ n = mgr.chan[tx.ch].numFrames - 1] ]

\* The frames of an L1 block, as the data sources hand them out.
FramesOf(subs) ==
  LET upTo[n \in 0 .. Len(subs)] ==
        IF n = 0 THEN <<>> ELSE upTo[n - 1] \o Frames(subs[n].id)
  IN  upTo[Len(subs)]

FramesAt(n) == IF n \in DOMAIN l1 THEN FramesOf(l1[n]) ELSE <<>>

NodeAdvances ==
  /\ Drained(node)
  /\ node.origin < L1Head
  /\ node' = AdvanceOrigin(node, FramesAt(node.origin + 1))
  /\ UNCHANGED <<vars, loading, sent, pool, l1, unsafe, budget>>

NodeReads ==
  /\ \/ node.batches # <<>> /\ node' = NextBatch(node)
     \/ /\ node.batches = <<>> /\ node.datas # <<>>
        /\ node' = IngestFrame(node, [id \in ChannelID |-> mgr.chan[id].blocks])
  /\ UNCHANGED <<vars, loading, sent, pool, l1, unsafe, budget>>

\* The node resets to a block that was safe.
ResetNode ==
  /\ budget.resets > 0
  /\ budget' = [budget EXCEPT !.resets = @ - 1]
  /\ \E b \in Block : /\ Number[b] <= Number[node.safe]
                      /\ node' = ResetStages(b, FramesAt(StartOrigin(b)))
  /\ UNCHANGED <<vars, loading, sent, pool, l1, unsafe>>

-----------------------------------------------------------------------------
RoundTripInit ==
  /\ Init /\ mgr.l1OriginLast = 0 /\ ~mgr.useBlobs
  /\ loading = NoRange
  /\ sent = {} /\ pool = {} /\ l1 = <<>>
  /\ node = ResetStages(Genesis, <<>>)
  /\ unsafe = Genesis
  /\ budget \in Scenarios

RoundTripNext ==
  \/ Poll \/ LoadBlock \/ Publish \/ RestartBatcher
  \/ \E sub \in sent : Confirm(sub) \/ Fail(sub)
  \/ MineBlock \/ SequenceBlock \/ NodeAdvances \/ NodeReads \/ ResetNode

RoundTripSpec == RoundTripInit /\ [][RoundTripNext]_allVars

-----------------------------------------------------------------------------
(* Properties *)

\* Every variable has its type; the node and the batcher know of no L1 block that
\* does not exist (initialReset, AdvanceOrigin).
RoundTripTypeOK ==
  /\ mgr \in Manager
  /\ sent \subseteq Submission /\ pool \subseteq Submission
  /\ node.origin \in 0 .. L1Head /\ prevCurrentL1 <= L1Head
  /\ Number[node.safe] <= Number[unsafe]

\* Nothing is left to be done until L1 or the sequencer moves: everything sent was
\* reported, the node has read what is on L1, and a tick or a publication changes
\* nothing.
Settled ==
  /\ Running
  /\ sent = {} /\ pool = {} /\ loading = NoRange
  /\ Drained(node) /\ node.origin = L1Head /\ prevCurrentL1 = L1Head
  /\ BlocksToLoad(mgr, Status)[1] > Number[unsafe]
  /\ Synced(mgr, Status) = mgr
  /\ ReadyIn(mgr) = {} /\ PendingBlocks(mgr) = 0
  /\ \A id \in Queued(mgr) : mgr.chan[id].full /\ mgr.chan[id].maxIncl < L1Head

\* When the batcher thinks that its work is done, it is: whatever was included out
\* of order, twice or too late, the node has derived every block.
NothingLeftBehind == Settled => node.safe = unsafe

\* The node has read everything up to the L1 block that the batcher knows it by.
CaughtUp == Drained(node) /\ node.origin >= prevCurrentL1

\* A block that the batcher has let go of stays safe: a node that was reset derives
\* it again (computeSyncActions, initialReset).
PrunedStaysSafe ==
  CaughtUp /\ mgr.tip # NoBlock =>
    \A b \in Block : Number[node.safe] < Number[b] /\ Number[b] <= Number[mgr.tip] =>
      b \in ToSet(mgr.blocks)

\* The rewind of a timed out channel can panic when its last receipt is handled,
\* because isTimedOut already holds of a channel that spans exactly the timeout and
\* that the node still derives, or of one whose frames are on L1 twice.  But the
\* first block of the channel, which it looks for in vain, is safe then.
PanicOnlyOnceSafe ==
  [][\A sub \in sent \ sent' :
       CaughtUp /\ mgr'.panic = "rewind to nonexistent block" =>
         Number[mgr.chan[sub.id.ch].blocks[1]] <= Number[node.safe]]_allVars
=============================================================================
