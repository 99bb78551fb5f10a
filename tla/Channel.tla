------------------------------- MODULE Channel -------------------------------
(***************************************************************************)
(* One batcher channel: the ChannelBuilder that packs L2 blocks into       *)
(* frames (op-batcher/batcher/channel_builder.go) and the wrapper that     *)
(* tracks the L1 transactions carrying those frames                        *)
(* (op-batcher/batcher/channel.go).  A channel is a record; the methods    *)
(* are operators from a channel to the channel they leave behind, or to    *)
(* the set of channels they may leave behind where the compressor decides. *)
(***************************************************************************)
EXTENDS Integers, Sequences

CONSTANTS
  Block,               \* L2 blocks; a block stands for its hash
  Number,              \* [Block -> Nat], the block's height
  L1Origin,            \* [Block -> Nat], number of the block's L1 origin
  ChannelID,           \* random 16-byte channel identifiers
  MaxFrames,           \* bound: frames cut from one channel (uint16 in the code)
  TargetNumFrames,     \* ChannelConfig.TargetNumFrames, the blobs per blob tx
  ChannelTimeout,      \* ChannelConfig.ChannelTimeout
  SubSafetyMargin,     \* ChannelConfig.SubSafetyMargin
  MaxChannelDuration,  \* ChannelConfig.MaxChannelDuration, 0 disables it
  SeqWindowSize,       \* ChannelConfig.SeqWindowSize
  SpanBatches          \* TRUE iff ChannelConfig.BatchType is SpanBatchType

ASSUME BlockAssumption ==
  /\ Number \in [Block -> Nat]
  /\ L1Origin \in [Block -> Nat]

\* ChannelConfig.Check and the shipped defaults: both subtractions of
\* SubSafetyMargin stay in range, and a sequencing window timeout is never 0.
ASSUME ConfigAssumption ==
  /\ MaxFrames \in Nat \ {0}
  /\ TargetNumFrames \in Nat \ {0}
  /\ ChannelTimeout \in Nat
  /\ SubSafetyMargin \in 0..ChannelTimeout
  /\ MaxChannelDuration \in Nat
  /\ SeqWindowSize \in Nat
  /\ SubSafetyMargin < SeqWindowSize
  /\ SpanBatches \in BOOLEAN

(***************************************************************************)
(* The identifier of a transaction is the list of its frame identifiers:   *)
(* the channel and the consecutive frames first .. last.  Sending the same *)
(* frames again gives the same identifier.                                 *)
(***************************************************************************)
TxID == [ch : ChannelID, first : Nat, last : Nat]

Channel ==
  [ blocks      : Seq(Block),    \* blocks added, oldest first
    useBlobs    : BOOLEAN,       \* cfg.UseBlobs when the channel was created
    full        : BOOLEAN,       \* fullErr != nil
    timeout     : Nat,           \* L1 block at which to close it, 0 if unset
    numFrames   : Nat,           \* frames produced: numbers 0 .. numFrames-1
    frameCursor : Nat,           \* next frame to submit
    pending     : SUBSET TxID,   \* pendingTransactions
    confirmed   : SUBSET TxID,   \* confirmedTransactions
    minIncl     : Nat,           \* min / max inclusion block of confirmed,
    maxIncl     : Nat ]          \*   meaningful once confirmed # {}

-----------------------------------------------------------------------------
(* Observers *)

MaxFramesPerTx(c) == IF c.useBlobs THEN TargetNumFrames ELSE 1

PendingFrames(c) == c.numFrames - c.frameCursor


\* Mutant: a blob channel that is still open sends less than a full transaction.
HasTxDataEager(c) == PendingFrames(c) > 0

HasTxData(c) ==
  IF c.full \/ ~c.useBlobs
  THEN PendingFrames(c) > 0
  ELSE PendingFrames(c) >= MaxFramesPerTx(c)

NoneSubmitted(c) == c.confirmed = {} /\ c.pending = {}

IsFullySubmitted(c) == c.full /\ c.pending = {} /\ PendingFrames(c) = 0

IsTimedOut(c) == c.confirmed # {} /\ c.maxIncl - c.minIncl >= ChannelTimeout

\* Blocks are added in the order of the chain, so the last one is the newest
\* and has the newest L1 origin.
LatestL2(c) == IF c.blocks = <<>> THEN 0 ELSE Number[c.blocks[Len(c.blocks)]]
LatestL1Origin(c) == IF c.blocks = <<>> THEN 0 ELSE L1Origin[c.blocks[Len(c.blocks)]]

-----------------------------------------------------------------------------
(* Methods of ChannelBuilder *)

\* The earliest timeout wins; 0 means that none is set.
UpdateTimeout(timeout, l1BlockNum) ==
  IF timeout = 0 \/ timeout > l1BlockNum THEN l1BlockNum ELSE timeout

\* newChannel: the duration timeout counts from the L1 origin of the channel
\* submitted last.
NewChannel(useBlobs, l1OriginLast) ==
  [ blocks |-> <<>>, useBlobs |-> useBlobs, full |-> FALSE,
    timeout |-> IF MaxChannelDuration = 0 THEN 0
                ELSE UpdateTimeout(0, l1OriginLast + MaxChannelDuration),
    numFrames |-> 0, frameCursor |-> 0, pending |-> {}, confirmed |-> {},
    minIncl |-> 0, maxIncl |-> 0 ]

\* AddBlock for each of the blocks bs, in order.  Origins never decrease along
\* the chain, so the first block sets the earliest sequencing window timeout.
AddBlocks(c, bs) ==
  IF bs = <<>> THEN c
  ELSE [ c EXCEPT
           !.blocks = @ \o bs,
           !.timeout = UpdateTimeout(@, L1Origin[bs[1]] + SeqWindowSize - SubSafetyMargin) ]

CheckTimeout(c, l1Head) ==
  [c EXCEPT !.full = @ \/ (c.timeout # 0 /\ l1Head >= c.timeout)]

\* OutputFrames: a full channel is closed and its remaining data is cut into at
\* least one frame, the last.  An open one yields the frames whose data the
\* compressor has already released; a span batch releases nothing before it is
\* closed.
OutputFrames(c) ==
  CASE c.full                 -> {[c EXCEPT !.numFrames = n] : n \in c.numFrames + 1 .. MaxFrames}
    [] ~c.full /\ SpanBatches -> {c}
    [] OTHER                  -> {[c EXCEPT !.numFrames = n] : n \in c.numFrames .. MaxFrames - 1}

-----------------------------------------------------------------------------
(* Methods of channel *)

\* The frames NextTxData dequeues: as many as one transaction carries, or all
\* that are left.
NextTx(id, c) ==
  LET upTo == c.frameCursor + MaxFramesPerTx(c)
  IN  [ch |-> id, first |-> c.frameCursor,
       last |-> (IF upTo < c.numFrames THEN upTo ELSE c.numFrames) - 1]

NextTxData(id, c) ==
  [c EXCEPT !.frameCursor = NextTx(id, c).last + 1, !.pending = @ \cup {NextTx(id, c)}]

\* RewindFrameCursor panics on a frame the channel does not have.
KnowsFrame(c, frame) == frame < c.numFrames


\* Mutant: the failed frames are not put back.
ChannelTxFailedNoRewind(c, tx) == [c EXCEPT !.pending = @ \ {tx}]

ChannelTxFailed(c, tx) ==
  IF tx \in c.pending
  THEN [c EXCEPT !.frameCursor = IF @ > tx.first THEN tx.first ELSE @,
                 !.pending = @ \ {tx}]
  ELSE c

ChannelTxConfirmed(c, tx, l1BlockNum) ==
  IF tx \in c.pending
  THEN [c EXCEPT
          !.pending = @ \ {tx},
          !.confirmed = @ \cup {tx},
          !.timeout = UpdateTimeout(@, l1BlockNum + ChannelTimeout - SubSafetyMargin),
          !.minIncl = IF c.confirmed = {} \/ l1BlockNum < @ THEN l1BlockNum ELSE @,
          !.maxIncl = IF l1BlockNum > @ THEN l1BlockNum ELSE @]
  ELSE c
=============================================================================
