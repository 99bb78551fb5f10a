--------------------------- MODULE ChannelManager ---------------------------
(***************************************************************************)
(* The batcher's channelManager (op-batcher/batcher/channel_manager.go)    *)
(* and computeSyncActions (sync_actions.go): everything that runs under    *)
(* BatchSubmitter.channelMgrMutex.  Three goroutines call it: the block    *)
(* loading loop (syncAndPrune, AddL2Block, Clear), the publishing loop     *)
(* (TxData) and the receipts loop (TxFailed, TxConfirmed).  Each call is   *)
(* atomic, and here the callers may make any call, with any argument, in   *)
(* any order; BatcherDriver restricts them to what the loops do.           *)
(***************************************************************************)
EXTENDS Channel

CONSTANTS
  Parent,      \* [Block -> Block \cup {NoBlock}], the parent hash
  NoBlock,     \* the zero hash
  NoChannel,   \* the nil channel
  MaxL1        \* bound: L1 block numbers are 0 .. MaxL1

\* The header of a block fixes its height from its parent's, and a block's L1
\* origin is never older than its parent's.
ASSUME ChainAssumption ==
  /\ NoBlock \notin Block
  /\ Parent \in [Block -> Block \cup {NoBlock}]
  /\ \A b \in Block : Parent[b] # NoBlock =>
       /\ Number[b] = Number[Parent[b]] + 1
       /\ L1Origin[b] >= L1Origin[Parent[b]]
  /\ NoChannel \notin ChannelID
  /\ MaxL1 \in Nat

VARIABLES
  mgr,            \* the channelManager, and the channels it has created
  prevCurrentL1   \* BatchSubmitter.prevCurrentL1

vars == <<mgr, prevCurrentL1>>

L1Number == 0 .. MaxL1
NoTx == [ch |-> NoChannel, first |-> 0, last |-> 0]

(***************************************************************************)
(* chan holds every channel by its identifier, because txChannels keeps    *)
(* channels alive after they left channelQueue; an identifier that was     *)
(* never drawn maps to a channel without blocks.  txChannels is the key    *)
(* set of the map, whose value is the channel the key names.               *)
(***************************************************************************)
PanicReason == {"none", "nil currentChannel", "rewind to nonexistent block",
                "rewind to unknown frame", "prune more blocks than available"}

Manager ==
  [ blocks         : Seq(Block),
    blockCursor    : Nat,
    l1OriginLast   : Nat,
    useBlobs       : BOOLEAN,
    tip            : Block \cup {NoBlock},
    currentChannel : ChannelID \cup {NoChannel},
    channelQueue   : Seq(ChannelID),
    txChannels     : SUBSET TxID,
    chan           : [ChannelID -> Channel],
    panic          : PanicReason ]

SyncStatus ==
  [ safe : Block \cup {NoBlock}, unsafe : Block \cup {NoBlock}, currentL1 : L1Number ]

PubInfo == [forcePublish : BOOLEAN, ignoreMaxChannelDuration : BOOLEAN]

-----------------------------------------------------------------------------
(* Helpers *)

Panic(s, why) == [s EXCEPT !.panic = why]

PendingBlocks(s) == Len(s.blocks) - s.blockCursor

Queued(s) == {s.channelQueue[i] : i \in DOMAIN s.channelQueue}

\* The smallest of a set of positions.
FirstOf(S) == CHOOSE i \in S : \A j \in S : i <= j

Cleared(s, l1Origin) ==
  [ s EXCEPT !.blocks = <<>>, !.blockCursor = 0, !.l1OriginLast = l1Origin,
             !.tip = NoBlock, !.currentChannel = NoChannel,
             !.channelQueue = <<>>, !.txChannels = {} ]

\* rewindToBlock indexes the queue by height difference: an index that is
\* negative (it wraps around in uint64), out of range, not behind the cursor, or
\* of another block panics.
RewindToBlock(s, b) ==
  LET idx == Number[b] - Number[s.blocks[1]]
  IN  IF s.blocks # <<>> /\ idx \in 0 .. s.blockCursor - 1 /\ s.blocks[idx + 1] = b
      THEN [s EXCEPT !.blockCursor = idx]
      ELSE Panic(s, "rewind to nonexistent block")

\* Mutant: receipts are still attributed to the dropped channels.
DropFromStaysMapped(s, p) ==
  [s EXCEPT !.channelQueue = SubSeq(@, 1, p - 1), !.currentChannel = NoChannel]

\* Drops the channel at position p of the queue and all that follow it, with
\* their transactions.
DropFrom(s, p) ==
  LET dropped == {s.channelQueue[i] : i \in p .. Len(s.channelQueue)}
  IN  [ s EXCEPT !.channelQueue = SubSeq(@, 1, p - 1),
                 !.txChannels = {tx \in @ : tx.ch \notin dropped},
                 !.currentChannel = NoChannel ]


\* Mutant: the blocks of the dropped channels are not put back.
HandleChannelInvalidatedNoRewind(s, id) ==
  LET at == {i \in DOMAIN s.channelQueue : s.channelQueue[i] = id}
  IN  DropFrom(s, IF at = {} THEN 1 ELSE FirstOf(at))

\* A channel that is no longer queued gets the index of the first one.
HandleChannelInvalidated(s, id) ==
  LET c == s.chan[id]
      r == IF c.blocks = <<>> THEN s ELSE RewindToBlock(s, c.blocks[1])
      at == {i \in DOMAIN s.channelQueue : s.channelQueue[i] = id}
  IN  IF r.panic # "none" THEN r
      ELSE DropFrom(r, IF at = {} THEN 1 ELSE FirstOf(at))

-----------------------------------------------------------------------------
(***************************************************************************)
(* getReadyChannel.  Each operator gives the set of states it may leave,   *)
(* one for each way the compressor may decide how many blocks fit and how  *)
(* much output is ready.                                                   *)
(***************************************************************************)
WithCurrent(s, cs) == {[s EXCEPT !.chan[s.currentChannel] = c] : c \in cs}


\* Mutant: blocks are added to a current channel that is full.
EnsureChannelIgnoringFull(s) ==
  IF s.currentChannel # NoChannel THEN {s}
  ELSE {[ s EXCEPT !.currentChannel = id,
                   !.channelQueue = Append(@, id),
                   !.chan[id] = NewChannel(s.useBlobs, s.l1OriginLast) ]
        : id \in {i \in ChannelID : s.chan[i].blocks = <<>>}}

EnsureChannelWithSpace(s) ==
  IF s.currentChannel # NoChannel /\ ~s.chan[s.currentChannel].full
  THEN {s}
  ELSE {[ s EXCEPT !.currentChannel = id,
                   !.channelQueue = Append(@, id),
                   !.chan[id] = NewChannel(s.useBlobs, s.l1OriginLast) ]
        : id \in {i \in ChannelID : s.chan[i].blocks = <<>>}}

\* Adds k blocks from the cursor on.  The channel is not full only if all the
\* pending blocks went in; it is full if the last block added filled it or the
\* next one was rejected.  A block always fits into an empty channel.
ProcessBlocks(s) ==
  LET c == s.chan[s.currentChannel]
      Upcoming(k) == SubSeq(s.blocks, s.blockCursor + 1, s.blockCursor + k)
      Outcome == {r \in (0 .. PendingBlocks(s)) \X BOOLEAN :
                    IF r[2] THEN r[1] > 0 \/ c.blocks # <<>>
                            ELSE r[1] = PendingBlocks(s)}
  IN  {[ s EXCEPT !.blockCursor = @ + r[1],
                  !.chan[s.currentChannel] = [AddBlocks(c, Upcoming(r[1])) EXCEPT !.full = r[2]] ]
       : r \in Outcome}

RegisterL1Block(s, l1Head) ==
  [s EXCEPT !.chan[s.currentChannel] = CheckTimeout(@, l1Head)]

FillCurrentChannel(s, l1Head, pi) ==
  UNION { LET v == IF pi.ignoreMaxChannelDuration THEN u ELSE RegisterL1Block(u, l1Head)
          IN  WithCurrent(v, OutputFrames(v.chan[v.currentChannel]))
          : u \in UNION {ProcessBlocks(t) : t \in EnsureChannelWithSpace(s)} }

\* forcePublish closes the current channel if it has no frames yet.
ForceClose(s, pi) ==
  IF pi.forcePublish /\ s.chan[s.currentChannel].numFrames = 0
  THEN WithCurrent(s, OutputFrames([s.chan[s.currentChannel] EXCEPT !.full = TRUE]))
  ELSE {s}

ReadyIn(s) == {i \in DOMAIN s.channelQueue : HasTxData(s.chan[s.channelQueue[i]])}

FindReadyChannel(s, l1Head, pi) ==
  CASE ReadyIn(s) # {} ->
         {[s |-> s, ch |-> s.channelQueue[FirstOf(ReadyIn(s))]]}
    [] ReadyIn(s) = {} /\ PendingBlocks(s) = 0 ->
         {[s |-> s, ch |-> NoChannel]}
    [] OTHER ->
         {[s |-> u, ch |-> IF HasTxData(u.chan[u.currentChannel]) THEN u.currentChannel
                           ELSE NoChannel]
          : u \in FillCurrentChannel(s, l1Head, pi)}

GetReadyChannel(s, l1Head, pi) ==
  IF pi.forcePublish /\ s.currentChannel = NoChannel
  THEN {[s |-> Panic(s, "nil currentChannel"), ch |-> NoChannel]}
  ELSE UNION {FindReadyChannel(t, l1Head, pi) : t \in ForceClose(s, pi)}

\* nextTxData of the manager: dequeues the next transaction of channel ch, or
\* reports io.EOF (NoTx) if there is none.
DequeueTx(s, ch) ==
  IF ch = NoChannel \/ ~HasTxData(s.chan[ch])
  THEN [s |-> s, tx |-> NoTx]
  ELSE LET c == s.chan[ch]
           origin == LatestL1Origin(c)
       IN  [ s |-> [ s EXCEPT !.chan[ch] = NextTxData(ch, c),
                              !.l1OriginLast = IF origin > @ THEN origin ELSE @,
                              !.txChannels = @ \cup {NextTx(ch, c)} ],
             tx |-> NextTx(ch, c) ]

\* Invalidates the ready channel and builds again under the other DA type.
SwitchDAType(s, ch, l1Head, useBlobs, pi) ==
  LET t == HandleChannelInvalidated(s, ch)
  IN  IF t.panic # "none" THEN {[s |-> t, tx |-> NoTx]}
      ELSE {DequeueTx(g.s, g.ch)
            : g \in GetReadyChannel([t EXCEPT !.useBlobs = useBlobs], l1Head, pi)}

TxDataOutcome(s, l1Head, useBlobs, pi) ==
  UNION { IF g.ch # NoChannel /\ NoneSubmitted(g.s.chan[g.ch]) /\ useBlobs # g.s.useBlobs
          THEN SwitchDAType(g.s, g.ch, l1Head, useBlobs, pi)
          ELSE {DequeueTx(g.s, g.ch)}
          : g \in GetReadyChannel(s, l1Head, pi) }

-----------------------------------------------------------------------------
(* computeSyncActions *)

\* A channel is completely on L1, the sequencer has read past its last
\* transaction, and the safe head still does not reach its last block.
ExpectedProgressMissing(s, ss) ==
  \E i \in DOMAIN s.channelQueue :
    LET c == s.chan[s.channelQueue[i]]
    IN  /\ IsFullySubmitted(c)
        /\ ~IsTimedOut(c)
        /\ ss.currentL1 > c.maxIncl
        /\ Number[ss.safe] < LatestL2(c)

\* Blocks of the queue that became safe, counted from its front.
NumBlocksToDequeue(s, ss) == Number[ss.safe] + 1 - Number[s.blocks[1]]

NumChannelsToPrune(s, ss) ==
  LET unsafeAt == {i \in DOMAIN s.channelQueue :
                     LatestL2(s.chan[s.channelQueue[i]]) > Number[ss.safe]}
  IN  IF unsafeAt = {} THEN Len(s.channelQueue) ELSE FirstOf(unsafeAt) - 1

OutOfSync(ss, prev) ==
  ss.safe = NoBlock \/ ss.unsafe = NoBlock \/ ss.currentL1 < prev


\* Mutant: a safe head beyond the newest block held goes unnoticed.
StartAfreshUnlessAhead(s, ss) ==
  LET n == NumBlocksToDequeue(s, ss)
  IN  /\ s.blocks # <<>>
      /\ \/ n < 0
         \/ n \in 1 .. Len(s.blocks) /\ s.blocks[n] # ss.safe
         \/ ExpectedProgressMissing(s, ss)

\* The state no longer matches the sequencer: start over from its safe head.
StartAfresh(s, ss) ==
  LET n == NumBlocksToDequeue(s, ss)
  IN  /\ s.blocks # <<>>
      /\ \/ n < 0
         \/ n > Len(s.blocks)
         \/ n > 0 /\ s.blocks[n] # ss.safe
         \/ ExpectedProgressMissing(s, ss)

\* The heights syncAndPrune asks the loader for, as <<start, end>>; an empty
\* range stands for nil.
BlocksToLoad(s, ss) ==
  IF s.blocks = <<>> \/ StartAfresh(s, ss)
  THEN <<Number[ss.safe] + 1, Number[ss.unsafe]>>
  ELSE <<Number[s.blocks[Len(s.blocks)]] + 1, Number[ss.unsafe]>>


\* Mutant: the cursor may lie among the pruned blocks, and underflows.
PruneSafeBlocksUnguarded(s, n) ==
  [s EXCEPT !.blocks = SubSeq(@, n + 1, Len(@)), !.blockCursor = @ - n]

PruneSafeBlocks(s, n) ==
  IF n > Len(s.blocks) THEN Panic(s, "prune more blocks than available")
  ELSE [ s EXCEPT !.blocks = SubSeq(@, n + 1, Len(@)),
                  !.blockCursor = IF @ > n THEN @ - n ELSE 0 ]

PruneChannels(s, n) ==
  [ s EXCEPT !.channelQueue = SubSeq(@, n + 1, Len(@)),
             !.currentChannel =
               IF \E i \in 1 .. n : s.channelQueue[i] = @ THEN NoChannel ELSE @ ]

\* What syncAndPrune does to the manager once the sequencer is in sync.
Synced(s, ss) ==
  CASE s.blocks = <<>>    -> s
    [] StartAfresh(s, ss) -> Cleared(s, L1Origin[ss.safe])
    [] OTHER              -> PruneChannels(PruneSafeBlocks(s, NumBlocksToDequeue(s, ss)),
                                           NumChannelsToPrune(s, ss))

-----------------------------------------------------------------------------
(* Operations.  A panic ends the process; only a restart follows it. *)

Running == mgr.panic = "none"

Init ==
  \E useBlobs \in BOOLEAN, l1Origin \in L1Number :
    /\ mgr = [ blocks |-> <<>>, blockCursor |-> 0, l1OriginLast |-> l1Origin,
               useBlobs |-> useBlobs, tip |-> NoBlock, currentChannel |-> NoChannel,
               channelQueue |-> <<>>, txChannels |-> {},
               chan |-> [id \in ChannelID |-> [NewChannel(FALSE, 0) EXCEPT !.timeout = 0]],
               panic |-> "none" ]
    /\ prevCurrentL1 = 0


\* Mutant: the parent hash is not compared with the tip.
ExtendsTipUnchecked(b) == TRUE

\* Fails with ErrReorg, leaving the state alone, unless b extends the tip.
ExtendsTip(b) == mgr.tip = NoBlock \/ Parent[b] = mgr.tip

AddL2Block(b) ==
  /\ Running
  /\ ExtendsTip(b)
  /\ mgr' = [mgr EXCEPT !.blocks = Append(@, b), !.tip = b]
  /\ UNCHANGED prevCurrentL1


\* Mutant: txChannels keeps the transaction.
TxFailedStaysMapped(tx) ==
  /\ Running
  /\ tx \in mgr.txChannels
  /\ mgr' = [mgr EXCEPT !.chan[tx.ch] = ChannelTxFailed(@, tx)]
  /\ UNCHANGED prevCurrentL1

TxFailed(tx) ==
  /\ Running
  /\ tx \in mgr.txChannels
  /\ LET c == mgr.chan[tx.ch]
     IN  mgr' = IF tx \in c.pending /\ ~KnowsFrame(c, tx.first)
                THEN Panic(mgr, "rewind to unknown frame")
                ELSE [mgr EXCEPT !.txChannels = @ \ {tx},
                                 !.chan[tx.ch] = ChannelTxFailed(c, tx)]
  /\ UNCHANGED prevCurrentL1

TxConfirmed(tx, l1BlockNum) ==
  /\ Running
  /\ tx \in mgr.txChannels
  /\ LET c == ChannelTxConfirmed(mgr.chan[tx.ch], tx, l1BlockNum)
         s == [mgr EXCEPT !.txChannels = @ \ {tx}, !.chan[tx.ch] = c]
     IN  mgr' = IF tx \in mgr.chan[tx.ch].pending /\ IsTimedOut(c)
                THEN HandleChannelInvalidated(s, tx.ch)
                ELSE s
  /\ UNCHANGED prevCurrentL1

\* r is one of the outcomes in TxDataOutcome: r.tx is what the caller gets, a
\* transaction to send or NoTx for io.EOF.
TxData(l1Head, useBlobs, pi, r) ==
  /\ Running
  /\ mgr' = r.s
  /\ UNCHANGED prevCurrentL1

SyncAndPrune(ss) ==
  /\ Running
  /\ ~OutOfSync(ss, prevCurrentL1)
  /\ prevCurrentL1' = ss.currentL1
  /\ mgr' = Synced(mgr, ss)

ClearState(l1Origin) ==
  /\ Running
  /\ mgr' = Cleared(mgr, l1Origin)
  /\ UNCHANGED prevCurrentL1

\* A new process: NewBatchSubmitter, then StartBatchSubmitting clears the state.
Restart(l1Origin, useBlobs) ==
  /\ mgr' = [Cleared(mgr, l1Origin) EXCEPT !.useBlobs = useBlobs, !.panic = "none"]
  /\ prevCurrentL1' = 0

Next ==
  \/ \E b \in Block : AddL2Block(b)
  \/ \E tx \in mgr.txChannels : TxFailed(tx)
  \/ \E tx \in mgr.txChannels, n \in L1Number : TxConfirmed(tx, n)
  \/ \E l1Head \in L1Number, useBlobs \in BOOLEAN, pi \in PubInfo :
       \E r \in TxDataOutcome(mgr, l1Head, useBlobs, pi) : TxData(l1Head, useBlobs, pi, r)
  \/ \E ss \in SyncStatus : SyncAndPrune(ss)
  \/ \E o \in L1Number : ClearState(o)
  \/ \E o \in L1Number, useBlobs \in BOOLEAN : Restart(o, useBlobs)

Spec == Init /\ [][Next]_vars
-----------------------------------------------------------------------------
(* Properties *)

\* Every field of the manager has its Go type, and positions are in range.
TypeOK == mgr \in Manager /\ prevCurrentL1 \in L1Number

IsChain(bs) == \A i \in 1 .. Len(bs) - 1 : Parent[bs[i + 1]] = bs[i]

LastOf(bs) == bs[Len(bs)]

\* The blocks held are a segment of one L2 chain ending at the tip, whatever
\* reorgs, prunings and restarts came between the loads (AddL2Block,
\* PruneSafeBlocks, Clear).
BlocksFormChain ==
  /\ IsChain(mgr.blocks)
  /\ mgr.blocks # <<>> => mgr.tip = LastOf(mgr.blocks)

\* The queued channels, read one after the other, are one gapless segment of
\* the chain: it starts no later than the oldest block held and ends exactly
\* before the cursor.  So no block below the cursor was dropped from every
\* channel and none is in two queued channels, after any mix of invalidations
\* (handleChannelInvalidated), prunings (PruneSafeBlocks with PruneChannels)
\* and clears.
ChannelsCoverCursor ==
  LET q == mgr.channelQueue
      Blocks(i) == mgr.chan[q[i]].blocks
  IN  /\ mgr.blockCursor <= Len(mgr.blocks)
      /\ \A i \in DOMAIN q : Blocks(i) # <<>> /\ IsChain(Blocks(i))
      /\ \A i \in 1 .. Len(q) - 1 : Parent[Blocks(i + 1)[1]] = LastOf(Blocks(i))
      /\ q = <<>> => mgr.blockCursor = 0
      /\ q # <<>> => /\ mgr.blockCursor > 0
                     /\ LastOf(Blocks(Len(q))) = mgr.blocks[mgr.blockCursor]
                     /\ Number[Blocks(1)[1]] <= Number[mgr.blocks[1]]

Carries(tx, frame) == tx.first <= frame /\ frame <= tx.last

\* A channel that counts as fully submitted has frames, and each of them is in
\* a confirmed transaction: no order of failures, late confirmations and
\* resubmissions of overlapping cursor ranges (RewindFrameCursor) makes
\* isFullySubmitted true for a channel with a frame that never got to L1.
FullySubmittedIsConfirmed ==
  \A id \in ChannelID :
    LET c == mgr.chan[id]
    IN  IsFullySubmitted(c) =>
          /\ c.numFrames > 0
          /\ \A frame \in 0 .. c.numFrames - 1 : \E tx \in c.confirmed : Carries(tx, frame)

\* The two books on unconfirmed transactions agree: a transaction that
\* txChannels maps to a channel is pending there, and a transaction pending in
\* a queued channel is mapped, so that its receipt will be attributed to it.
PendingTxsTracked ==
  /\ \A tx \in mgr.txChannels : tx \in mgr.chan[tx.ch].pending
  /\ \A id \in Queued(mgr) : mgr.chan[id].pending \subseteq mgr.txChannels

\* A frame is always sent in the same group: two transactions of a channel are
\* the same or share no frame.  Otherwise a failed and a resubmitted
\* transaction could confirm a frame under two identifiers.
TxsDoNotOverlap ==
  \A id \in ChannelID :
    LET txs == mgr.chan[id].pending \cup mgr.chan[id].confirmed
    IN  \A t, u \in txs : t # u => t.last < u.first \/ u.last < t.first

\* The panics "tried to prune more blocks than available" (PruneSafeBlocks) and
\* "cannot rewind to unknown frame" (RewindFrameCursor) guard conditions that
\* no sequence of calls brings about.
AssertedPanicsUnreachable ==
  mgr.panic \notin {"rewind to unknown frame", "prune more blocks than available"}

\* Once a channel is closed its blocks and its frames stay as they are, also
\* when it has left the queue: frames of it may be on L1 already.
ClosedChannelsKeepContents ==
  [][\A id \in ChannelID :
       mgr.chan[id].full => /\ mgr'.chan[id].full
                            /\ mgr'.chan[id].blocks = mgr.chan[id].blocks
                            /\ mgr'.chan[id].numFrames = mgr.chan[id].numFrames]_mgr
=============================================================================
