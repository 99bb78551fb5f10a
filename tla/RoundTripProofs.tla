-------------------------- MODULE RoundTripProofs ---------------------------
(***************************************************************************)
(* The channel manager in the round trip is used as its specification      *)
(* allows, so that everything proved about it holds there, and the node    *)
(* and the batcher never get ahead of what exists: of the L1 blocks that   *)
(* were mined and of the L2 blocks that were sequenced.  This is for any   *)
(* chain of blocks, any order of inclusion and any number of failures,     *)
(* restarts and resets.                                                    *)
(*                                                                         *)
(* The argument follows a block around: what the loader asks for was       *)
(* sequenced, what a channel holds was loaded, what the node reads off L1  *)
(* is in a channel, and what becomes safe was read.                        *)
(***************************************************************************)
EXTENDS RoundTrip, ChannelContentsProofs, FiniteSetTheorems

-----------------------------------------------------------------------------
(* Where the blocks of the manager come from *)

\* Every block that is held, or that is in a channel, is one of K.
Within(s, K) ==
  /\ s.blocks \in Seq(K)
  /\ \A id \in ChannelID : s.chan[id].blocks \in Seq(K)

LEMMA WithinSame ==
  ASSUME NEW s, NEW t, NEW K, Within(s, K), t.blocks = s.blocks,
         \A id \in ChannelID : t.chan[id].blocks = s.chan[id].blocks
  PROVE  Within(t, K)
BY DEF Within

\* More blocks may be known.
LEMMA WithinMore ==
  ASSUME NEW s, NEW K, NEW L, K \subseteq L, Within(s, K)
  PROVE  Within(s, L)
<1>1. Seq(K) \subseteq Seq(L)
  BY SeqDef
<1> QED  BY <1>1 DEF Within

\* Filling a channel moves blocks of the queue into it (processBlocks).
LEMMA FillWithin ==
  ASSUME NEW s, BooksInv(s), s.blockCursor < Len(s.blocks), NEW K, Within(s, K),
         NEW l1Head \in Nat, NEW pi \in PubInfo, NEW u \in FillCurrentChannel(s, l1Head, pi)
  PROVE  Within(u, K)
<1>1. PICK id \in ChannelID, k \in 0 .. PendingBlocks(s), q \in Seq(ChannelID), base \in Channel :
        Filled(s, u, id, k, q, base)
  BY FillShape
<1> DEFINE a == s.blockCursor + 1
           b == s.blockCursor + k
           bs == s.blocks
<1>2. /\ u.blocks = s.blocks /\ \A x \in ChannelID \ {id} : u.chan[x] = s.chan[x]
      /\ u.chan[id].blocks = base.blocks \o SubSeq(bs, a, b)
      /\ base = s.chan[id] \/ base = NewChannel(s.useBlobs, s.l1OriginLast)
  BY <1>1 DEF Filled, OutsideChannel
<1>3. base.blocks \in Seq(K)
  <2>1. NewChannel(s.useBlobs, s.l1OriginLast).blocks = <<>>
    BY DEF NewChannel
  <2>2. <<>> \in Seq(K)
    OBVIOUS
  <2> QED  BY <1>2, <2>1, <2>2 DEF Within
<1>4. SubSeq(bs, a, b) \in Seq(K)
  <2>1. bs \in Seq(K)
    BY DEF Within
  <2>2. s.blockCursor \in Nat /\ Len(bs) \in Nat /\ a \in Nat \ {0} /\ b \in Nat /\ b <= Len(bs)
    BY <1>1, BooksTypes DEF PendingBlocks
  <2>3. \A i \in a .. b : bs[i] \in K
    BY <2>1, <2>2
  <2> HIDE DEF a, b, bs
  <2> QED  BY <2>1, <2>2, <2>3, SubSeqProperties
<1>5. u.chan[id].blocks \in Seq(K)
  BY <1>2, <1>3, <1>4, ConcatProperties
<1> QED  BY <1>2, <1>5 DEF Within

LEMMA ForceCloseWithin ==
  ASSUME NEW s, BooksInv(s), NEW pi \in PubInfo, NEW K, Within(s, K),
         pi.forcePublish => s.currentChannel # NoChannel, NEW t \in ForceClose(s, pi)
  PROVE  Within(t, K)
<1> DEFINE id == s.currentChannel
           c == [s.chan[id] EXCEPT !.full = TRUE]
<1>1. CASE ~(pi.forcePublish /\ s.chan[id].numFrames = 0)
  BY <1>1 DEF ForceClose
<1>2. CASE pi.forcePublish /\ s.chan[id].numFrames = 0
  <2>1. id \in ChannelID /\ s.chan[id].blocks # <<>> /\ ChannelInv(id, s.chan[id])
    BY <1>2 DEF BooksInv, Manager
  <2>2. ChannelCore(id, c) /\ c.blocks = s.chan[id].blocks
    BY <2>1 DEF ChannelInv, ChannelCore, Channel
  <2>3. PICK d \in OutputFrames(c) : t = [s EXCEPT !.chan[id] = d]
    BY <1>2, Zenon DEF ForceClose, WithCurrent
  <2> HIDE DEF id, c
  <2>4. d.blocks = s.chan[id].blocks
    BY <2>1, <2>2, OutputFramesInv
  <2>5. t.blocks = s.blocks /\ t.chan = [s.chan EXCEPT ![id] = d] /\ s.chan \in [ChannelID -> Channel]
    BY <2>3, BooksTypes DEF Manager
  <2> QED  BY <2>1, <2>4, <2>5, WithinSame
<1> QED  BY <1>1, <1>2

LEMMA PanicWithin ==
  ASSUME NEW s, BooksInv(s), NEW K, Within(s, K), NEW why
  PROVE  Within(Panic(s, why), K)
<1>1. Panic(s, why).blocks = s.blocks /\ Panic(s, why).chan = s.chan
  BY BooksTypes DEF Panic, Manager
<1> QED  BY <1>1, WithinSame

LEMMA GetReadyWithin ==
  ASSUME NEW s, BooksInv(s), s.panic = "none", NEW K, Within(s, K),
         NEW l1Head \in Nat, NEW pi \in PubInfo, NEW g \in GetReadyChannel(s, l1Head, pi)
  PROVE  Within(g.s, K)
<1>1. CASE pi.forcePublish /\ s.currentChannel = NoChannel
  <2>1. g = [s |-> Panic(s, "nil currentChannel"), ch |-> NoChannel]
    BY <1>1 DEF GetReadyChannel
  <2>2. g.s = Panic(s, "nil currentChannel")
    BY <2>1
  <2> QED  BY <2>2, PanicWithin
<1>2. CASE ~(pi.forcePublish /\ s.currentChannel = NoChannel)
  <2>1. PICK t \in ForceClose(s, pi) : g \in FindReadyChannel(t, l1Head, pi)
    BY <1>2, Zenon DEF GetReadyChannel
  <2>2. BooksInv(t) /\ Within(t, K)
    BY <1>2, <2>1, ForceCloseBooks, ForceCloseWithin
  <2>3. CASE ReadyIn(t) # {} \/ PendingBlocks(t) = 0
    <3>1. g.s = t
      BY <2>1, <2>3 DEF FindReadyChannel
    <3> QED  BY <3>1, <2>2
  <2>4. CASE ReadyIn(t) = {} /\ PendingBlocks(t) # 0
    <3>1. PICK u \in FillCurrentChannel(t, l1Head, pi) :
            g = [s |-> u, ch |-> IF HasTxData(u.chan[u.currentChannel]) THEN u.currentChannel
                                 ELSE NoChannel]
      BY <2>1, <2>4, Zenon DEF FindReadyChannel
    <3>2. t.blockCursor < Len(t.blocks)
      BY <2>2, <2>4, BooksTypes DEF PendingBlocks
    <3>3. Within(u, K)
      BY <2>2, <3>2, FillWithin
    <3> QED  BY <3>1, <3>3
  <2> QED  BY <2>3, <2>4
<1> QED  BY <1>1, <1>2

\* nextTxData moves the frame cursor, and no block.
LEMMA DequeueWithin ==
  ASSUME NEW s, BooksInv(s), NEW K, Within(s, K), NEW ch \in ChannelID \cup {NoChannel}
  PROVE  Within(DequeueTx(s, ch).s, K)
<1>1. CASE ch = NoChannel \/ ~HasTxData(s.chan[ch])
  <2>1. DequeueTx(s, ch).s = s
    BY <1>1 DEF DequeueTx
  <2> QED  BY <2>1
<1>2. CASE ch # NoChannel /\ HasTxData(s.chan[ch])
  <2> DEFINE c == s.chan[ch]
             d == NextTxData(ch, c)
             t == DequeueTx(s, ch).s
             last == IF LatestL1Origin(c) > s.l1OriginLast THEN LatestL1Origin(c)
                     ELSE s.l1OriginLast
             txs == s.txChannels \cup {NextTx(ch, c)}
  <2>1. ch \in ChannelID /\ c \in Channel /\ s \in Manager /\ s.chan \in [ChannelID -> Channel]
    BY <1>2, BooksTypes
  <2>2. t = [s EXCEPT !.chan[ch] = d, !.l1OriginLast = last, !.txChannels = txs]
    BY <1>2 DEF DequeueTx
  <2>3. d.blocks = c.blocks
    BY <2>1 DEF NextTxData, Channel
  <2> HIDE DEF d, last, txs, t
  <2>4. t.blocks = s.blocks /\ t.chan = [s.chan EXCEPT ![ch] = d]
    BY <2>1, <2>2 DEF Manager
  <2>5. Within(t, K)
    BY <2>1, <2>3, <2>4, WithinSame
  <2> QED  BY <2>5 DEF t
<1> QED  BY <1>1, <1>2

\* Invalidating a channel moves the cursor and shortens the queue.
LEMMA InvalidatedWithin ==
  ASSUME NEW s, BooksInv(s), NEW K, Within(s, K), NEW id \in ChannelID
  PROVE  Within(HandleChannelInvalidated(s, id), K)
<1> DEFINE c == s.chan[id]
           r == IF c.blocks = <<>> THEN s ELSE RewindToBlock(s, c.blocks[1])
           at == {i \in DOMAIN s.channelQueue : s.channelQueue[i] = id}
           p == IF at = {} THEN 1 ELSE FirstOf(at)
<1>1. s \in Manager
  BY BooksTypes
<1>2. r.blocks = s.blocks /\ r.chan = s.chan
  BY <1>1 DEF RewindToBlock, Panic, Manager
<1>3. HandleChannelInvalidated(s, id) = IF r.panic # "none" THEN r ELSE DropFrom(r, p)
  BY DEF HandleChannelInvalidated
<1>4. \E f : r = [s EXCEPT !.panic = f] \/ r = [s EXCEPT !.blockCursor = f] \/ r = s
  BY Zenon DEF RewindToBlock, Panic
<1> HIDE DEF r, p
<1>5. DropFrom(r, p).blocks = s.blocks /\ DropFrom(r, p).chan = s.chan
  BY <1>1, <1>2, <1>4 DEF DropFrom, Manager
<1>6. /\ HandleChannelInvalidated(s, id).blocks = s.blocks
      /\ HandleChannelInvalidated(s, id).chan = s.chan
  BY <1>2, <1>3, <1>5
<1> QED  BY <1>6, WithinSame

\* TxData, also when it switches the DA type.
LEMMA TxDataWithin ==
  ASSUME NEW s, BooksInv(s), s.panic = "none", NEW K, Within(s, K),
         NEW l1Head \in Nat, NEW useBlobs \in BOOLEAN,
         NEW pi \in PubInfo, NEW r \in TxDataOutcome(s, l1Head, useBlobs, pi)
  PROVE  Within(r.s, K)
<1>1. PICK g \in GetReadyChannel(s, l1Head, pi) :
        r \in IF g.ch # NoChannel /\ NoneSubmitted(g.s.chan[g.ch]) /\ useBlobs # g.s.useBlobs
              THEN SwitchDAType(g.s, g.ch, l1Head, useBlobs, pi)
              ELSE {DequeueTx(g.s, g.ch)}
  BY Zenon DEF TxDataOutcome
<1>2. /\ BooksInv(g.s) /\ g.ch \in ChannelID \cup {NoChannel}
      /\ g.ch # NoChannel => g.s.panic = "none"
      /\ Within(g.s, K)
  BY <1>1, GetReadyBooks, GetReadyWithin
<1>3. CASE r = DequeueTx(g.s, g.ch)
  BY <1>2, <1>3, DequeueWithin
<1>4. CASE g.ch # NoChannel /\ r \in SwitchDAType(g.s, g.ch, l1Head, useBlobs, pi)
  <2> DEFINE t == HandleChannelInvalidated(g.s, g.ch)
             v == [t EXCEPT !.useBlobs = useBlobs]
  <2>1. BooksInv(t) /\ Within(t, K)
    BY <1>2, <1>4, InvalidatedBooks, InvalidatedWithin
  <2>2. CASE t.panic # "none"
    <3>1. r = [s |-> t, tx |-> NoTx]
      BY <1>4, <2>2 DEF SwitchDAType
    <3> HIDE DEF t
    <3> QED  BY <3>1, <2>1
  <2>3. CASE t.panic = "none"
    <3>1. PICK h \in GetReadyChannel(v, l1Head, pi) : r = DequeueTx(h.s, h.ch)
      BY <1>4, <2>3, Zenon DEF SwitchDAType
    <3> HIDE DEF t
    <3>2. /\ v \in Manager /\ v.panic = t.panic /\ v.blocks = t.blocks /\ v.blockCursor = t.blockCursor
          /\ v.currentChannel = t.currentChannel /\ v.channelQueue = t.channelQueue
          /\ v.txChannels = t.txChannels /\ v.chan = t.chan
      BY <2>1 DEF BooksInv, Manager
    <3> HIDE DEF v
    <3>3. BooksInv(v) /\ Within(v, K)
      BY <2>1, <3>2 DEF BooksInv, Within
    <3>4. BooksInv(h.s) /\ h.ch \in ChannelID \cup {NoChannel} /\ Within(h.s, K)
      BY <2>3, <3>1, <3>2, <3>3, GetReadyBooks, GetReadyWithin
    <3> QED  BY <3>1, <3>4, DequeueWithin
  <2> QED  BY <2>2, <2>3
<1> QED  BY <1>1, <1>3, <1>4

\* A receipt changes no block of its channel.
LEMMA FailedWithin ==
  ASSUME BooksInv(mgr), NEW K, Within(mgr, K), NEW tx \in mgr.txChannels, TxFailed(tx)
  PROVE  Within(mgr', K)
<1> DEFINE c == mgr.chan[tx.ch]
           d == ChannelTxFailed(c, tx)
           s == [mgr EXCEPT !.txChannels = @ \ {tx}, !.chan[tx.ch] = d]
<1>1. tx.ch \in ChannelID /\ mgr \in Manager /\ mgr.chan \in [ChannelID -> Channel] /\ c \in Channel
  BY BooksTypes
<1>2. d.blocks = c.blocks
  BY <1>1 DEF ChannelTxFailed, Channel
<1>3. mgr' = Panic(mgr, "rewind to unknown frame") \/ mgr' = s
  BY DEF TxFailed
<1> HIDE DEF d
<1>4. s.blocks = mgr.blocks /\ s.chan = [mgr.chan EXCEPT ![tx.ch] = d]
  BY <1>1 DEF Manager
<1>5. Within(s, K)
  <2>1. \A id \in ChannelID : s.chan[id].blocks = mgr.chan[id].blocks
    BY <1>1, <1>2, <1>4
  <2> HIDE DEF s
  <2> QED  BY <1>4, <2>1 DEF Within
<1> QED  BY <1>3, <1>5, PanicWithin

LEMMA ConfirmedWithin ==
  ASSUME BooksInv(mgr), NEW K, Within(mgr, K), NEW tx \in mgr.txChannels,
         NEW n \in L1Number, TxConfirmed(tx, n)
  PROVE  Within(mgr', K)
<1> DEFINE c == mgr.chan[tx.ch]
           d == ChannelTxConfirmed(c, tx, n)
           s == [mgr EXCEPT !.txChannels = @ \ {tx}, !.chan[tx.ch] = d]
<1>1. tx.ch \in ChannelID /\ mgr \in Manager /\ mgr.chan \in [ChannelID -> Channel] /\ c \in Channel
      /\ tx \in TxID /\ n \in Nat
  BY BooksTypes, ChainAssumption DEF L1Number
<1>2. d.blocks = c.blocks /\ d.pending = c.pending \ {tx}
  BY <1>1 DEF ChannelTxConfirmed, Channel
<1>3. mgr' = s \/ mgr' = HandleChannelInvalidated(s, tx.ch)
  BY DEF TxConfirmed
<1>4. ChannelInv(tx.ch, d)
  BY <1>1, TxConfirmedInv DEF BooksInv
<1> HIDE DEF d
<1>5. s.blocks = mgr.blocks /\ s.chan = [mgr.chan EXCEPT ![tx.ch] = d]
  BY <1>1 DEF Manager
<1>6. Within(s, K)
  <2>1. \A id \in ChannelID : s.chan[id].blocks = mgr.chan[id].blocks
    BY <1>1, <1>2, <1>5
  <2> HIDE DEF s
  <2> QED  BY <1>5, <2>1 DEF Within
<1>7. BooksInv(s)
  BY <1>2, <1>4, ReceiptBooks
<1> HIDE DEF s
<1> QED  BY <1>1, <1>3, <1>6, <1>7, InvalidatedWithin

LEMMA ClearedWithin ==
  ASSUME NEW s, BooksInv(s), NEW K, Within(s, K), NEW o
  PROVE  Within(Cleared(s, o), K)
<1>1. Cleared(s, o).blocks = <<>> /\ Cleared(s, o).chan = s.chan
  BY BooksTypes DEF Cleared, Manager
<1>2. <<>> \in Seq(K)
  OBVIOUS
<1> QED  BY <1>1, <1>2 DEF Within

\* Pruning drops blocks from the front.
LEMMA SyncedWithin ==
  ASSUME NEW s, BooksInv(s), NEW K, Within(s, K), NEW ss \in SyncStatus, ss.safe # NoBlock
  PROVE  Within(Synced(s, ss), K)
<1>1. CASE s.blocks = <<>>
  <2>1. ~StartAfresh(s, ss)
    BY <1>1 DEF StartAfresh
  <2>2. Synced(s, ss) = s
    BY <1>1, <2>1 DEF Synced
  <2> QED  BY <2>2
<1>2. CASE s.blocks # <<>> /\ StartAfresh(s, ss)
  <2>1. Synced(s, ss) = Cleared(s, L1Origin[ss.safe])
    BY <1>2 DEF Synced
  <2> QED  BY <2>1, ClearedWithin
<1>3. CASE s.blocks # <<>> /\ ~StartAfresh(s, ss)
  <2> DEFINE n == NumBlocksToDequeue(s, ss)
             u == Synced(s, ss)
  <2>1. n \in 0 .. Len(s.blocks) /\ u.chan = s.chan
        /\ u.blocks = SubSeq(s.blocks, n + 1, Len(s.blocks))
    BY <1>3, PruneShape
  <2>2. s.blocks \in Seq(K)
    BY DEF Within
  <2> HIDE DEF n, u
  <2>3. n \in Nat /\ n <= Len(s.blocks)
    BY <2>1, <2>2
  <2>4. u.blocks \in Seq(K)
    BY <2>1, <2>2, <2>3, Suffix
  <2>5. Within(u, K)
    BY <2>1, <2>4 DEF Within
  <2> QED  BY <2>5 DEF u
<1> QED  BY <1>1, <1>2, <1>3

-----------------------------------------------------------------------------
(* What the node reads *)

Frame == [id : ChannelID, number : Nat, last : BOOLEAN]

\* The frames of a transaction are of its channel.
LEMMA FramesTyped ==
  ASSUME mgr \in Manager, NEW tx \in TxID
  PROVE  Frames(tx) \in Seq(Frame)
<1> DEFINE k == tx.last - tx.first + 1
           n == IF k \in Nat THEN k ELSE 0
           F(i) == [id |-> tx.ch, number |-> tx.first + i - 1,
                    last |-> mgr.chan[tx.ch].full
                             /\ tx.first + i - 1 = mgr.chan[tx.ch].numFrames - 1]
<1>1. tx.ch \in ChannelID /\ tx.first \in Nat /\ tx.last \in Nat
  BY DEF TxID
<1>2. k \in Int /\ n \in Nat /\ 1 .. k = 1 .. n
  BY <1>1
<1>3. Frames(tx) = [i \in 1 .. n |-> F(i)]
  BY <1>2 DEF Frames
<1> HIDE DEF n
<1>4. ASSUME NEW i \in 1 .. n PROVE F(i) \in Frame
  <2>1. tx.first + i - 1 \in Nat
    BY <1>1, <1>2
  <2> QED  BY <1>1, <2>1 DEF Frame
<1> HIDE DEF F
<1> QED  BY <1>2, <1>3, <1>4

\* The frames of the first submissions of an L1 block, as FramesOf defines them.
FramesUpTo(subs, n, f) ==
  f = [i \in 0 .. n |-> IF i = 0 THEN <<>> ELSE f[i - 1] \o Frames(subs[i].id)]

\* The recursion over the submissions of a block has a solution.
LEMMA FramesExist ==
  ASSUME NEW subs, NEW n \in Nat
  PROVE  \E f : FramesUpTo(subs, n, f)
<1> DEFINE S == {m \in Nat : ~ \E f : FramesUpTo(subs, m, f)}
<1> SUFFICES ASSUME S # {} PROVE FALSE
  OBVIOUS
<1> DEFINE m == FirstOf(S)
<1>1. m \in S /\ \A j \in S : m <= j
  <2>1. S \in SUBSET Nat
    OBVIOUS
  <2> HIDE DEF S
  <2> QED  BY <2>1, FirstOfIsLeast
<1> HIDE DEF m
<1>2. m \in Nat /\ ~ \E f : FramesUpTo(subs, m, f)
  BY <1>1
<1>3. CASE m = 0
  <2> DEFINE f == [i \in 0 .. 0 |-> <<>>]
  <2>1. f = [i \in 0 .. 0 |-> IF i = 0 THEN <<>> ELSE f[i - 1] \o Frames(subs[i].id)]
    OBVIOUS
  <2>2. FramesUpTo(subs, 0, f)
    BY <2>1 DEF FramesUpTo
  <2> QED  BY <1>2, <1>3, <2>2
<1>4. CASE m # 0
  <2>1. m - 1 \in Nat /\ ~(m <= m - 1)
    BY <1>2, <1>4
  <2>2. PICK g : FramesUpTo(subs, m - 1, g)
    BY <1>1, <2>1
  <2> DEFINE f == [i \in 0 .. m |-> IF i = m THEN g[m - 1] \o Frames(subs[m].id) ELSE g[i]]
  <2>3. \A i \in 0 .. m - 1 : g[i] = IF i = 0 THEN <<>> ELSE g[i - 1] \o Frames(subs[i].id)
    BY <2>2, Zenon DEF FramesUpTo
  <2>4. ASSUME NEW i \in 0 .. m
        PROVE  f[i] = IF i = 0 THEN <<>> ELSE f[i - 1] \o Frames(subs[i].id)
    <3>1. CASE i = m
      <4>1. f[m] = g[m - 1] \o Frames(subs[m].id) /\ f[m - 1] = g[m - 1]
        BY <1>2, <2>1
      <4> QED  BY <1>4, <3>1, <4>1
    <3>2. CASE i # m
      <4>1. i \in 0 .. m - 1 /\ f[i] = g[i]
        BY <1>2, <3>2
      <4>2. i # 0 => f[i - 1] = g[i - 1]
        BY <1>2, <3>2
      <4> QED  BY <2>3, <4>1, <4>2
    <3> QED  BY <3>1, <3>2
  <2>5. f = [i \in 0 .. m |-> f[i]]
    OBVIOUS
  <2> HIDE DEF f
  <2>6. FramesUpTo(subs, m, f)
    <3> DEFINE h == [i \in 0 .. m |-> IF i = 0 THEN <<>> ELSE f[i - 1] \o Frames(subs[i].id)]
    <3>1. \A i \in 0 .. m : f[i] = h[i]
      BY <2>4
    <3>2. f = h
      BY <2>5, <3>1
    <3> QED  BY <3>2 DEF FramesUpTo
  <2> QED  BY <1>2, <2>6
<1> QED  BY <1>3, <1>4

\* The node reads only frames of channels that the batcher created.
LEMMA FramesOfTyped ==
  ASSUME mgr \in Manager, NEW subs \in Seq(Submission)
  PROVE  FramesOf(subs) \in Seq(Frame)
<1> DEFINE n == Len(subs)
           f == CHOOSE h : FramesUpTo(subs, n, h)
<1>1. n \in Nat /\ \A i \in 1 .. n : subs[i].id \in TxID
  <2>1. \A i \in 1 .. n : subs[i] \in Submission
    BY ElementOfSeq
  <2>2. \A sub \in Submission : sub.id \in TxID
    BY DEF Submission
  <2> QED  BY <2>1, <2>2, LenProperties
<1>2. FramesOf(subs) = f[n]
  BY DEF FramesOf, FramesUpTo
<1>3. FramesUpTo(subs, n, f)
  <2> HIDE DEF n
  <2>1. \E h : FramesUpTo(subs, n, h)
    BY <1>1, FramesExist
  <2> QED  BY <2>1
<1> HIDE DEF f, n
<1>4. \A i \in 0 .. n : f[i] = IF i = 0 THEN <<>> ELSE f[i - 1] \o Frames(subs[i].id)
  BY <1>3, Zenon DEF FramesUpTo
<1> DEFINE S == {i \in 0 .. n : f[i] \notin Seq(Frame)}
<1>5. S = {}
  <2> SUFFICES ASSUME S # {} PROVE FALSE
    OBVIOUS
  <2> DEFINE m == FirstOf(S)
  <2>1. m \in S /\ \A j \in S : m <= j
    <3>1. S \in SUBSET Nat
      BY <1>1
    <3> HIDE DEF S
    <3> QED  BY <3>1, FirstOfIsLeast
  <2> HIDE DEF m
  <2>2. m \in 0 .. n /\ m \in Nat /\ f[m] \notin Seq(Frame)
    BY <1>1, <2>1
  <2>3. m # 0
    <3>1. <<>> \in Seq(Frame)
      OBVIOUS
    <3>2. m = 0 => f[m] = <<>>
      BY <1>4, <2>2
    <3> QED  BY <2>2, <3>1, <3>2
  <2>4. m - 1 \in 0 .. n /\ ~(m <= m - 1) /\ m \in 1 .. n
    BY <1>1, <2>2, <2>3
  <2>5. f[m - 1] \in Seq(Frame)
    BY <2>1, <2>4
  <2>6. Frames(subs[m].id) \in Seq(Frame)
    BY <1>1, <2>4, FramesTyped
  <2>7. f[m] = f[m - 1] \o Frames(subs[m].id)
    BY <1>4, <2>2, <2>3
  <2> QED  BY <2>2, <2>5, <2>6, <2>7, ConcatProperties
<1> QED  BY <1>1, <1>2, <1>5

\* A bounded set of numbers has a largest one.
LEMMA LargestOf ==
  ASSUME NEW k \in Nat, NEW S \in SUBSET (0 .. k), S # {}
  PROVE  Max(S) \in S
<1> DEFINE U == {j \in 0 .. k : \A x \in S : x <= j}
           m == FirstOf(U)
<1>1. k \in U
  OBVIOUS
<1>2. m \in U /\ \A j \in U : m <= j
  <2>1. U \in SUBSET Nat
    OBVIOUS
  <2> HIDE DEF U
  <2> QED  BY <1>1, <2>1, FirstOfIsLeast
<1> HIDE DEF m
<1>3. m \in 0 .. k /\ \A x \in S : x <= m
  BY <1>2
<1>4. m \in S
  <2> SUFFICES ASSUME m \notin S PROVE FALSE
    OBVIOUS
  <2>1. \A x \in S : x <= m - 1
    BY <1>3
  <2>2. m - 1 \in 0 .. k
    <3>1. PICK x \in S : x \in 0 .. k
      OBVIOUS
    <3> QED  BY <1>3, <2>1, <3>1
  <2>3. m - 1 \in U
    BY <2>1, <2>2
  <2> QED  BY <1>2, <1>3, <2>3
<1>5. \E x \in S : \A y \in S : x >= y
  BY <1>3, <1>4
<1> QED  BY <1>5 DEF Max

\* Derivation starts at an L1 block that is no newer than the origin of the safe head,
\* although a channel timeout is subtracted from it (initialReset).
LEMMA StartOriginBound ==
  ASSUME NEW b \in Block
  PROVE  StartOrigin(b) \in 0 .. L1Origin[b]
<1> DEFINE Older == {c \in DOMAIN Number : /\ Number[c] <= Number[b]
                                           /\ L1Origin[c] + ChannelTimeout <= L1Origin[b]}
           S == {0} \cup {L1Origin[c] : c \in Older}
<1>1. L1Origin[b] \in Nat /\ ChannelTimeout \in Nat
  BY BlockAssumption, ConfigAssumption
<1>2. \A c \in Older : L1Origin[c] \in 0 .. L1Origin[b]
  BY <1>1, BlockAssumption
<1>3. S \in SUBSET (0 .. L1Origin[b]) /\ S # {}
  BY <1>1, <1>2
<1>4. StartOrigin(b) = Max(S)
  BY DEF StartOrigin
<1> HIDE DEF S
<1> QED  BY <1>1, <1>3, <1>4, LargestOf

\* An order of the transactions of an L1 block is a sequence of them.
LEMMA OrdersTyped ==
  ASSUME NEW P, IsFiniteSet(P), NEW subs \in SUBSET P, NEW order \in SetToSeqs(subs)
  PROVE  order \in Seq(P)
<1>1. Cardinality(subs) \in Nat
  BY FS_Subset, FS_CardinalityType
<1>2. order \in [1 .. Cardinality(subs) -> subs]
  BY DEF SetToSeqs
<1> QED  BY <1>1, <1>2

-----------------------------------------------------------------------------
(* The invariant *)

Staged == [id : ChannelID \cup {NoChannel}, frames : Nat, openBlock : Nat]

NodeState ==
  [ origin : Nat, datas : Seq(Frame), channel : Staged, batches : Seq(Block), safe : Block ]

Budget == [l1 : Nat, l2 : Nat, pending : Nat, failures : Nat, restarts : Nat, resets : Nat]

\* The blocks that were sequenced when b was the unsafe head.
NotAbove(b) == {c \in Block : Number[c] <= Number[b]}

\* L1 and what was sent to it.
L1Inv ==
  /\ budget \in Budget
  /\ l1 \in Seq(Seq(Submission)) /\ L1Head + budget.l1 <= MaxL1
  /\ sent \subseteq Submission /\ pool \subseteq Submission /\ IsFiniteSet(pool)

\* Every height up to the unsafe head has a block, and the L1 origins of these exist.
SequencedInv ==
  /\ unsafe \in Block
  /\ \A n \in Number[Genesis] .. Number[unsafe] : \E b \in Block : Number[b] = n
  /\ \A b \in NotAbove(unsafe) : L1Origin[b] <= L1Head

\* Derivation is behind L1 and behind the sequencer, also in what it has yet to check.
NodeOK(st, head, b) ==
  /\ st \in NodeState
  /\ st.origin <= head
  /\ Number[st.safe] <= Number[b]
  /\ st.batches \in Seq(NotAbove(b))

\* The loader asks for heights that were sequenced.
LoadingInv ==
  loading # NoRange =>
    \E first, last \in Nat : /\ loading = <<first, last>>
                             /\ Number[Genesis] <= first /\ first <= last
                             /\ last <= Number[unsafe]

RoundTripInv ==
  /\ IInv
  /\ Within(mgr, NotAbove(unsafe))
  /\ prevCurrentL1 <= L1Head
  /\ L1Inv /\ SequencedInv /\ NodeOK(node, L1Head, unsafe) /\ LoadingInv

\* The types and ranges that the steps need.
LEMMA RoundTripTypes ==
  ASSUME RoundTripInv
  PROVE  /\ BooksInv(mgr) /\ mgr \in Manager /\ prevCurrentL1 \in L1Number
         /\ L1Head \in Nat /\ L1Head \in L1Number /\ DOMAIN l1 = 1 .. L1Head
         /\ unsafe \in Block /\ Number[unsafe] \in Nat /\ Number[Genesis] \in Nat
         /\ NotAbove(unsafe) \subseteq Block /\ node.safe \in NotAbove(unsafe)
         /\ \A b \in NotAbove(unsafe) : /\ L1Origin[b] \in L1Number
                                        /\ StartOrigin(b) \in 0 .. L1Head
<1>1. BooksInv(mgr) /\ mgr \in Manager /\ prevCurrentL1 \in L1Number
  BY BooksTypes DEF RoundTripInv, IInv
<1>2. /\ l1 \in Seq(Seq(Submission)) /\ budget.l1 \in Nat /\ L1Head + budget.l1 <= MaxL1
  BY DEF RoundTripInv, L1Inv, Budget
<1>3. L1Head \in Nat /\ DOMAIN l1 = 1 .. L1Head
  BY <1>2, LenProperties DEF L1Head
<1>4. L1Head \in L1Number
  BY <1>2, <1>3, ChainAssumption DEF L1Number
<1>5. /\ unsafe \in Block /\ Number[unsafe] \in Nat /\ Number[Genesis] \in Nat
      /\ \A b \in NotAbove(unsafe) : L1Origin[b] <= L1Head
  BY BlockAssumption, RoundTripAssumption DEF RoundTripInv, SequencedInv
<1>6. NotAbove(unsafe) \subseteq Block /\ node.safe \in NotAbove(unsafe)
  BY DEF RoundTripInv, NodeOK, NodeState, NotAbove
<1>7. ASSUME NEW b \in NotAbove(unsafe)
      PROVE  L1Origin[b] \in L1Number /\ StartOrigin(b) \in 0 .. L1Head
  <2>1. b \in Block /\ L1Origin[b] \in Nat /\ L1Origin[b] <= L1Head
    BY <1>5, <1>6, BlockAssumption
  <2>2. StartOrigin(b) \in 0 .. L1Origin[b]
    BY <2>1, StartOriginBound
  <2>3. L1Head <= MaxL1 /\ MaxL1 \in Nat
    BY <1>4, ChainAssumption DEF L1Number
  <2> QED  BY <2>1, <2>2, <2>3, <1>3 DEF L1Number
<1> QED  BY <1>1, <1>3, <1>4, <1>5, <1>6, <1>7

\* A fault or a block takes one from the budget.
LEMMA BudgetSpent ==
  ASSUME NEW w \in Budget
  PROVE  /\ w.l1 \in Nat /\ w.failures \in Nat
         /\ w.l1 > 0 => LET v == [w EXCEPT !.l1 = @ - 1] IN v \in Budget /\ v.l1 = w.l1 - 1
         /\ w.l2 > 0 => LET v == [w EXCEPT !.l2 = @ - 1] IN v \in Budget /\ v.l1 = w.l1
         /\ w.failures > 0 => LET v == [w EXCEPT !.failures = @ - 1] IN v \in Budget /\ v.l1 = w.l1
         /\ w.restarts > 0 => LET v == [w EXCEPT !.restarts = @ - 1] IN v \in Budget /\ v.l1 = w.l1
         /\ w.resets > 0 => LET v == [w EXCEPT !.resets = @ - 1] IN v \in Budget /\ v.l1 = w.l1
<1>1. /\ w.l1 \in Nat /\ w.l2 \in Nat /\ w.failures \in Nat /\ w.restarts \in Nat
      /\ w.resets \in Nat
  BY DEF Budget
<1>2. \A n \in Nat : n > 0 => n - 1 \in Nat
  OBVIOUS
<1>3. ASSUME NEW n \in Nat
      PROVE  /\ [w EXCEPT !.l1 = n] \in Budget /\ [w EXCEPT !.l1 = n].l1 = n
             /\ [w EXCEPT !.l2 = n] \in Budget /\ [w EXCEPT !.l2 = n].l1 = w.l1
             /\ [w EXCEPT !.failures = n] \in Budget /\ [w EXCEPT !.failures = n].l1 = w.l1
             /\ [w EXCEPT !.restarts = n] \in Budget /\ [w EXCEPT !.restarts = n].l1 = w.l1
             /\ [w EXCEPT !.resets = n] \in Budget /\ [w EXCEPT !.resets = n].l1 = w.l1
  BY DEF Budget
<1> QED  BY <1>1, <1>2, <1>3

\* A step of the batcher leaves L1, the sequencer and the node alone.
LEMMA BatcherFrame ==
  ASSUME RoundTripInv, [Next]_vars, UNCHANGED <<l1, node, unsafe>>,
         Within(mgr', NotAbove(unsafe)), prevCurrentL1' <= L1Head, L1Inv', LoadingInv'
  PROVE  RoundTripInv'
<1>1. IInv'
  BY NextIInv DEF RoundTripInv
<1>2. L1Head' = L1Head /\ NotAbove(unsafe)' = NotAbove(unsafe)
  BY DEF L1Head, NotAbove
<1>3. SequencedInv'
  <2>1. SequencedInv
    BY DEF RoundTripInv
  <2> QED  BY <1>2, <2>1 DEF SequencedInv
<1>4. NodeOK(node, L1Head, unsafe)'
  <2>1. NodeOK(node, L1Head, unsafe)
    BY DEF RoundTripInv
  <2> QED  BY <1>2, <2>1 DEF NodeOK
<1> QED  BY <1>1, <1>2, <1>3, <1>4 DEF RoundTripInv

\* A step of L1, the sequencer or the node leaves the batcher alone.
LEMMA EnvironmentFrame ==
  ASSUME RoundTripInv, UNCHANGED <<vars, loading>>,
         unsafe' \in Block, Number[unsafe] <= Number[unsafe'], L1Head' \in Nat, L1Head <= L1Head',
         L1Inv', SequencedInv', NodeOK(node, L1Head, unsafe)'
  PROVE  RoundTripInv' /\ [Next]_vars
<1>1. mgr' = mgr /\ prevCurrentL1' = prevCurrentL1 /\ loading' = loading
  BY DEF vars
<1>2. IInv'
  BY NextIInv DEF RoundTripInv, vars
<1>3. /\ L1Head \in Nat /\ prevCurrentL1 \in Nat /\ Number[unsafe] \in Nat /\ Number[unsafe'] \in Nat
      /\ Number[Genesis] \in Nat
  BY RoundTripTypes, ChainAssumption, BlockAssumption DEF L1Number
<1>4. NotAbove(unsafe) \subseteq NotAbove(unsafe)'
  BY <1>3, BlockAssumption DEF NotAbove
<1>5. Within(mgr, NotAbove(unsafe))'
  <2>1. Within(mgr, NotAbove(unsafe)')
    BY <1>4, WithinMore DEF RoundTripInv
  <2> QED  BY <1>1, <2>1
<1>6. prevCurrentL1' <= L1Head'
  BY <1>1, <1>3 DEF RoundTripInv
<1>7. LoadingInv'
  BY <1>1, <1>3 DEF RoundTripInv, LoadingInv
<1> QED  BY <1>2, <1>5, <1>6, <1>7 DEF RoundTripInv, vars

-----------------------------------------------------------------------------
(* Steps of the batcher *)

\* A status of the node is one that the manager's specification allows.
LEMMA StatusTyped ==
  ASSUME RoundTripInv
  PROVE  Status \in SyncStatus /\ Status.safe = node.safe /\ Status.unsafe = unsafe
         /\ Status.currentL1 = node.origin /\ node.origin <= L1Head
<1>1. node.origin \in Nat /\ node.origin <= L1Head /\ node.safe \in Block
  BY DEF RoundTripInv, NodeOK, NodeState
<1>2. node.origin \in L1Number
  BY <1>1, RoundTripTypes, ChainAssumption DEF L1Number
<1> QED  BY <1>1, <1>2, RoundTripTypes DEF Status, SyncStatus

\* The range that is loaded lies between what is safe or held and the unsafe head.
LEMMA RangeSequenced ==
  ASSUME RoundTripInv
  PROVE  \E first \in Nat : /\ BlocksToLoad(mgr, Status) = <<first, Number[unsafe]>>
                            /\ Number[Genesis] <= first
<1>1. /\ node.safe \in Block /\ Status.safe = node.safe /\ Status.unsafe = unsafe
      /\ mgr.blocks \in Seq(Block)
  BY StatusTyped, RoundTripTypes, BooksTypes
<1>2. \A b \in Block : Number[b] \in Nat /\ Number[Genesis] <= Number[b] /\ Number[Genesis] \in Nat
  BY BlockAssumption, RoundTripAssumption
<1>3. CASE mgr.blocks = <<>> \/ StartAfresh(mgr, Status)
  <2>1. BlocksToLoad(mgr, Status) = <<Number[node.safe] + 1, Number[unsafe]>>
    BY <1>1, <1>3 DEF BlocksToLoad
  <2>2. Number[node.safe] + 1 \in Nat /\ Number[Genesis] <= Number[node.safe] + 1
    BY <1>1, <1>2
  <2> QED  BY <2>1, <2>2
<1>4. CASE ~(mgr.blocks = <<>> \/ StartAfresh(mgr, Status))
  <2> DEFINE b == mgr.blocks[Len(mgr.blocks)]
  <2>1. b \in Block
    BY <1>1, <1>4, EndsOf DEF LastOf
  <2>2. BlocksToLoad(mgr, Status) = <<Number[b] + 1, Number[unsafe]>>
    BY <1>1, <1>4 DEF BlocksToLoad
  <2> HIDE DEF b
  <2>3. Number[b] + 1 \in Nat /\ Number[Genesis] <= Number[b] + 1
    BY <1>2, <2>1
  <2> QED  BY <2>2, <2>3
<1> QED  BY <1>3, <1>4

LEMMA PollStep ==
  ASSUME RoundTripInv, Poll
  PROVE  RoundTripInv' /\ [Next]_vars
<1>1. /\ SyncAndPrune(Status) /\ UNCHANGED <<sent, pool, l1, node, unsafe, budget>>
      /\ loading' = LET range == BlocksToLoad(mgr, Status)
                    IN  IF range[1] <= range[2] THEN range ELSE NoRange
  BY DEF Poll
<1>2. Status \in SyncStatus /\ Status.safe \in Block /\ Status.currentL1 <= L1Head
  BY StatusTyped, RoundTripTypes
<1>3. [Next]_vars
  BY <1>1, <1>2 DEF Next
<1>4. mgr' = Synced(mgr, Status) /\ prevCurrentL1' = Status.currentL1 /\ Status.safe # NoBlock
  BY <1>1, <1>2, ChainAssumption DEF SyncAndPrune
<1>5. Within(mgr', NotAbove(unsafe))
  BY <1>2, <1>4, SyncedWithin, RoundTripTypes DEF RoundTripInv
<1>6. L1Inv'
  BY <1>1 DEF RoundTripInv, L1Inv, L1Head
<1>7. LoadingInv'
  <2>1. PICK first \in Nat : /\ BlocksToLoad(mgr, Status) = <<first, Number[unsafe]>>
                             /\ Number[Genesis] <= first
    BY RangeSequenced
  <2>2. loading' = IF first <= Number[unsafe] THEN <<first, Number[unsafe]>> ELSE NoRange
    BY <1>1, <2>1
  <2>3. Number[unsafe] \in Nat /\ unsafe' = unsafe
    BY <1>1, RoundTripTypes
  <2>4. loading' # NoRange => /\ loading' = <<first, Number[unsafe]>>
                              /\ first <= Number[unsafe] /\ Number[unsafe] <= Number[unsafe]
    BY <2>2, <2>3
  <2> QED  BY <2>1, <2>3, <2>4 DEF LoadingInv
<1>8. prevCurrentL1' <= L1Head
  BY <1>2, <1>4
<1> QED  BY <1>1, <1>3, <1>5, <1>6, <1>7, <1>8, BatcherFrame

LEMMA LoadBlockStep ==
  ASSUME RoundTripInv, LoadBlock
  PROVE  RoundTripInv' /\ [Next]_vars
<1> DEFINE b == BlockAt(loading[1])
<1>1. /\ loading # NoRange /\ UNCHANGED <<sent, pool, l1, node, unsafe, budget>>
      /\ \/ /\ AddL2Block(b)
            /\ loading' = IF loading[1] = loading[2] THEN NoRange
                          ELSE <<loading[1] + 1, loading[2]>>
         \/ ClearState(L1Origin[node.safe]) /\ loading' = NoRange
  BY DEF LoadBlock
<1>2. PICK first \in Nat, last \in Nat :
        /\ loading = <<first, last>> /\ Number[Genesis] <= first /\ first <= last
        /\ last <= Number[unsafe]
  BY <1>1 DEF RoundTripInv, LoadingInv
<1>3. /\ loading[1] = first /\ loading[2] = last /\ unsafe \in Block
      /\ Number[unsafe] \in Nat /\ Number[Genesis] \in Nat
  BY <1>2, RoundTripTypes
<1>4. b \in Block /\ b \in NotAbove(unsafe)
  <2>1. first \in Number[Genesis] .. Number[unsafe]
    BY <1>2, <1>3
  <2>2. \E c \in Block : Number[c] = first
    BY <2>1 DEF RoundTripInv, SequencedInv
  <2>3. b \in Block /\ Number[b] = first
    BY <1>3, <2>2 DEF BlockAt
  <2>4. first <= Number[unsafe]
    BY <1>2, <1>3
  <2> HIDE DEF b
  <2> QED  BY <2>3, <2>4 DEF NotAbove
<1> HIDE DEF b
<1>5. L1Inv'
  BY <1>1 DEF RoundTripInv, L1Inv, L1Head
<1>6. LoadingInv'
  <2>1. loading' = NoRange \/ (first # last /\ loading' = <<first + 1, last>>)
    BY <1>1, <1>3
  <2>2. first # last => first + 1 \in Nat /\ Number[Genesis] <= first + 1 /\ first + 1 <= last
    BY <1>2, <1>3
  <2>3. unsafe' = unsafe
    BY <1>1
  <2> QED  BY <1>2, <2>1, <2>2, <2>3 DEF LoadingInv
<1>7. CASE AddL2Block(b)
  <2>1. [Next]_vars
    BY <1>4, <1>7 DEF Next
  <2>2. mgr' = [mgr EXCEPT !.blocks = Append(@, b), !.tip = b] /\ prevCurrentL1' = prevCurrentL1
    BY <1>7 DEF AddL2Block
  <2>3. mgr'.blocks = Append(mgr.blocks, b) /\ mgr'.chan = mgr.chan
    BY <2>2, RoundTripTypes DEF Manager
  <2>4. Append(mgr.blocks, b) \in Seq(NotAbove(unsafe))
    BY <1>4, AppendProperties DEF RoundTripInv, Within
  <2>5. Within(mgr', NotAbove(unsafe))
    BY <2>3, <2>4 DEF RoundTripInv, Within
  <2>6. prevCurrentL1' <= L1Head
    BY <2>2 DEF RoundTripInv
  <2> QED  BY <1>1, <1>5, <1>6, <2>1, <2>5, <2>6, BatcherFrame
<1>8. CASE ClearState(L1Origin[node.safe])
  <2>1. L1Origin[node.safe] \in L1Number
    BY RoundTripTypes
  <2>2. [Next]_vars
    BY <1>8, <2>1 DEF Next
  <2>3. mgr' = Cleared(mgr, L1Origin[node.safe]) /\ prevCurrentL1' = prevCurrentL1
    BY <1>8 DEF ClearState
  <2>4. Within(mgr', NotAbove(unsafe))
    BY <2>3, ClearedWithin, RoundTripTypes DEF RoundTripInv
  <2>5. prevCurrentL1' <= L1Head
    BY <2>3 DEF RoundTripInv
  <2> QED  BY <1>1, <1>5, <1>6, <2>2, <2>4, <2>5, BatcherFrame
<1> QED  BY <1>1, <1>7, <1>8

LEMMA PublishStep ==
  ASSUME RoundTripInv, Publish
  PROVE  RoundTripInv' /\ [Next]_vars
<1> DEFINE pi == [forcePublish |-> FALSE, ignoreMaxChannelDuration |-> FALSE]
           New(r) == IF r.tx = NoTx THEN {} ELSE {[id |-> r.tx, attempt |-> budget.failures]}
<1>1. PICK r \in TxDataOutcome(mgr, L1Head, mgr.useBlobs, pi) :
        /\ TxData(L1Head, mgr.useBlobs, pi, r)
        /\ sent' = sent \cup New(r) /\ pool' = pool \cup New(r)
  BY DEF Publish
<1>2. UNCHANGED <<loading, l1, node, unsafe, budget>>
  BY DEF Publish
<1>3. pi \in PubInfo /\ mgr.useBlobs \in BOOLEAN /\ L1Head \in L1Number /\ L1Head \in Nat
      /\ BooksInv(mgr)
  BY RoundTripTypes DEF PubInfo, Manager
<1> HIDE DEF pi
<1>4. [Next]_vars
  BY <1>1, <1>3 DEF Next
<1>5. mgr' = r.s /\ prevCurrentL1' = prevCurrentL1 /\ mgr.panic = "none"
  BY <1>1 DEF TxData, Running
<1>6. Within(mgr', NotAbove(unsafe))
  BY <1>1, <1>3, <1>5, TxDataWithin DEF RoundTripInv
<1>7. New(r) \subseteq Submission /\ IsFiniteSet(New(r))
  <2>1. r.tx = NoTx \/ r.tx \in TxID
    BY <1>1, <1>3, <1>5, TxDataBooks
  <2>2. budget.failures \in Nat
    BY DEF RoundTripInv, L1Inv, Budget
  <2>3. r.tx \in TxID => [id |-> r.tx, attempt |-> budget.failures] \in Submission
    BY <2>2 DEF Submission
  <2> QED  BY <2>1, <2>3, FS_EmptySet, FS_Singleton
<1> HIDE DEF New
<1>8. L1Inv'
  <2>1. L1Inv /\ L1Head' = L1Head
    BY <1>2 DEF RoundTripInv, L1Head
  <2>2. IsFiniteSet(pool \cup New(r))
    BY <1>7, <2>1, FS_Union DEF L1Inv
  <2> QED  BY <1>1, <1>2, <1>7, <2>1, <2>2 DEF L1Inv
<1>9. LoadingInv'
  BY <1>2 DEF RoundTripInv, LoadingInv
<1>10. prevCurrentL1' <= L1Head
  BY <1>5 DEF RoundTripInv
<1> QED  BY <1>2, <1>4, <1>6, <1>8, <1>9, <1>10, BatcherFrame

LEMMA ConfirmStep ==
  ASSUME RoundTripInv, NEW sub \in sent, Confirm(sub)
  PROVE  RoundTripInv' /\ [Next]_vars
<1>1. PICK n \in 1 .. L1Head :
        IF sub.id \in mgr.txChannels THEN TxConfirmed(sub.id, n) ELSE Running /\ UNCHANGED vars
  BY DEF Confirm
<1>2. sent' = sent \ {sub} /\ UNCHANGED <<loading, pool, l1, node, unsafe, budget>>
  BY DEF Confirm
<1>3. n \in L1Number
  BY RoundTripTypes, ChainAssumption DEF L1Number
<1>4. L1Inv'
  BY <1>2 DEF RoundTripInv, L1Inv, L1Head
<1>5. LoadingInv'
  BY <1>2 DEF RoundTripInv, LoadingInv
<1>6. CASE sub.id \in mgr.txChannels
  <2>1. TxConfirmed(sub.id, n)
    BY <1>1, <1>6
  <2>2. [Next]_vars
    BY <1>3, <1>6, <2>1 DEF Next
  <2>3. Within(mgr', NotAbove(unsafe))
    BY <1>3, <1>6, <2>1, ConfirmedWithin, RoundTripTypes DEF RoundTripInv
  <2>4. prevCurrentL1' <= L1Head
    BY <2>1 DEF TxConfirmed, RoundTripInv
  <2> QED  BY <1>2, <1>4, <1>5, <2>2, <2>3, <2>4, BatcherFrame
<1>7. CASE sub.id \notin mgr.txChannels
  <2>1. UNCHANGED vars /\ mgr' = mgr /\ prevCurrentL1' = prevCurrentL1
    BY <1>1, <1>7 DEF vars
  <2>2. Within(mgr', NotAbove(unsafe)) /\ prevCurrentL1' <= L1Head
    BY <2>1 DEF RoundTripInv
  <2> QED  BY <1>2, <1>4, <1>5, <2>1, <2>2, BatcherFrame
<1> QED  BY <1>6, <1>7

LEMMA FailStep ==
  ASSUME RoundTripInv, NEW sub \in sent, Fail(sub)
  PROVE  RoundTripInv' /\ [Next]_vars
<1>1. /\ budget.failures > 0 /\ budget' = [budget EXCEPT !.failures = @ - 1]
      /\ IF sub.id \in mgr.txChannels THEN TxFailed(sub.id) ELSE Running /\ UNCHANGED vars
      /\ sent' = sent \ {sub} /\ pool' \in {pool, pool \ {sub}}
      /\ UNCHANGED <<loading, l1, node, unsafe>>
  BY DEF Fail
<1>2. L1Inv'
  <2>1. L1Inv /\ L1Head' = L1Head
    BY <1>1 DEF RoundTripInv, L1Head
  <2>2. budget' \in Budget /\ budget'.l1 = budget.l1
    BY <1>1, <2>1, BudgetSpent DEF L1Inv
  <2>3. pool' \subseteq pool
    BY <1>1
  <2>4. IsFiniteSet(pool')
    BY <2>1, <2>3, FS_Subset DEF L1Inv
  <2> QED  BY <1>1, <2>1, <2>2, <2>3, <2>4 DEF L1Inv
<1>3. LoadingInv'
  BY <1>1 DEF RoundTripInv, LoadingInv
<1>4. CASE sub.id \in mgr.txChannels
  <2>1. TxFailed(sub.id)
    BY <1>1, <1>4
  <2>2. [Next]_vars
    BY <1>4, <2>1 DEF Next
  <2>3. Within(mgr', NotAbove(unsafe))
    BY <1>4, <2>1, FailedWithin, RoundTripTypes DEF RoundTripInv
  <2>4. prevCurrentL1' <= L1Head
    BY <2>1 DEF TxFailed, RoundTripInv
  <2> QED  BY <1>1, <1>2, <1>3, <2>2, <2>3, <2>4, BatcherFrame
<1>5. CASE sub.id \notin mgr.txChannels
  <2>1. UNCHANGED vars /\ mgr' = mgr /\ prevCurrentL1' = prevCurrentL1
    BY <1>1, <1>5 DEF vars
  <2>2. Within(mgr', NotAbove(unsafe)) /\ prevCurrentL1' <= L1Head
    BY <2>1 DEF RoundTripInv
  <2> QED  BY <1>1, <1>2, <1>3, <2>1, <2>2, BatcherFrame
<1> QED  BY <1>4, <1>5

LEMMA RestartBatcherStep ==
  ASSUME RoundTripInv, RestartBatcher
  PROVE  RoundTripInv' /\ [Next]_vars
<1> DEFINE o == L1Origin[node.safe]
           s == Cleared(mgr, o)
<1>1. /\ budget.restarts > 0 /\ budget' = [budget EXCEPT !.restarts = @ - 1]
      /\ Restart(o, mgr.useBlobs) /\ sent' = {} /\ loading' = NoRange
      /\ UNCHANGED <<pool, l1, node, unsafe>>
  BY DEF RestartBatcher
<1>2. o \in L1Number /\ o \in Nat /\ mgr.useBlobs \in BOOLEAN /\ BooksInv(mgr)
  BY RoundTripTypes, ChainAssumption DEF Manager, L1Number
<1> HIDE DEF o
<1>3. [Next]_vars
  BY <1>1, <1>2 DEF Next
<1>4. mgr' = [s EXCEPT !.useBlobs = mgr.useBlobs, !.panic = "none"] /\ prevCurrentL1' = 0
  BY <1>1 DEF Restart
<1>5. Within(s, NotAbove(unsafe)) /\ s \in Manager
  BY <1>2, ClearedWithin, ClearedBooks, BooksTypes DEF RoundTripInv
<1> HIDE DEF s
<1>6. mgr'.blocks = s.blocks /\ mgr'.chan = s.chan
  BY <1>4, <1>5 DEF Manager
<1>7. Within(mgr', NotAbove(unsafe)) /\ prevCurrentL1' <= L1Head
  BY <1>4, <1>5, <1>6, RoundTripTypes DEF Within
<1>8. L1Inv'
  <2>1. L1Inv /\ L1Head' = L1Head
    BY <1>1 DEF RoundTripInv, L1Head
  <2>2. budget' \in Budget /\ budget'.l1 = budget.l1
    BY <1>1, <2>1, BudgetSpent DEF L1Inv
  <2> QED  BY <1>1, <2>1, <2>2 DEF L1Inv
<1>9. LoadingInv'
  BY <1>1 DEF LoadingInv
<1> QED  BY <1>1, <1>3, <1>7, <1>8, <1>9, BatcherFrame

-----------------------------------------------------------------------------
(* Steps of L1, the sequencer and the node *)

LEMMA MineBlockStep ==
  ASSUME RoundTripInv, MineBlock
  PROVE  RoundTripInv' /\ [Next]_vars
<1>1. PICK subs \in SUBSET pool : \E order \in SetToSeqs(subs) :
        l1' = Append(l1, order) /\ pool' = pool \ subs
  BY DEF MineBlock
<1>2. PICK order \in SetToSeqs(subs) : l1' = Append(l1, order) /\ pool' = pool \ subs
  BY <1>1
<1>3. /\ budget.l1 > 0 /\ budget' = [budget EXCEPT !.l1 = @ - 1]
      /\ UNCHANGED <<vars, loading, sent, node, unsafe>>
  BY DEF MineBlock
<1>4. L1Inv /\ SequencedInv /\ NodeOK(node, L1Head, unsafe)
  BY DEF RoundTripInv
<1>5. order \in Seq(Submission)
  <2>1. order \in Seq(pool)
    BY <1>4, OrdersTyped DEF L1Inv
  <2>2. Seq(pool) \subseteq Seq(Submission)
    BY <1>4, SeqDef DEF L1Inv
  <2> QED  BY <2>1, <2>2
<1>6. l1' \in Seq(Seq(Submission)) /\ L1Head' = L1Head + 1 /\ L1Head \in Nat
  BY <1>2, <1>4, <1>5, AppendProperties, LenProperties DEF L1Inv, L1Head
<1>7. L1Inv'
  <2>1. budget' \in Budget /\ budget'.l1 = budget.l1 - 1 /\ budget.l1 \in Nat
    BY <1>3, <1>4, BudgetSpent DEF L1Inv
  <2>2. L1Head' + budget'.l1 <= MaxL1
    BY <1>4, <1>6, <2>1 DEF L1Inv
  <2>3. IsFiniteSet(pool')
    BY <1>2, <1>4, FS_Subset DEF L1Inv
  <2> QED  BY <1>2, <1>3, <1>4, <1>6, <2>1, <2>2, <2>3 DEF L1Inv
<1>8. SequencedInv'
  BY <1>3, <1>4, <1>6, BlockAssumption DEF SequencedInv, NotAbove
<1>9. NodeOK(node, L1Head, unsafe)'
  BY <1>3, <1>4, <1>6 DEF NodeOK, NodeState, NotAbove
<1>10. unsafe' \in Block /\ Number[unsafe] <= Number[unsafe'] /\ L1Head' \in Nat /\ L1Head <= L1Head'
  BY <1>3, <1>6, RoundTripTypes
<1> QED  BY <1>3, <1>7, <1>8, <1>9, <1>10, EnvironmentFrame

LEMMA SequenceBlockStep ==
  ASSUME RoundTripInv, SequenceBlock
  PROVE  RoundTripInv' /\ [Next]_vars
<1>1. PICK b \in Block : Parent[b] = unsafe /\ L1Origin[b] <= L1Head /\ unsafe' = b
  BY DEF SequenceBlock
<1>2. /\ budget.l2 > 0 /\ budget' = [budget EXCEPT !.l2 = @ - 1]
      /\ UNCHANGED <<vars, loading, sent, pool, l1, node>>
  BY DEF SequenceBlock
<1>3. L1Inv /\ SequencedInv /\ NodeOK(node, L1Head, unsafe) /\ unsafe \in Block
      /\ L1Head' = L1Head /\ L1Head \in Nat
  BY <1>2, RoundTripTypes DEF RoundTripInv, L1Head
<1>4. /\ Number[b] = Number[unsafe] + 1 /\ Number[unsafe] \in Nat /\ Number[Genesis] \in Nat
      /\ \A c \in Block : Number[c] \in Nat
  BY <1>1, <1>3, ChainAssumption, BlockAssumption, RoundTripAssumption
<1>5. NotAbove(unsafe) \subseteq NotAbove(b)
  BY <1>4 DEF NotAbove
<1>6. \A c \in NotAbove(b) : c = b \/ c \in NotAbove(unsafe)
  <2> TAKE c \in NotAbove(b)
  <2>1. c \in Block /\ Number[c] <= Number[b] /\ Number[c] \in Nat
    BY <1>4 DEF NotAbove
  <2>2. Number[c] = Number[b] \/ Number[c] <= Number[unsafe]
    BY <1>4, <2>1
  <2> QED  BY <1>1, <2>1, <2>2, RoundTripAssumption DEF NotAbove
<1>7. L1Inv'
  <2>1. budget' \in Budget /\ budget'.l1 = budget.l1
    BY <1>2, <1>3, BudgetSpent DEF L1Inv
  <2> QED  BY <1>2, <1>3, <2>1 DEF L1Inv
<1>8. SequencedInv'
  <2>1. \A n \in Number[Genesis] .. Number[b] : \E c \in Block : Number[c] = n
    <3> TAKE n \in Number[Genesis] .. Number[b]
    <3>1. n = Number[b] \/ n \in Number[Genesis] .. Number[unsafe]
      BY <1>4
    <3> QED  BY <1>1, <1>3, <3>1 DEF SequencedInv
  <2>2. \A c \in NotAbove(b) : L1Origin[c] <= L1Head
    BY <1>1, <1>3, <1>6 DEF SequencedInv
  <2>3. NotAbove(unsafe)' = NotAbove(b)
    BY <1>1 DEF NotAbove
  <2> QED  BY <1>1, <1>3, <2>1, <2>2, <2>3 DEF SequencedInv
<1>9. NodeOK(node, L1Head, unsafe)'
  <2>1. Seq(NotAbove(unsafe)) \subseteq Seq(NotAbove(b))
    BY <1>5, SeqDef
  <2>2. node.safe \in Block /\ Number[node.safe] <= Number[b]
    BY <1>3, <1>4 DEF NodeOK, NodeState
  <2>3. NodeOK(node, L1Head, b)
    BY <1>3, <2>1, <2>2 DEF NodeOK
  <2> QED  BY <1>1, <1>2, <1>3, <2>3
<1>10. unsafe' \in Block /\ Number[unsafe] <= Number[unsafe'] /\ L1Head' \in Nat /\ L1Head <= L1Head'
  BY <1>1, <1>3, <1>4
<1> QED  BY <1>2, <1>7, <1>8, <1>9, <1>10, EnvironmentFrame

\* The data of an L1 block, if there is one.
LEMMA FramesAtTyped ==
  ASSUME RoundTripInv, NEW n
  PROVE  FramesAt(n) \in Seq(Frame)
<1>1. CASE n \in DOMAIN l1
  <2>1. l1[n] \in Seq(Submission)
    BY <1>1 DEF RoundTripInv, L1Inv
  <2> QED  BY <1>1, <2>1, FramesOfTyped, RoundTripTypes DEF FramesAt
<1>2. CASE n \notin DOMAIN l1
  <2>1. <<>> \in Seq(Frame)
    OBVIOUS
  <2> QED  BY <1>2, <2>1 DEF FramesAt
<1> QED  BY <1>1, <1>2

LEMMA NoStagedTyped == NoStaged \in Staged
BY DEF NoStaged, Staged

\* The next L1 block is opened.
LEMMA AdvanceOK ==
  ASSUME NEW st, NEW head \in Nat, NEW b \in Block, NodeOK(st, head, b), st.origin < head,
         NEW fs \in Seq(Frame)
  PROVE  NodeOK(AdvanceOrigin(st, fs), head, b)
<1> DEFINE c == IF ChannelTimedOut(st.channel, st.origin + 1) THEN NoStaged ELSE st.channel
           o == st.origin + 1
           t == [st EXCEPT !.origin = o, !.datas = fs, !.channel = c]
<1>1. st \in NodeState /\ st.origin \in Nat /\ st.channel \in Staged
  BY DEF NodeOK, NodeState
<1>2. AdvanceOrigin(st, fs) = t
  BY <1>1 DEF AdvanceOrigin, NodeState
<1>3. c \in Staged /\ o \in Nat /\ o <= head
  BY <1>1, NoStagedTyped
<1> HIDE DEF c, o
<1>4. t \in NodeState /\ t.origin = o /\ t.safe = st.safe /\ t.batches = st.batches
  BY <1>1, <1>3 DEF NodeState
<1> HIDE DEF t
<1>5. NodeOK(t, head, b)
  BY <1>3, <1>4 DEF NodeOK
<1> QED  BY <1>2, <1>5

\* One frame is read.  What the last frame of a channel releases is what the channel holds.
LEMMA IngestOK ==
  ASSUME NEW st, NEW head \in Nat, NEW b \in Block, NodeOK(st, head, b), st.datas # <<>>,
         NEW batchesOf, \A id \in ChannelID : batchesOf[id] \in Seq(NotAbove(b))
  PROVE  NodeOK(IngestFrame(st, batchesOf), head, b)
<1> DEFINE f == Head(st.datas)
           ch == IF f.number = 0 THEN [id |-> f.id, frames |-> 0, openBlock |-> st.origin]
                 ELSE st.channel
           more == [ch EXCEPT !.frames = @ + 1]
           rest == [st EXCEPT !.datas = Tail(@)]
           done == [rest EXCEPT !.channel = NoStaged, !.batches = batchesOf[f.id]]
           open == [rest EXCEPT !.channel = more]
<1>1. /\ st \in NodeState /\ st.origin \in Nat /\ st.channel \in Staged /\ st.datas \in Seq(Frame)
  BY DEF NodeOK, NodeState
<1>2. f \in Frame /\ Tail(st.datas) \in Seq(Frame)
  BY <1>1
<1>3. f.id \in ChannelID
  BY <1>2 DEF Frame
<1> DEFINE qs == Tail(st.datas)
<1>4. rest = [st EXCEPT !.datas = qs]
  BY <1>1 DEF NodeState
<1> HIDE DEF f, qs
<1>5. ch \in Staged /\ more \in Staged
  <2>1. ch \in Staged
    BY <1>1, <1>3 DEF Staged
  <2> HIDE DEF ch
  <2> QED  BY <2>1 DEF Staged
<1> HIDE DEF ch, more
<1>6. /\ rest \in NodeState /\ rest.origin = st.origin /\ rest.safe = st.safe
      /\ rest.batches = st.batches
  BY <1>1, <1>2, <1>4 DEF NodeState, qs
<1> HIDE DEF rest
<1>7. NodeOK(rest, head, b)
  BY <1>6 DEF NodeOK
<1>8. NodeOK(open, head, b)
  <2>1. /\ open \in NodeState /\ open.origin = st.origin /\ open.safe = st.safe
        /\ open.batches = st.batches
    BY <1>5, <1>6 DEF NodeState
  <2> HIDE DEF open
  <2> QED  BY <2>1 DEF NodeOK
<1>9. NodeOK(done, head, b)
  <2> DEFINE bs == batchesOf[f.id]
  <2>1. bs \in Seq(NotAbove(b)) /\ bs \in Seq(Block)
    <3>1. NotAbove(b) \subseteq Block
      BY DEF NotAbove
    <3>2. Seq(NotAbove(b)) \subseteq Seq(Block)
      BY <3>1, SeqDef
    <3> QED  BY <1>3, <3>2
  <2>2. done = [rest EXCEPT !.channel = NoStaged, !.batches = bs]
    OBVIOUS
  <2> HIDE DEF bs
  <2>3. /\ done \in NodeState /\ done.origin = st.origin /\ done.safe = st.safe
        /\ done.batches = bs
    BY <1>6, <2>1, <2>2, NoStagedTyped DEF NodeState
  <2> HIDE DEF done
  <2> QED  BY <2>1, <2>3 DEF NodeOK
<1>10. IngestFrame(st, batchesOf) \in {rest, done, open}
  BY DEF IngestFrame, rest, f, ch, more
<1> QED  BY <1>7, <1>8, <1>9, <1>10

\* One batch is read: it was sequenced, so what becomes safe was.
LEMMA NextBatchOK ==
  ASSUME NEW st, NEW head \in Nat, NEW b \in Block, NodeOK(st, head, b), st.batches # <<>>
  PROVE  NodeOK(NextBatch(st), head, b)
<1> DEFINE c == Head(st.batches)
           bs == Tail(st.batches)
           rest == [st EXCEPT !.batches = bs]
           taken == [rest EXCEPT !.safe = c]
           flushed == [st EXCEPT !.batches = <<>>, !.channel = NoStaged]
<1>1. st \in NodeState /\ st.batches \in Seq(NotAbove(b)) /\ st.batches \in Seq(Block)
  BY DEF NodeOK, NodeState
<1>2. c \in NotAbove(b) /\ bs \in Seq(NotAbove(b)) /\ bs \in Seq(Block)
  BY <1>1
<1>3. c \in Block /\ Number[c] <= Number[b]
  BY <1>2 DEF NotAbove
<1>4. NextBatch(st) \in {rest, taken, flushed}
  BY <1>1 DEF NextBatch, FlushChannel, NodeState
<1> HIDE DEF c, bs
<1>5. /\ rest \in NodeState /\ rest.origin = st.origin /\ rest.safe = st.safe /\ rest.batches = bs
  BY <1>1, <1>2 DEF NodeState
<1> HIDE DEF rest
<1>6. NodeOK(rest, head, b)
  BY <1>2, <1>5 DEF NodeOK
<1>7. NodeOK(taken, head, b)
  <2>1. taken \in NodeState /\ taken.origin = st.origin /\ taken.safe = c /\ taken.batches = bs
    BY <1>3, <1>5 DEF NodeState
  <2> HIDE DEF taken
  <2> QED  BY <1>2, <1>3, <2>1 DEF NodeOK
<1>8. NodeOK(flushed, head, b)
  <2>1. /\ flushed \in NodeState /\ flushed.origin = st.origin /\ flushed.safe = st.safe
        /\ flushed.batches = <<>>
    <3>1. <<>> \in Seq(Block)
      OBVIOUS
    <3> QED  BY <1>1, <3>1, NoStagedTyped DEF NodeState
  <2>2. <<>> \in Seq(NotAbove(b))
    OBVIOUS
  <2> HIDE DEF flushed
  <2> QED  BY <2>1, <2>2 DEF NodeOK
<1> QED  BY <1>4, <1>6, <1>7, <1>8

\* A reset to a block whose L1 origin exists.
LEMMA ResetOK ==
  ASSUME NEW head \in Nat, NEW b \in Block, NEW c \in NotAbove(b), StartOrigin(c) \in 0 .. head,
         NEW fs \in Seq(Frame)
  PROVE  NodeOK(ResetStages(c, fs), head, b)
<1> DEFINE o == StartOrigin(c)
           t == [ origin |-> o, datas |-> fs, channel |-> NoStaged, batches |-> <<>>, safe |-> c ]
<1>1. c \in Block /\ Number[c] <= Number[b]
  BY DEF NotAbove
<1>2. o \in Nat /\ o <= head /\ <<>> \in Seq(Block) /\ <<>> \in Seq(NotAbove(b))
  OBVIOUS
<1>3. ResetStages(c, fs) = t
  BY DEF ResetStages
<1> HIDE DEF o
<1>4. t \in NodeState
  BY <1>1, <1>2, NoStagedTyped DEF NodeState
<1> QED  BY <1>1, <1>2, <1>3, <1>4 DEF NodeOK

\* A step of the node.
LEMMA NodeFrame ==
  ASSUME RoundTripInv, UNCHANGED <<vars, loading, sent, pool, l1, unsafe>>,
         budget' \in Budget, budget'.l1 = budget.l1, NodeOK(node', L1Head, unsafe)
  PROVE  RoundTripInv' /\ [Next]_vars
<1>1. L1Head' = L1Head /\ NotAbove(unsafe)' = NotAbove(unsafe)
  BY DEF L1Head, NotAbove
<1>2. L1Inv'
  BY <1>1 DEF RoundTripInv, L1Inv
<1>3. SequencedInv'
  BY <1>1 DEF RoundTripInv, SequencedInv
<1>4. NodeOK(node, L1Head, unsafe)'
  BY <1>1 DEF NodeOK
<1>5. unsafe' \in Block /\ Number[unsafe] <= Number[unsafe'] /\ L1Head' \in Nat /\ L1Head <= L1Head'
  BY <1>1, RoundTripTypes
<1> QED  BY <1>2, <1>3, <1>4, <1>5, EnvironmentFrame

LEMMA NodeSteps ==
  ASSUME RoundTripInv, NodeAdvances \/ NodeReads \/ ResetNode
  PROVE  RoundTripInv' /\ [Next]_vars
<1>1. /\ NodeOK(node, L1Head, unsafe) /\ budget \in Budget /\ L1Head \in Nat /\ unsafe \in Block
      /\ Number[unsafe] \in Nat
  BY RoundTripTypes DEF RoundTripInv, L1Inv
<1>2. CASE NodeAdvances
  <2>1. /\ node.origin < L1Head /\ node' = AdvanceOrigin(node, FramesAt(node.origin + 1))
        /\ UNCHANGED <<vars, loading, sent, pool, l1, unsafe, budget>>
    BY <1>2 DEF NodeAdvances
  <2>2. NodeOK(node', L1Head, unsafe)
    BY <1>1, <2>1, FramesAtTyped, AdvanceOK
  <2> QED  BY <1>1, <2>1, <2>2, NodeFrame
<1>3. CASE NodeReads
  <2> DEFINE contents == [id \in ChannelID |-> mgr.chan[id].blocks]
  <2>1. /\ \/ node.batches # <<>> /\ node' = NextBatch(node)
           \/ node.datas # <<>> /\ node' = IngestFrame(node, contents)
        /\ UNCHANGED <<vars, loading, sent, pool, l1, unsafe, budget>>
    BY <1>3 DEF NodeReads
  <2>2. \A id \in ChannelID : contents[id] \in Seq(NotAbove(unsafe))
    BY DEF RoundTripInv, Within
  <2> HIDE DEF contents
  <2>3. NodeOK(node', L1Head, unsafe)
    BY <1>1, <2>1, <2>2, IngestOK, NextBatchOK
  <2> QED  BY <1>1, <2>1, <2>3, NodeFrame
<1>4. CASE ResetNode
  <2>1. PICK b \in Block : /\ Number[b] <= Number[node.safe]
                           /\ node' = ResetStages(b, FramesAt(StartOrigin(b)))
    BY <1>4 DEF ResetNode
  <2>2. /\ budget.resets > 0 /\ budget' = [budget EXCEPT !.resets = @ - 1]
        /\ UNCHANGED <<vars, loading, sent, pool, l1, unsafe>>
    BY <1>4 DEF ResetNode
  <2>3. b \in NotAbove(unsafe)
    <3>1. /\ Number[b] \in Nat /\ Number[node.safe] \in Nat /\ Number[node.safe] <= Number[unsafe]
      BY <1>1, BlockAssumption DEF NodeOK, NodeState
    <3> QED  BY <1>1, <2>1, <3>1 DEF NotAbove
  <2>4. NodeOK(node', L1Head, unsafe)
    BY <1>1, <2>1, <2>3, RoundTripTypes, FramesAtTyped, ResetOK
  <2>5. budget' \in Budget /\ budget'.l1 = budget.l1
    BY <1>1, <2>2, BudgetSpent
  <2> QED  BY <2>2, <2>4, <2>5, NodeFrame
<1> QED  BY <1>2, <1>3, <1>4

-----------------------------------------------------------------------------
(* The results *)

LEMMA RoundTripInitInv == RoundTripInit => RoundTripInv
<1> SUFFICES ASSUME RoundTripInit PROVE RoundTripInv
  OBVIOUS
<1>1. /\ Init /\ loading = NoRange /\ sent = {} /\ pool = {} /\ l1 = <<>>
      /\ node = ResetStages(Genesis, <<>>) /\ unsafe = Genesis /\ budget \in Scenarios
  BY DEF RoundTripInit
<1>2. IInv /\ prevCurrentL1 = 0
  BY <1>1, InitIInv DEF Init
<1>3. /\ Genesis \in Block /\ L1Origin[Genesis] = 0 /\ Number[Genesis] \in Nat
      /\ \A b \in Block : Number[b] \in Nat /\ Number[Genesis] <= Number[b]
      /\ \A b \in Block : Number[b] = Number[Genesis] => b = Genesis
  BY RoundTripAssumption, BlockAssumption
<1>4. L1Head = 0
  BY <1>1 DEF L1Head
<1>5. NotAbove(Genesis) = {Genesis}
  BY <1>3 DEF NotAbove
<1>6. Within(mgr, NotAbove(unsafe))
  <2>1. mgr.blocks = <<>> /\ \A id \in ChannelID : mgr.chan[id].blocks = <<>>
    BY <1>1 DEF Init, NewChannel
  <2>2. <<>> \in Seq(NotAbove(unsafe))
    OBVIOUS
  <2> QED  BY <2>1, <2>2 DEF Within
<1>7. L1Inv
  <2>1. budget \in Scenario
    BY <1>1, RoundTripAssumption
  <2>2. budget \in Budget /\ budget.l1 <= MaxL1 /\ budget.l1 \in Nat
    BY <2>1, ChainAssumption DEF Scenario, Budget
  <2>3. l1 \in Seq(Seq(Submission))
    BY <1>1
  <2> QED  BY <1>1, <1>4, <2>2, <2>3, FS_EmptySet DEF L1Inv
<1>8. SequencedInv
  BY <1>1, <1>3, <1>4, <1>5 DEF SequencedInv
<1>9. NodeOK(node, L1Head, unsafe)
  <2>1. StartOrigin(Genesis) \in 0 .. 0
    BY <1>3, StartOriginBound
  <2>2. Genesis \in NotAbove(Genesis) /\ <<>> \in Seq(Frame)
    BY <1>5
  <2>3. \A head \in Nat, fs \in Seq(Frame) :
          StartOrigin(Genesis) \in 0 .. head => NodeOK(ResetStages(Genesis, fs), head, Genesis)
    BY <1>3, <2>2, ResetOK
  <2>4. 0 \in Nat
    OBVIOUS
  <2>5. NodeOK(ResetStages(Genesis, <<>>), 0, Genesis)
    BY <2>1, <2>2, <2>3, <2>4, Zenon
  <2> QED  BY <1>1, <1>4, <2>5
<1>10. LoadingInv
  BY <1>1 DEF LoadingInv
<1> QED  BY <1>2, <1>4, <1>6, <1>7, <1>8, <1>9, <1>10 DEF RoundTripInv

\* Every step keeps the invariant, and is a call of the manager or none.
LEMMA RoundTripStepInv ==
  ASSUME RoundTripInv, [RoundTripNext]_allVars
  PROVE  RoundTripInv' /\ [Next]_vars
<1>1. CASE UNCHANGED allVars
  <2>1. UNCHANGED <<vars, loading, sent, pool, l1, node, unsafe, budget>>
    BY <1>1 DEF allVars, envVars
  <2>2. budget' \in Budget /\ budget'.l1 = budget.l1 /\ NodeOK(node', L1Head, unsafe)
    BY <2>1 DEF RoundTripInv, L1Inv
  <2> QED  BY <2>1, <2>2, NodeFrame
<1>2. CASE RoundTripNext
  BY <1>2, PollStep, LoadBlockStep, PublishStep, RestartBatcherStep, ConfirmStep, FailStep,
     MineBlockStep, SequenceBlockStep, NodeSteps DEF RoundTripNext
<1> QED  BY <1>1, <1>2

\* The inductive invariant: whatever the batcher holds, the loader asks for, and the node
\* has read, was sequenced, and the L1 blocks they know exist.
THEOREM RoundTripInvariant == RoundTripSpec => []RoundTripInv
<1>1. RoundTripInv /\ [RoundTripNext]_allVars => RoundTripInv'
  BY RoundTripStepInv
<1> QED  BY <1>1, RoundTripInitInv, PTL DEF RoundTripSpec

\* The loops, fed by the node that derives what they sent, use the channel manager as its
\* specification allows (syncAndPrune, loadBlocksIntoState, publishTxToL1, handleReceipt).
THEOREM RoundTripImplementsManager == RoundTripSpec => Spec
<1>1. RoundTripInit => Init
  BY DEF RoundTripInit
<1>2. RoundTripInv /\ [RoundTripNext]_allVars => [Next]_vars
  BY RoundTripStepInv
<1> QED  BY <1>1, <1>2, RoundTripInvariant, PTL DEF RoundTripSpec, Spec

\* However frames are lost, repeated and reordered on L1, the node derives nothing that
\* was not sequenced, and neither it nor the batcher gets ahead of L1, also across resets
\* and restarts (initialReset, AdvanceOrigin, computeSyncActions).
THEOREM RoundTripTypeCorrect == RoundTripSpec => []RoundTripTypeOK
<1>1. RoundTripInv => RoundTripTypeOK
  <2> SUFFICES ASSUME RoundTripInv PROVE RoundTripTypeOK
    OBVIOUS
  <2>1. node.origin \in 0 .. L1Head
    BY RoundTripTypes DEF RoundTripInv, NodeOK, NodeState
  <2> QED  BY <2>1, RoundTripTypes DEF RoundTripInv, L1Inv, NodeOK, RoundTripTypeOK
<1> QED  BY <1>1, RoundTripInvariant, PTL

\* What the channels hold between the sequencer and L1 is in order in the round trip too:
\* full submission means that every frame was confirmed, and no block is skipped.
THEOREM RoundTripContents ==
  RoundTripSpec =>
    /\ [](FullySubmittedIsConfirmed /\ BlocksFormChain /\ ChannelsCoverCursor /\ TxsDoNotOverlap)
    /\ ClosedChannelsKeepContents
BY RoundTripImplementsManager, FullSubmission, ChainHeld, CursorCovered, GroupsDisjoint,
   ClosedKept, PTL
=============================================================================
