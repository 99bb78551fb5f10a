------------------------ MODULE ChannelManagerProofs ------------------------
(***************************************************************************)
(* What ChannelManager guarantees for every chain of L2 blocks, every      *)
(* configuration the code accepts and every sequence of calls.             *)
(*                                                                         *)
(* The methods are operators on one channel or on the manager's record, so *)
(* each has a lemma of its own: if the state it starts from is good, so is *)
(* every state it may leave.  The theorems at the end put them together.   *)
(***************************************************************************)
EXTENDS ChannelManager, SequenceTheorems, WellFoundedInduction, TLAPS

-----------------------------------------------------------------------------
(* The invariant of one channel *)

\* Every frame before the cursor is in a transaction that is pending or
\* confirmed, and transactions carry frames of this channel only.  This is the
\* part that also holds between closing a channel and cutting its last frames.
ChannelCore(id, c) ==
  /\ c \in Channel
  /\ c.frameCursor <= c.numFrames
  /\ \A tx \in c.pending \cup c.confirmed :
       tx.ch = id /\ tx.first <= tx.last /\ tx.last < c.numFrames
  /\ \A frame \in 0 .. c.frameCursor - 1 :
       \E tx \in c.pending \cup c.confirmed : Carries(tx, frame)

\* A closed channel has frames, and frames come from blocks.
ChannelInv(id, c) ==
  /\ ChannelCore(id, c)
  /\ c.full => c.numFrames > 0
  /\ c.blocks = <<>> => c.numFrames = 0

\* The smallest element of a non-empty set of positions exists (FirstOf).
LEMMA FirstOfIsLeast ==
  ASSUME NEW S \in SUBSET Nat, S # {}
  PROVE  FirstOf(S) \in S /\ \A j \in S : FirstOf(S) <= j
<1> DEFINE LessThan == {ss \in Nat \X Nat : ss[1] < ss[2]}
<1>a. IsWellFoundedOn(LessThan, Nat)
  BY NatLessThanWellFounded, Zenon DEF OpToRel
<1>1. PICK i \in S : \A j \in S : ~(<<j, i>> \in LessThan)
  <2> HIDE DEF LessThan
  <2> QED
    BY <1>a, WFMin, Zenon
<1>2. ASSUME NEW j \in S PROVE i <= j
  <2>1. i \in Nat /\ j \in Nat
    OBVIOUS
  <2>2. SUFFICES ASSUME j < i PROVE FALSE
    BY <2>1
  <2>3. <<j, i>> \in LessThan
    BY <2>1, <2>2
  <2> QED
    BY <1>1, <2>3
<1> QED
  BY <1>2 DEF FirstOf

\* newChannel leaves a channel without frames and transactions.
LEMMA NewChannelCore ==
  ASSUME NEW id \in ChannelID, NEW b \in BOOLEAN, NEW l1 \in Nat
  PROVE  ChannelCore(id, NewChannel(b, l1)) /\ ~NewChannel(b, l1).full
BY ConfigAssumption DEF ChannelCore, NewChannel, Channel, UpdateTimeout

\* Adding blocks touches neither frames nor transactions (AddBlock).
LEMMA AddBlocksCore ==
  ASSUME NEW id \in ChannelID, NEW c, ChannelCore(id, c),
         NEW bs \in Seq(Block), NEW f \in BOOLEAN
  PROVE  ChannelCore(id, [AddBlocks(c, bs) EXCEPT !.full = f])
<1>1. CASE bs = <<>>
  BY <1>1 DEF ChannelCore, AddBlocks, Channel
<1>2. CASE bs # <<>>
  <2>1. c.blocks \o bs \in Seq(Block)
    BY ConcatProperties DEF ChannelCore, Channel
  <2>2. L1Origin[bs[1]] + SeqWindowSize - SubSafetyMargin \in Nat
    <3>1. bs[1] \in Block
      BY <1>2, EmptySeq, ElementOfSeq
    <3> QED
      BY <3>1, BlockAssumption, ConfigAssumption
  <2>3. UpdateTimeout(c.timeout, L1Origin[bs[1]] + SeqWindowSize - SubSafetyMargin) \in Nat
    BY <2>2 DEF UpdateTimeout, ChannelCore, Channel
  <2> DEFINE d == [AddBlocks(c, bs) EXCEPT !.full = f]
  <2>4. d = [c EXCEPT !.blocks = @ \o bs,
                      !.timeout = UpdateTimeout(@, L1Origin[bs[1]] + SeqWindowSize - SubSafetyMargin),
                      !.full = f]
    BY <1>2 DEF AddBlocks, ChannelCore, Channel
  <2>5. d \in Channel
    BY <2>1, <2>3, <2>4 DEF ChannelCore, Channel
  <2>6. /\ d.frameCursor = c.frameCursor /\ d.numFrames = c.numFrames
        /\ d.pending = c.pending /\ d.confirmed = c.confirmed
    BY <2>4 DEF ChannelCore, Channel
  <2> HIDE DEF d
  <2> QED
    BY <2>5, <2>6 DEF ChannelCore, d
<1> QED
  BY <1>1, <1>2

\* CheckTimeout only decides whether the channel is full.
LEMMA CheckTimeoutCore ==
  ASSUME NEW id \in ChannelID, NEW c, ChannelCore(id, c), NEW l1 \in Nat
  PROVE  ChannelCore(id, CheckTimeout(c, l1))
BY DEF ChannelCore, CheckTimeout, Channel

\* OutputFrames adds frames after the ones there are; closing adds at least one.
LEMMA OutputFramesInv ==
  ASSUME NEW id \in ChannelID, NEW c, ChannelCore(id, c), c.blocks # <<>>,
         NEW d \in OutputFrames(c)
  PROVE  /\ ChannelInv(id, d)
         /\ d.blocks = c.blocks /\ d.full = c.full
         /\ d.pending = c.pending /\ d.confirmed = c.confirmed /\ d.useBlobs = c.useBlobs
         /\ d.numFrames >= c.numFrames /\ d.frameCursor = c.frameCursor
<1>1. PICK n \in Nat : /\ d = [c EXCEPT !.numFrames = n]
                       /\ n >= c.numFrames
                       /\ c.full => n > 0
  BY ConfigAssumption DEF OutputFrames, ChannelCore, Channel
<1>2. /\ d \in Channel /\ d.numFrames = n
      /\ d.blocks = c.blocks /\ d.pending = c.pending /\ d.confirmed = c.confirmed
      /\ d.full = c.full /\ d.frameCursor = c.frameCursor /\ d.useBlobs = c.useBlobs
  BY <1>1 DEF ChannelCore, Channel
<1>3. c.numFrames \in Nat /\ c.frameCursor \in Nat /\ c.pending \cup c.confirmed \in SUBSET TxID
  BY DEF ChannelCore, Channel
<1>4. \A tx \in d.pending \cup d.confirmed :
        tx.ch = id /\ tx.first <= tx.last /\ tx.last < d.numFrames
  BY <1>1, <1>2, <1>3 DEF ChannelCore, TxID
<1>5. \A frame \in 0 .. d.frameCursor - 1 :
        \E tx \in d.pending \cup d.confirmed : Carries(tx, frame)
  BY <1>2 DEF ChannelCore
<1> QED
  BY <1>1, <1>2, <1>3, <1>4, <1>5 DEF ChannelInv, ChannelCore

\* The frames handed out next follow the cursor and are frames of the channel
\* (NextTxData after HasTxData).
LEMMA NextTxFrames ==
  ASSUME NEW id \in ChannelID, NEW c, ChannelCore(id, c), HasTxData(c)
  PROVE  /\ NextTx(id, c) \in TxID
         /\ NextTx(id, c).ch = id
         /\ NextTx(id, c).first = c.frameCursor
         /\ NextTx(id, c).first <= NextTx(id, c).last
         /\ NextTx(id, c).last < c.numFrames
<1>1. c.frameCursor \in Nat /\ c.numFrames \in Nat
  BY DEF ChannelCore, Channel
<1>2. MaxFramesPerTx(c) \in Nat \ {0}
  BY ConfigAssumption DEF MaxFramesPerTx
<1>3. c.frameCursor < c.numFrames
  BY <1>1, <1>2 DEF HasTxData, PendingFrames
<1> DEFINE upTo == c.frameCursor + MaxFramesPerTx(c)
           last == (IF upTo < c.numFrames THEN upTo ELSE c.numFrames) - 1
<1>4. last \in Nat /\ c.frameCursor <= last /\ last < c.numFrames
  BY <1>1, <1>2, <1>3
<1>5. NextTx(id, c) = [ch |-> id, first |-> c.frameCursor, last |-> last]
  BY DEF NextTx
<1> HIDE DEF last, upTo
<1> QED
  BY <1>1, <1>4, <1>5 DEF TxID

\* Handing out a transaction (NextTxData) keeps the channel good: the frames the
\* cursor passes are the ones the new pending transaction carries.
LEMMA NextTxDataInv ==
  ASSUME NEW id \in ChannelID, NEW c, ChannelInv(id, c), HasTxData(c)
  PROVE  ChannelInv(id, NextTxData(id, c))
<1> DEFINE tx == NextTx(id, c)
           d  == NextTxData(id, c)
<1>1. /\ tx \in TxID /\ tx.ch = id /\ tx.first = c.frameCursor
      /\ tx.first <= tx.last /\ tx.last < c.numFrames
  BY NextTxFrames DEF ChannelInv
<1>2. d = [c EXCEPT !.frameCursor = tx.last + 1, !.pending = @ \cup {tx}]
  BY DEF NextTxData
<1>3. /\ c \in Channel /\ c.frameCursor \in Nat /\ c.numFrames \in Nat
      /\ c.pending \in SUBSET TxID /\ c.confirmed \in SUBSET TxID
  BY DEF ChannelInv, ChannelCore, Channel
<1>4. tx.last \in Nat /\ tx.first \in Nat
  BY <1>1 DEF TxID
<1> HIDE DEF tx, d
<1>p. c.pending \cup {tx} \in SUBSET TxID /\ tx.last + 1 \in Nat
  BY <1>1, <1>3, <1>4
<1>5. /\ d \in Channel /\ d.numFrames = c.numFrames /\ d.full = c.full /\ d.blocks = c.blocks
      /\ d.frameCursor = tx.last + 1 /\ d.pending = c.pending \cup {tx}
      /\ d.confirmed = c.confirmed
  BY <1>2, <1>3, <1>p DEF Channel
<1>6. \A frame \in 0 .. d.frameCursor - 1 :
        \E t \in d.pending \cup d.confirmed : Carries(t, frame)
  <2> TAKE frame \in 0 .. d.frameCursor - 1
  <2>1. CASE frame < c.frameCursor
    BY <2>1, <1>3, <1>5 DEF ChannelInv, ChannelCore
  <2>2. CASE frame >= c.frameCursor
    BY <2>2, <1>1, <1>3, <1>4, <1>5 DEF Carries
  <2> QED
    BY <2>1, <2>2, <1>3, <1>4, <1>5
<1>7. \A t \in d.pending \cup d.confirmed :
        t.ch = id /\ t.first <= t.last /\ t.last < d.numFrames
  <2> TAKE t \in d.pending \cup d.confirmed
  <2>1. CASE t = tx
    BY <2>1, <1>1, <1>5
  <2>2. CASE t \in c.pending \cup c.confirmed
    BY <2>2, <1>5 DEF ChannelInv, ChannelCore
  <2> QED
    BY <2>1, <2>2, <1>5
<1>8. d.frameCursor <= d.numFrames
  BY <1>1, <1>3, <1>4, <1>5
<1> QED
  BY <1>5, <1>6, <1>7, <1>8 DEF ChannelInv, ChannelCore, d

\* A failed transaction takes the cursor back to its first frame, so the frames
\* that stay before the cursor are in other transactions.
LEMMA TxFailedInv ==
  ASSUME NEW id \in ChannelID, NEW c, ChannelInv(id, c), NEW tx \in TxID
  PROVE  ChannelInv(id, ChannelTxFailed(c, tx))
<1>1. CASE tx \notin c.pending
  BY <1>1 DEF ChannelTxFailed
<1>2. CASE tx \in c.pending
  <2> DEFINE cursor == IF c.frameCursor > tx.first THEN tx.first ELSE c.frameCursor
             d == ChannelTxFailed(c, tx)
  <2>1. /\ c \in Channel /\ c.frameCursor \in Nat /\ c.numFrames \in Nat
        /\ c.pending \in SUBSET TxID /\ c.confirmed \in SUBSET TxID
        /\ tx.first \in Nat /\ tx.last \in Nat
    BY DEF ChannelInv, ChannelCore, Channel, TxID
  <2>2. d = [c EXCEPT !.frameCursor = cursor, !.pending = @ \ {tx}]
    BY <1>2, <2>1 DEF ChannelTxFailed
  <2>3. cursor \in Nat /\ cursor <= c.frameCursor /\ cursor <= tx.first
    BY <2>1
  <2> HIDE DEF cursor, d
  <2>4. /\ d \in Channel /\ d.numFrames = c.numFrames /\ d.full = c.full /\ d.blocks = c.blocks
        /\ d.frameCursor = cursor /\ d.pending = c.pending \ {tx}
        /\ d.confirmed = c.confirmed
    BY <2>1, <2>2, <2>3 DEF Channel
  <2>5. \A frame \in 0 .. d.frameCursor - 1 :
          \E t \in d.pending \cup d.confirmed : Carries(t, frame)
    <3> TAKE frame \in 0 .. d.frameCursor - 1
    <3>1. frame \in 0 .. c.frameCursor - 1 /\ frame < tx.first
      BY <2>1, <2>3, <2>4
    <3>2. PICK t \in c.pending \cup c.confirmed : Carries(t, frame)
      BY <3>1 DEF ChannelInv, ChannelCore
    <3>3. t # tx
      BY <3>1, <3>2, <2>1 DEF Carries
    <3> QED
      BY <3>2, <3>3, <2>4
  <2>6. d.frameCursor <= d.numFrames
    BY <2>1, <2>3, <2>4 DEF ChannelInv, ChannelCore
  <2> QED
    BY <2>4, <2>5, <2>6 DEF ChannelInv, ChannelCore, d
<1> QED
  BY <1>1, <1>2

\* Confirming moves a transaction from one book to the other.
LEMMA TxConfirmedInv ==
  ASSUME NEW id \in ChannelID, NEW c, ChannelInv(id, c), NEW tx \in TxID, NEW l1 \in Nat
  PROVE  ChannelInv(id, ChannelTxConfirmed(c, tx, l1))
<1>1. CASE tx \notin c.pending
  BY <1>1 DEF ChannelTxConfirmed
<1>2. CASE tx \in c.pending
  <2> DEFINE timeout == UpdateTimeout(c.timeout, l1 + ChannelTimeout - SubSafetyMargin)
             min == IF c.confirmed = {} \/ l1 < c.minIncl THEN l1 ELSE c.minIncl
             max == IF l1 > c.maxIncl THEN l1 ELSE c.maxIncl
             d == ChannelTxConfirmed(c, tx, l1)
  <2>1. /\ c \in Channel /\ c.pending \in SUBSET TxID /\ c.confirmed \in SUBSET TxID
        /\ c.timeout \in Nat /\ c.minIncl \in Nat /\ c.maxIncl \in Nat
    BY DEF ChannelInv, ChannelCore, Channel
  <2>2. timeout \in Nat /\ min \in Nat /\ max \in Nat
    BY <2>1, ConfigAssumption DEF UpdateTimeout
  <2>3. d = [c EXCEPT !.pending = @ \ {tx}, !.confirmed = @ \cup {tx},
                      !.timeout = timeout, !.minIncl = min, !.maxIncl = max]
    BY <1>2, <2>1 DEF ChannelTxConfirmed
  <2> HIDE DEF timeout, min, max, d
  <2>4. /\ d \in Channel /\ d.numFrames = c.numFrames /\ d.full = c.full /\ d.blocks = c.blocks
        /\ d.frameCursor = c.frameCursor
        /\ d.pending = c.pending \ {tx} /\ d.confirmed = c.confirmed \cup {tx}
    BY <2>1, <2>2, <2>3 DEF Channel
  <2>5. d.pending \cup d.confirmed = c.pending \cup c.confirmed
    BY <1>2, <2>4
  <2> QED
    BY <2>4, <2>5 DEF ChannelInv, ChannelCore, d
<1> QED
  BY <1>1, <1>2

-----------------------------------------------------------------------------
(* The manager's books *)

Distinct(q) == \A i, j \in DOMAIN q : q[i] = q[j] => i = j

\* Every channel is good; queued channels have blocks and are queued once; and
\* the transactions of queued channels are exactly the ones txChannels knows.
BooksInv(s) ==
  /\ s \in Manager
  /\ s.blockCursor <= Len(s.blocks)
  /\ \A id \in ChannelID : ChannelInv(id, s.chan[id])
  /\ Distinct(s.channelQueue)
  /\ \A i \in DOMAIN s.channelQueue : s.chan[s.channelQueue[i]].blocks # <<>>
  /\ s.currentChannel # NoChannel => s.chan[s.currentChannel].blocks # <<>>
  /\ \A tx \in s.txChannels : tx \in s.chan[tx.ch].pending
  /\ \A i \in DOMAIN s.channelQueue : s.chan[s.channelQueue[i]].pending \subseteq s.txChannels

\* Appending a channel that is not queued keeps the queue free of duplicates
\* (ensureChannelWithSpace).
LEMMA DistinctAppend ==
  ASSUME NEW q \in Seq(ChannelID), Distinct(q), NEW id \in ChannelID,
         \A i \in DOMAIN q : q[i] # id
  PROVE  Distinct(Append(q, id))
<1> DEFINE r == Append(q, id)
           n == Len(q)
<1>1. DOMAIN q = 1 .. n /\ n \in Nat
  BY LenProperties
<1>2. DOMAIN r = 1 .. n + 1 /\ r[n + 1] = id /\ \A i \in 1 .. n : r[i] = q[i]
  BY AppendProperties, LenProperties
<1> HIDE DEF r, n
<1>3. \A i \in DOMAIN r : (i \in DOMAIN q /\ r[i] = q[i]) \/ (i = n + 1 /\ r[i] = id)
  BY <1>1, <1>2
<1> QED
  BY <1>3 DEF Distinct, r

\* A segment of a queue without duplicates has none (handleChannelInvalidated and
\* PruneChannels cut the queue).
LEMMA DistinctSubSeq ==
  ASSUME NEW q \in Seq(ChannelID), Distinct(q), NEW a \in Nat \ {0}, NEW b \in Nat, b <= Len(q)
  PROVE  Distinct(SubSeq(q, a, b))
<1> DEFINE r == SubSeq(q, a, b)
<1>1. DOMAIN q = 1 .. Len(q) /\ Len(q) \in Nat
  BY LenProperties
<1>2. /\ DOMAIN r = 1 .. (IF a <= b THEN b - a + 1 ELSE 0)
      /\ \A i \in 1 .. b - a + 1 : r[i] = q[a + i - 1]
  BY <1>1, SubSeqProperties, LenProperties
<1> HIDE DEF r
<1>3. \A i \in DOMAIN r : i \in Nat /\ a + i - 1 \in DOMAIN q /\ r[i] = q[a + i - 1]
  BY <1>1, <1>2
<1> SUFFICES ASSUME NEW i \in DOMAIN r, NEW j \in DOMAIN r, r[i] = r[j]
             PROVE  i = j
  BY DEF Distinct, r
<1>4. a + i - 1 = a + j - 1
  <2> DEFINE x == a + i - 1
             y == a + j - 1
  <2>1. x \in DOMAIN q /\ y \in DOMAIN q /\ q[x] = q[y]
    BY <1>3
  <2> HIDE DEF x, y
  <2>2. x = y
    BY <2>1, Zenon DEF Distinct
  <2> QED
    BY <2>2 DEF x, y
<1> QED
  BY <1>3, <1>4

\* A channel without blocks was never used: no transaction carries its frames.
LEMMA UnusedChannel ==
  ASSUME NEW id, NEW c, ChannelInv(id, c), c.blocks = <<>>
  PROVE  c.pending = {} /\ c.confirmed = {}
BY DEF ChannelInv, ChannelCore, Channel, TxID

\* Replacing one channel by a good one that has blocks and the same pending
\* transactions keeps the books.
LEMMA BooksUpdateChannel ==
  ASSUME NEW s, BooksInv(s), NEW id \in ChannelID, NEW c, ChannelInv(id, c),
         c.blocks # <<>>, c.pending = s.chan[id].pending
  PROVE  BooksInv([s EXCEPT !.chan[id] = c])
<1> DEFINE t == [s EXCEPT !.chan[id] = c]
<1>1. /\ t \in Manager /\ t.channelQueue = s.channelQueue /\ t.txChannels = s.txChannels
      /\ t.currentChannel = s.currentChannel
      /\ t.blocks = s.blocks /\ t.blockCursor = s.blockCursor
      /\ t.chan = [s.chan EXCEPT ![id] = c]
  BY DEF BooksInv, Manager, ChannelInv, ChannelCore
<1>2. s.chan \in [ChannelID -> Channel] /\ s.txChannels \in SUBSET TxID
      /\ s.channelQueue \in Seq(ChannelID) /\ s.currentChannel \in ChannelID \cup {NoChannel}
  BY DEF BooksInv, Manager
<1>3. \A i \in DOMAIN s.channelQueue : s.channelQueue[i] \in ChannelID
  BY <1>2
<1> HIDE DEF t
<1>4. \A x \in ChannelID : t.chan[x] = IF x = id THEN c ELSE s.chan[x]
  BY <1>1, <1>2
<1>5. \A x \in ChannelID : ChannelInv(x, t.chan[x]) /\ t.chan[x].pending = s.chan[x].pending
  BY <1>4 DEF BooksInv
<1>6. \A x \in ChannelID : s.chan[x].blocks # <<>> => t.chan[x].blocks # <<>>
  BY <1>4
<1>7. \A tx \in t.txChannels : tx \in t.chan[tx.ch].pending
  BY <1>1, <1>2, <1>5 DEF BooksInv, TxID
<1> QED
  BY <1>1, <1>2, <1>3, <1>5, <1>6, <1>7 DEF BooksInv, Distinct, t

\* What getReadyChannel's building half leaves alone: all fields but the current
\* channel, the queue, the cursor and the channel id.
OutsideChannel(s, u, id) ==
  /\ u \in Manager
  /\ u.blocks = s.blocks /\ u.l1OriginLast = s.l1OriginLast /\ u.useBlobs = s.useBlobs
  /\ u.tip = s.tip /\ u.txChannels = s.txChannels /\ u.panic = s.panic
  /\ \A x \in ChannelID \ {id} : u.chan[x] = s.chan[x]

\* Filling a channel and cutting frames leaves what was sent alone.
SameTxs(d, c) ==
  /\ d.pending = c.pending /\ d.confirmed = c.confirmed
  /\ d.frameCursor = c.frameCursor /\ d.numFrames >= c.numFrames /\ d.useBlobs = c.useBlobs

\* What it does in all: it takes the open current channel or a new one, id, adds
\* the next k blocks and cuts frames.
Filled(s, u, id, k, q, base) ==
  /\ \/ id = s.currentChannel /\ q = s.channelQueue /\ base = s.chan[id]
     \/ /\ s.chan[id].blocks = <<>>
        /\ q = Append(s.channelQueue, id)
        /\ base = NewChannel(s.useBlobs, s.l1OriginLast)
  /\ ~base.full
  /\ k + Len(base.blocks) > 0
  /\ OutsideChannel(s, u, id)
  /\ u.currentChannel = id /\ u.channelQueue = q /\ u.blockCursor = s.blockCursor + k
  /\ u.chan[id].blocks = base.blocks \o SubSeq(s.blocks, s.blockCursor + 1, s.blockCursor + k)
  /\ u.chan[id].blocks # <<>>
  /\ SameTxs(u.chan[id], base)
  /\ ChannelInv(id, u.chan[id])

\* Replacing the channel id by another one changes nothing else.
LEMMA ReplaceChannel ==
  ASSUME NEW s \in Manager, NEW t \in Manager, NEW id \in ChannelID, NEW c \in Channel,
         OutsideChannel(s, t, id)
  PROVE  LET u == [t EXCEPT !.chan[id] = c]
         IN  /\ OutsideChannel(s, u, id)
             /\ u.chan[id] = c
             /\ u.currentChannel = t.currentChannel /\ u.channelQueue = t.channelQueue
             /\ u.blockCursor = t.blockCursor
<1> DEFINE u == [t EXCEPT !.chan[id] = c]
<1>1. t.chan \in [ChannelID -> Channel]
  BY DEF Manager
<1>2. [t.chan EXCEPT ![id] = c] \in [ChannelID -> Channel]
  BY <1>1
<1>3. u = [t EXCEPT !.chan = [t.chan EXCEPT ![id] = c]]
  BY DEF Manager
<1>4. u \in Manager
  BY <1>2, <1>3 DEF Manager
<1>5. /\ u.blocks = t.blocks /\ u.l1OriginLast = t.l1OriginLast /\ u.useBlobs = t.useBlobs
      /\ u.tip = t.tip /\ u.txChannels = t.txChannels /\ u.panic = t.panic
      /\ u.currentChannel = t.currentChannel /\ u.channelQueue = t.channelQueue
      /\ u.blockCursor = t.blockCursor /\ u.chan = [t.chan EXCEPT ![id] = c]
  BY <1>3 DEF Manager
<1> HIDE DEF u
<1>6. u.chan[id] = c /\ \A x \in ChannelID \ {id} : u.chan[x] = t.chan[x]
  BY <1>1, <1>5
<1>7. OutsideChannel(s, u, id)
  BY <1>4, <1>5, <1>6 DEF OutsideChannel
<1> QED
  BY <1>5, <1>6, <1>7 DEF u

\* Every outcome of ensureChannelWithSpace, processBlocks, registerL1Block and
\* outputFrames has the shape Filled describes.
LEMMA FillShape ==
  ASSUME NEW s, BooksInv(s), s.blockCursor < Len(s.blocks),
         NEW l1Head \in Nat, NEW pi \in PubInfo, NEW u \in FillCurrentChannel(s, l1Head, pi)
  PROVE  \E id \in ChannelID, k \in 0 .. PendingBlocks(s), q \in Seq(ChannelID), base \in Channel :
           Filled(s, u, id, k, q, base)
<1>0. /\ s \in Manager /\ s.blocks \in Seq(Block) /\ s.blockCursor \in Nat
      /\ s.chan \in [ChannelID -> Channel] /\ s.channelQueue \in Seq(ChannelID)
      /\ s.currentChannel \in ChannelID \cup {NoChannel}
      /\ s.useBlobs \in BOOLEAN /\ s.l1OriginLast \in Nat
  BY DEF BooksInv, Manager
<1> DEFINE Registered(v) == IF pi.ignoreMaxChannelDuration THEN v ELSE RegisterL1Block(v, l1Head)
           Output(w) == WithCurrent(w, OutputFrames(w.chan[w.currentChannel]))
<1>a. PICK v \in UNION {ProcessBlocks(t) : t \in EnsureChannelWithSpace(s)} : u \in Output(Registered(v))
  BY Zenon DEF FillCurrentChannel
<1>1. PICK t \in EnsureChannelWithSpace(s) : v \in ProcessBlocks(t)
  BY <1>a, Zenon
<1> DEFINE id == t.currentChannel
           base == t.chan[id]
           q == t.channelQueue
<1>2. /\ id \in ChannelID /\ q \in Seq(ChannelID) /\ OutsideChannel(s, t, id)
      /\ t.blockCursor = s.blockCursor
      /\ \/ id = s.currentChannel /\ q = s.channelQueue /\ base = s.chan[id]
         \/ /\ s.chan[id].blocks = <<>>
            /\ q = Append(s.channelQueue, id)
            /\ base = NewChannel(s.useBlobs, s.l1OriginLast)
      /\ ~base.full /\ ChannelCore(id, base)
  <2>1. CASE s.currentChannel # NoChannel /\ ~s.chan[s.currentChannel].full
    <3>1. t = s
      BY <2>1, <1>1 DEF EnsureChannelWithSpace
    <3>2. s.currentChannel \in ChannelID
      BY <1>0, <2>1
    <3> QED
      BY <3>1, <3>2, <2>1, <1>0 DEF BooksInv, ChannelInv, OutsideChannel
  <2>2. CASE ~(s.currentChannel # NoChannel /\ ~s.chan[s.currentChannel].full)
    <3> DEFINE new == NewChannel(s.useBlobs, s.l1OriginLast)
    <3>1. PICK i \in ChannelID :
            /\ s.chan[i].blocks = <<>>
            /\ t = [ s EXCEPT !.currentChannel = i, !.channelQueue = Append(@, i), !.chan[i] = new ]
      BY <2>2, <1>1 DEF EnsureChannelWithSpace
    <3>2. ChannelCore(i, new) /\ ~new.full
      BY <1>0, NewChannelCore
    <3>3. new \in Channel
      BY <3>2 DEF ChannelCore
    <3> HIDE DEF new
    <3> DEFINE r == [s EXCEPT !.currentChannel = i, !.channelQueue = Append(s.channelQueue, i)]
    <3>4. Append(s.channelQueue, i) \in Seq(ChannelID)
      BY <1>0, AppendProperties
    <3>5. /\ r \in Manager /\ OutsideChannel(s, r, i) /\ r.blockCursor = s.blockCursor
          /\ r.currentChannel = i /\ r.channelQueue = Append(s.channelQueue, i)
      BY <3>4, <1>0 DEF Manager, OutsideChannel
    <3>6. t = [r EXCEPT !.chan[i] = new]
      BY <3>1 DEF Manager
    <3> HIDE DEF r
    <3>7. /\ OutsideChannel(s, t, i) /\ t.chan[i] = new /\ t.blockCursor = s.blockCursor
          /\ t.currentChannel = i /\ t.channelQueue = Append(s.channelQueue, i)
      BY <3>3, <3>5, <3>6, <1>0, ReplaceChannel
    <3> QED
      BY <3>1, <3>2, <3>4, <3>7 DEF new
  <2> QED
    BY <2>1, <2>2
<1> HIDE DEF id, base, q
<1>3. /\ t.blocks = s.blocks /\ t.chan[id] = base /\ t.currentChannel = id /\ t.channelQueue = q
      /\ t \in Manager
  BY <1>2 DEF OutsideChannel, base, id, q
<1> DEFINE added(k) == SubSeq(s.blocks, s.blockCursor + 1, s.blockCursor + k)
<1>4. PICK k \in 0 .. PendingBlocks(s), f \in BOOLEAN :
        /\ k > 0 \/ base.blocks # <<>>
        /\ v = [t EXCEPT !.blockCursor = @ + k,
                         !.chan[id] = [AddBlocks(base, added(k)) EXCEPT !.full = f]]
  <2>1. PICK r \in (0 .. PendingBlocks(t)) \X BOOLEAN :
          /\ IF r[2] THEN r[1] > 0 \/ base.blocks # <<>> ELSE r[1] = PendingBlocks(t)
          /\ v = [t EXCEPT !.blockCursor = @ + r[1],
                           !.chan[id] = [AddBlocks(base, added(r[1])) EXCEPT !.full = r[2]]]
    BY <1>1, <1>2, <1>3, Zenon DEF ProcessBlocks
  <2>2. PendingBlocks(t) = PendingBlocks(s) /\ PendingBlocks(s) \in Nat /\ PendingBlocks(s) > 0
    BY <1>0, <1>2, <1>3, LenProperties DEF PendingBlocks
  <2>3. r[1] \in 0 .. PendingBlocks(s) /\ r[2] \in BOOLEAN
    BY <2>1, <2>2
  <2>4. r[1] > 0 \/ base.blocks # <<>>
    BY <2>1, <2>2, <2>3
  <2> QED
    BY <2>1, <2>3, <2>4
<1>5. added(k) \in Seq(Block) /\ Len(added(k)) = k
  <2>1. \A i \in s.blockCursor + 1 .. s.blockCursor + k : s.blocks[i] \in Block
    BY <1>0, ElementOfSeq, LenProperties DEF PendingBlocks
  <2> QED
    BY <2>1, <1>0, SubSeqProperties, LenProperties DEF PendingBlocks
<1> DEFINE c1 == [AddBlocks(base, added(k)) EXCEPT !.full = f]
<1>b. base \in Channel /\ base.blocks \in Seq(Block)
  BY <1>2 DEF ChannelCore, Channel
<1> HIDE DEF added
<1>6. /\ ChannelCore(id, c1)
      /\ c1.blocks = base.blocks \o added(k)
      /\ SameTxs(c1, base)
  <2>1. ChannelCore(id, c1)
    BY <1>2, <1>5, AddBlocksCore
  <2>3. CASE added(k) = <<>>
    <3>1. base.blocks \o added(k) = base.blocks
      BY <1>b, <2>3, ConcatEmptySeq
    <3> QED
      BY <2>1, <1>b, <2>3, <3>1 DEF AddBlocks, Channel, SameTxs
  <2>4. CASE added(k) # <<>>
    BY <2>1, <1>b, <2>4 DEF AddBlocks, Channel, SameTxs
  <2> QED
    BY <2>1, <2>3, <2>4
<1> HIDE DEF c1
<1>7. c1.blocks # <<>> /\ k + Len(base.blocks) > 0
  <2>1. Len(base.blocks \o added(k)) = Len(base.blocks) + Len(added(k))
    BY <1>b, <1>5, ConcatProperties, Zenon
  <2>2. Len(c1.blocks) = Len(base.blocks) + k
    BY <1>5, <1>6, <2>1
  <2>3. Len(base.blocks) \in Nat /\ (base.blocks # <<>> => Len(base.blocks) > 0)
    BY <1>b, EmptySeq, LenProperties
  <2> QED
    BY <2>2, <2>3, <1>4, EmptySeq
<1>8. /\ v.currentChannel = id /\ v.chan[id] = c1 /\ v.channelQueue = q
      /\ v.blockCursor = s.blockCursor + k /\ OutsideChannel(s, v, id) /\ v \in Manager
  <2> DEFINE r == [t EXCEPT !.blockCursor = s.blockCursor + k]
  <2>1. c1 \in Channel
    BY <1>6 DEF ChannelCore
  <2>2. s.blockCursor + k \in Nat
    BY <1>0, <1>4
  <2>a. v = [t EXCEPT !.blockCursor = @ + k, !.chan[id] = c1]
    BY <1>4, Zenon DEF c1
  <2>3. v = [r EXCEPT !.chan[id] = c1]
    BY <2>a, <1>2, <1>3 DEF Manager
  <2>4. /\ r \in Manager /\ r.currentChannel = id /\ r.channelQueue = q
        /\ r.blockCursor = s.blockCursor + k /\ OutsideChannel(s, r, id)
    BY <2>2, <1>2, <1>3 DEF Manager, OutsideChannel
  <2> HIDE DEF r
  <2> QED
    BY <2>1, <2>3, <2>4, <1>0, <1>2, ReplaceChannel DEF OutsideChannel
<1> DEFINE w == Registered(v)
           c2 == w.chan[id]
<1>9. /\ ChannelCore(id, c2) /\ c2.blocks = c1.blocks /\ SameTxs(c2, base)
      /\ w.currentChannel = id /\ w.channelQueue = q
      /\ w.blockCursor = s.blockCursor + k /\ OutsideChannel(s, w, id) /\ w \in Manager
  <2>1. CASE pi.ignoreMaxChannelDuration
    BY <2>1, <1>6, <1>8
  <2>2. CASE ~pi.ignoreMaxChannelDuration
    <3> DEFINE d == CheckTimeout(c1, l1Head)
    <3>1. w = [v EXCEPT !.chan[id] = d]
      BY <2>2, <1>8 DEF RegisterL1Block
    <3>2. ChannelCore(id, d)
      BY <1>2, <1>6, CheckTimeoutCore
    <3>3. d.blocks = c1.blocks /\ SameTxs(d, base)
      BY <1>6 DEF CheckTimeout, ChannelCore, Channel, SameTxs
    <3>4. d \in Channel
      BY <3>2 DEF ChannelCore
    <3> HIDE DEF d, w
    <3>5. /\ w.currentChannel = id /\ w.chan[id] = d /\ w.channelQueue = q
          /\ w.blockCursor = s.blockCursor + k /\ OutsideChannel(s, w, id)
      BY <3>1, <3>4, <1>0, <1>2, <1>8, ReplaceChannel
    <3> QED
      BY <3>2, <3>3, <3>5 DEF OutsideChannel
  <2> QED
    BY <2>1, <2>2
<1> HIDE DEF w, c2, Registered
<1>10. PICK c \in OutputFrames(c2) : u = [w EXCEPT !.chan[id] = c]
  BY <1>a, <1>9, Zenon DEF WithCurrent, w, c2
<1>11. ChannelInv(id, c) /\ c.blocks = c1.blocks /\ SameTxs(c, base)
  <2>1. /\ ChannelInv(id, c) /\ c.blocks = c2.blocks
        /\ c.pending = c2.pending /\ c.confirmed = c2.confirmed /\ c.useBlobs = c2.useBlobs
        /\ c.numFrames >= c2.numFrames /\ c.frameCursor = c2.frameCursor
    BY <1>2, <1>7, <1>9, <1>10, OutputFramesInv
  <2>2. c.numFrames \in Nat /\ c2.numFrames \in Nat /\ base.numFrames \in Nat
    BY <2>1, <1>9, <1>b DEF ChannelInv, ChannelCore, Channel
  <2> QED
    BY <2>1, <2>2, <1>9 DEF SameTxs
<1>12. c \in Channel
  BY <1>11 DEF ChannelInv, ChannelCore
<1>13. /\ u.currentChannel = id /\ u.chan[id] = c /\ u.channelQueue = q
       /\ u.blockCursor = s.blockCursor + k /\ OutsideChannel(s, u, id)
  BY <1>0, <1>2, <1>9, <1>10, <1>12, ReplaceChannel
<1>14. Filled(s, u, id, k, q, base)
  BY <1>2, <1>6, <1>7, <1>11, <1>13 DEF Filled, added
<1> QED
  BY <1>2, <1>4, <1>b, <1>14

\* The building half of getReadyChannel keeps the books: the channel it fills is
\* the current one or one that no transaction refers to yet.
LEMMA FillInv ==
  ASSUME NEW s, BooksInv(s), s.blockCursor < Len(s.blocks),
         NEW l1Head \in Nat, NEW pi \in PubInfo, NEW u \in FillCurrentChannel(s, l1Head, pi)
  PROVE  /\ BooksInv(u) /\ u.panic = s.panic /\ u.currentChannel \in ChannelID
         /\ u.txChannels = s.txChannels
<1>1. PICK id \in ChannelID, k \in 0 .. PendingBlocks(s), q \in Seq(ChannelID), base \in Channel :
        Filled(s, u, id, k, q, base)
  BY FillShape
<1>2. /\ u \in Manager /\ u.blocks = s.blocks /\ u.txChannels = s.txChannels /\ u.panic = s.panic
      /\ \A x \in ChannelID \ {id} : u.chan[x] = s.chan[x]
      /\ u.currentChannel = id /\ u.channelQueue = q /\ u.blockCursor = s.blockCursor + k
      /\ u.chan[id].blocks # <<>> /\ u.chan[id].pending = base.pending /\ ChannelInv(id, u.chan[id])
  BY <1>1 DEF Filled, OutsideChannel, SameTxs
<1>3. /\ s.blocks \in Seq(Block) /\ s.blockCursor \in Nat /\ s.channelQueue \in Seq(ChannelID)
      /\ s.chan \in [ChannelID -> Channel] /\ s.txChannels \in SUBSET TxID
  BY DEF BooksInv, Manager
<1>4. u.blockCursor <= Len(u.blocks)
  BY <1>2, <1>3, LenProperties DEF PendingBlocks
<1>5. base.pending = s.chan[id].pending
  <2>1. CASE id = s.currentChannel /\ q = s.channelQueue /\ base = s.chan[id]
    BY <2>1
  <2>2. CASE s.chan[id].blocks = <<>> /\ base = NewChannel(s.useBlobs, s.l1OriginLast)
    BY <2>2, UnusedChannel DEF NewChannel, BooksInv
  <2> QED
    BY <1>1, <2>1, <2>2 DEF Filled
<1>6. \A x \in ChannelID : /\ ChannelInv(x, u.chan[x])
                           /\ u.chan[x].pending = s.chan[x].pending
                           /\ s.chan[x].blocks # <<>> => u.chan[x].blocks # <<>>
  BY <1>2, <1>5 DEF BooksInv
<1>7. \A tx \in u.txChannels : tx \in u.chan[tx.ch].pending
  BY <1>2, <1>3, <1>6 DEF BooksInv, TxID
<1>8. /\ Distinct(q)
      /\ \A i \in DOMAIN q : u.chan[q[i]].blocks # <<>> /\ u.chan[q[i]].pending \subseteq s.txChannels
  <2>0. \A i \in DOMAIN s.channelQueue : s.channelQueue[i] \in ChannelID
    BY <1>3
  <2>1. CASE q = s.channelQueue
    BY <2>0, <2>1, <1>6 DEF BooksInv
  <2>2. CASE s.chan[id].blocks = <<>> /\ q = Append(s.channelQueue, id)
    <3>1. \A i \in DOMAIN s.channelQueue : s.channelQueue[i] # id
      BY <2>2 DEF BooksInv
    <3>2. /\ DOMAIN q = 1 .. Len(s.channelQueue) + 1
          /\ q[Len(s.channelQueue) + 1] = id
          /\ \A i \in 1 .. Len(s.channelQueue) : q[i] = s.channelQueue[i]
      BY <2>2, <1>3, AppendProperties, LenProperties
    <3>3. DOMAIN s.channelQueue = 1 .. Len(s.channelQueue) /\ Len(s.channelQueue) \in Nat
      BY <1>3, LenProperties
    <3>4. Distinct(q)
      BY <2>2, <3>1, <1>3, DistinctAppend DEF BooksInv
    <3>5. s.chan[id].pending = {}
      BY <2>2, UnusedChannel DEF BooksInv
    <3>6. \A i \in 1 .. Len(s.channelQueue) :
            u.chan[q[i]].blocks # <<>> /\ u.chan[q[i]].pending \subseteq s.txChannels
      BY <2>0, <3>2, <3>3, <1>6 DEF BooksInv
    <3>7. LET i == Len(s.channelQueue) + 1
          IN  u.chan[q[i]].blocks # <<>> /\ u.chan[q[i]].pending \subseteq s.txChannels
      BY <3>2, <3>5, <1>2, <1>5
    <3>8. \A i \in DOMAIN q : i \in 1 .. Len(s.channelQueue) \/ i = Len(s.channelQueue) + 1
      BY <3>2, <3>3
    <3> QED
      BY <3>4, <3>6, <3>7, <3>8, Zenon
  <2> QED
    BY <1>1, <2>1, <2>2 DEF Filled
<1> QED
  BY <1>1, <1>2, <1>4, <1>6, <1>7, <1>8 DEF BooksInv

\* Dropping channels from either end of the queue, and forgetting transactions
\* of the dropped ones only, keeps the books.
LEMMA BooksSubqueue ==
  ASSUME NEW s, BooksInv(s), NEW t \in Manager,
         NEW a \in Nat \ {0}, NEW b \in Nat, b <= Len(s.channelQueue),
         t.channelQueue = SubSeq(s.channelQueue, a, b),
         t.chan = s.chan, t.currentChannel \in {NoChannel, s.currentChannel},
         t.txChannels \subseteq s.txChannels,
         \A i \in a .. b : s.chan[s.channelQueue[i]].pending \subseteq t.txChannels,
         t.blockCursor <= Len(t.blocks)
  PROVE  BooksInv(t)
<1>1. s.channelQueue \in Seq(ChannelID) /\ Len(s.channelQueue) \in Nat
      /\ DOMAIN s.channelQueue = 1 .. Len(s.channelQueue)
  BY LenProperties DEF BooksInv, Manager
<1>2. \A i \in a .. b : s.channelQueue[i] \in ChannelID
  BY <1>1
<1>3. /\ DOMAIN t.channelQueue = 1 .. (IF a <= b THEN b - a + 1 ELSE 0)
      /\ \A i \in 1 .. b - a + 1 : t.channelQueue[i] = s.channelQueue[a + i - 1]
  BY <1>1, <1>2, SubSeqProperties, LenProperties
<1>4. \A i \in DOMAIN t.channelQueue :
        a + i - 1 \in a .. b /\ t.channelQueue[i] = s.channelQueue[a + i - 1] /\ i \in Nat
  BY <1>3
<1>5. Distinct(t.channelQueue)
  BY <1>1, DistinctSubSeq DEF BooksInv
<1>6. \A i \in DOMAIN t.channelQueue : /\ t.chan[t.channelQueue[i]].blocks # <<>>
                                       /\ t.chan[t.channelQueue[i]].pending \subseteq t.txChannels
  <2> TAKE i \in DOMAIN t.channelQueue
  <2>1. a + i - 1 \in DOMAIN s.channelQueue /\ a + i - 1 \in a .. b
    BY <1>1, <1>4
  <2> QED
    BY <2>1, <1>4 DEF BooksInv
<1>7. \A tx \in t.txChannels : tx \in t.chan[tx.ch].pending
  BY DEF BooksInv
<1>8. \A id \in ChannelID : ChannelInv(id, t.chan[id])
  BY DEF BooksInv
<1>9. t.currentChannel # NoChannel => t.chan[t.currentChannel].blocks # <<>>
  BY DEF BooksInv
<1> QED
  BY <1>5, <1>6, <1>7, <1>8, <1>9 DEF BooksInv

\* A panic leaves the books as they are.
LEMMA PanicBooks ==
  ASSUME NEW s, BooksInv(s), NEW why \in PanicReason
  PROVE  /\ BooksInv(Panic(s, why)) /\ Panic(s, why).panic = why
         /\ Panic(s, why).txChannels = s.txChannels
<1> DEFINE t == Panic(s, why)
<1>1. /\ t \in Manager /\ t.panic = why /\ t.blocks = s.blocks /\ t.blockCursor = s.blockCursor
      /\ t.currentChannel = s.currentChannel /\ t.channelQueue = s.channelQueue
      /\ t.txChannels = s.txChannels /\ t.chan = s.chan
  BY DEF BooksInv, Manager, Panic
<1> HIDE DEF t
<1> QED
  BY <1>1 DEF BooksInv, t

\* rewindToBlock moves the cursor back, or panics.
LEMMA RewindBooks ==
  ASSUME NEW s, BooksInv(s), s.panic = "none", NEW b \in Block
  PROVE  LET r == RewindToBlock(s, b)
         IN  /\ BooksInv(r) /\ r.panic \in {"none", "rewind to nonexistent block"}
             /\ r.channelQueue = s.channelQueue /\ r.chan = s.chan /\ r.txChannels = s.txChannels
<1> DEFINE r == RewindToBlock(s, b)
           idx == Number[b] - Number[s.blocks[1]]
           ok == s.blocks # <<>> /\ idx \in 0 .. s.blockCursor - 1 /\ s.blocks[idx + 1] = b
<1>1. CASE ~ok
  <2>1. r = Panic(s, "rewind to nonexistent block")
    BY <1>1 DEF RewindToBlock
  <2>2. BooksInv(r) /\ r.panic = "rewind to nonexistent block"
    BY <2>1, PanicBooks DEF PanicReason
  <2>3. r.channelQueue = s.channelQueue /\ r.chan = s.chan /\ r.txChannels = s.txChannels
    BY <2>1 DEF Panic, BooksInv, Manager
  <2> QED
    BY <2>2, <2>3
<1>2. CASE ok
  <2>1. r = [s EXCEPT !.blockCursor = idx]
    BY <1>2 DEF RewindToBlock
  <2>2. idx \in Nat /\ idx < s.blockCursor
    BY <1>2 DEF BooksInv, Manager
  <2> HIDE DEF idx, r
  <2>3. /\ r \in Manager /\ r.panic = s.panic /\ r.blocks = s.blocks /\ r.blockCursor = idx
        /\ r.currentChannel = s.currentChannel /\ r.channelQueue = s.channelQueue
        /\ r.txChannels = s.txChannels /\ r.chan = s.chan
    BY <2>1, <2>2 DEF BooksInv, Manager
  <2>4. r.blockCursor <= Len(r.blocks)
    BY <2>2, <2>3, LenProperties DEF BooksInv, Manager
  <2> QED
    BY <2>3, <2>4 DEF BooksInv, r
<1> QED
  BY <1>1, <1>2

\* Dropping a channel and the ones behind it drops exactly their transactions.
LEMMA DropBooks ==
  ASSUME NEW s, BooksInv(s), NEW p \in Nat \ {0}, p <= Len(s.channelQueue) + 1
  PROVE  /\ BooksInv(DropFrom(s, p)) /\ DropFrom(s, p).panic = s.panic
         /\ DropFrom(s, p).txChannels \subseteq s.txChannels
<1> DEFINE t == DropFrom(s, p)
           dropped == {s.channelQueue[i] : i \in p .. Len(s.channelQueue)}
           kept == {tx \in s.txChannels : tx.ch \notin dropped}
<1>0. /\ s \in Manager /\ s.channelQueue \in Seq(ChannelID) /\ s.txChannels \in SUBSET TxID
      /\ s.chan \in [ChannelID -> Channel]
      /\ Len(s.channelQueue) \in Nat /\ DOMAIN s.channelQueue = 1 .. Len(s.channelQueue)
  BY LenProperties DEF BooksInv, Manager
<1>1. SubSeq(s.channelQueue, 1, p - 1) \in Seq(ChannelID)
  <2>1. \A i \in 1 .. p - 1 : s.channelQueue[i] \in ChannelID
    BY <1>0, ElementOfSeq
  <2> QED
    BY <2>1, <1>0, SubSeqProperties
<1>2. kept \subseteq s.txChannels
  OBVIOUS
<1>3. t = [s EXCEPT !.channelQueue = SubSeq(s.channelQueue, 1, p - 1),
                    !.txChannels = kept, !.currentChannel = NoChannel]
  BY <1>0, Zenon DEF DropFrom
<1>4. \A i \in 1 .. p - 1 : s.chan[s.channelQueue[i]].pending \subseteq kept
  <2> SUFFICES ASSUME NEW i \in 1 .. p - 1, NEW tx \in s.chan[s.channelQueue[i]].pending
               PROVE  tx \in kept
    OBVIOUS
  <2>1. i \in DOMAIN s.channelQueue /\ i \in Nat /\ i < p
    BY <1>0
  <2>2. s.channelQueue[i] \in ChannelID
    BY <2>1, <1>0
  <2>3. tx \in s.txChannels
    BY <2>1 DEF BooksInv
  <2>4. tx.ch = s.channelQueue[i]
    BY <2>2 DEF BooksInv, ChannelInv, ChannelCore
  <2>5. ASSUME NEW j \in p .. Len(s.channelQueue) PROVE s.channelQueue[j] # s.channelQueue[i]
    <3>1. j \in DOMAIN s.channelQueue /\ j # i
      BY <1>0, <2>1
    <3> QED
      BY <3>1, <2>1 DEF BooksInv, Distinct
  <2> QED
    BY <2>3, <2>4, <2>5
<1> HIDE DEF kept, t
<1>5. /\ t \in Manager /\ t.panic = s.panic /\ t.blocks = s.blocks /\ t.blockCursor = s.blockCursor
      /\ t.currentChannel = NoChannel /\ t.channelQueue = SubSeq(s.channelQueue, 1, p - 1)
      /\ t.txChannels = kept /\ t.chan = s.chan
  BY <1>0, <1>1, <1>2, <1>3 DEF Manager
<1>6. t.blockCursor <= Len(t.blocks)
  BY <1>5 DEF BooksInv
<1>7. BooksInv(t)
  <2> DEFINE b == p - 1
  <2>1. 1 \in Nat \ {0} /\ b \in Nat /\ b <= Len(s.channelQueue)
    BY <1>0
  <2>2. t.channelQueue = SubSeq(s.channelQueue, 1, b)
    BY <1>5
  <2>3. \A i \in 1 .. b : s.chan[s.channelQueue[i]].pending \subseteq t.txChannels
    BY <1>4, <1>5
  <2>4. t.chan = s.chan /\ t.currentChannel \in {NoChannel, s.currentChannel}
        /\ t.txChannels \subseteq s.txChannels /\ t \in Manager
    BY <1>2, <1>5
  <2> HIDE DEF b
  <2> QED
    BY <2>1, <2>2, <2>3, <2>4, <1>6, BooksSubqueue, Zenon
<1> QED
  BY <1>2, <1>5, <1>7 DEF t

\* handleChannelInvalidated keeps the books and only forgets transactions; it
\* panics at most in rewindToBlock.
LEMMA InvalidatedBooks ==
  ASSUME NEW s, BooksInv(s), s.panic = "none", NEW id \in ChannelID
  PROVE  LET t == HandleChannelInvalidated(s, id)
         IN  /\ BooksInv(t) /\ t.panic \in {"none", "rewind to nonexistent block"}
             /\ t.txChannels \subseteq s.txChannels
<1> DEFINE c == s.chan[id]
           r == IF c.blocks = <<>> THEN s ELSE RewindToBlock(s, c.blocks[1])
           at == {i \in DOMAIN s.channelQueue : s.channelQueue[i] = id}
           p == IF at = {} THEN 1 ELSE FirstOf(at)
<1>1. /\ BooksInv(r) /\ r.panic \in {"none", "rewind to nonexistent block"}
      /\ r.channelQueue = s.channelQueue /\ r.txChannels = s.txChannels
  <2>1. CASE c.blocks = <<>>
    BY <2>1
  <2>2. CASE c.blocks # <<>>
    <3>1. c.blocks \in Seq(Block)
      BY DEF BooksInv, Manager, Channel
    <3>2. c.blocks[1] \in Block
      BY <2>2, <3>1, EmptySeq, ElementOfSeq, LenProperties
    <3> QED
      BY <2>2, <3>2, RewindBooks
  <2> QED
    BY <2>1, <2>2
<1>2. p \in Nat \ {0} /\ p <= Len(s.channelQueue) + 1
  <2>1. DOMAIN s.channelQueue = 1 .. Len(s.channelQueue) /\ Len(s.channelQueue) \in Nat
    BY LenProperties DEF BooksInv, Manager
  <2>2. at # {} => FirstOf(at) \in at
    <3>1. at \in SUBSET Nat
      BY <2>1
    <3> QED
      BY <3>1, FirstOfIsLeast
  <2> QED
    BY <2>1, <2>2
<1>3. HandleChannelInvalidated(s, id) = IF r.panic # "none" THEN r ELSE DropFrom(r, p)
  BY Zenon DEF HandleChannelInvalidated
<1> HIDE DEF r, p
<1>4. CASE r.panic # "none"
  BY <1>1, <1>3, <1>4
<1>5. CASE r.panic = "none"
  <2>1. /\ BooksInv(DropFrom(r, p)) /\ DropFrom(r, p).panic = "none"
        /\ DropFrom(r, p).txChannels \subseteq r.txChannels
    BY <1>1, <1>2, <1>5, DropBooks
  <2> QED
    BY <2>1, <1>1, <1>3, <1>5
<1> QED
  BY <1>4, <1>5

\* Dequeuing a transaction enters it into both books.
LEMMA DequeueBooks ==
  ASSUME NEW s, BooksInv(s), NEW ch \in ChannelID \cup {NoChannel}
  PROVE  LET r == DequeueTx(s, ch)
         IN  /\ BooksInv(r.s) /\ r.s.panic = s.panic
             /\ \/ r.tx = NoTx /\ r.s.txChannels = s.txChannels
                \/ r.tx \in TxID /\ r.s.txChannels = s.txChannels \cup {r.tx}
<1>1. CASE ch = NoChannel \/ ~HasTxData(s.chan[ch])
  <2>1. DequeueTx(s, ch).s = s /\ DequeueTx(s, ch).tx = NoTx
    BY <1>1 DEF DequeueTx
  <2> QED
    BY <2>1
<1>2. CASE ~(ch = NoChannel \/ ~HasTxData(s.chan[ch]))
  <2> DEFINE c == s.chan[ch]
             tx == NextTx(ch, c)
             d == NextTxData(ch, c)
             origin == LatestL1Origin(c)
             last == IF origin > s.l1OriginLast THEN origin ELSE s.l1OriginLast
             t == DequeueTx(s, ch).s
  <2>1. ch \in ChannelID /\ HasTxData(c)
    BY <1>2
  <2>2. ChannelInv(ch, c)
    BY <2>1 DEF BooksInv
  <2>3. ChannelInv(ch, d) /\ tx \in TxID /\ tx.ch = ch
    BY <2>1, <2>2, NextTxDataInv, NextTxFrames DEF ChannelInv
  <2>4. t = [s EXCEPT !.chan[ch] = d, !.l1OriginLast = last, !.txChannels = @ \cup {tx}]
    BY <1>2, Zenon DEF DequeueTx
  <2>t. DequeueTx(s, ch).tx = tx
    BY <1>2, Zenon DEF DequeueTx
  <2>5. c \in Channel /\ c.blocks \in Seq(Block) /\ c.numFrames \in Nat /\ c.frameCursor \in Nat
    BY <2>2 DEF ChannelInv, ChannelCore, Channel
  <2>6. c.blocks # <<>>
    <3>1. c.numFrames > 0
      BY <2>1, <2>5, ConfigAssumption DEF HasTxData, PendingFrames, MaxFramesPerTx
    <3> QED
      BY <2>2, <3>1, <2>5 DEF ChannelInv
  <2>7. last \in Nat
    <3>1. c.blocks[Len(c.blocks)] \in Block
      BY <2>5, <2>6, EmptySeq, LenProperties, ElementOfSeq
    <3>2. origin \in Nat
      BY <3>1, <2>6, BlockAssumption DEF LatestL1Origin
    <3> QED
      BY <3>2 DEF BooksInv, Manager
  <2>8. d.blocks = c.blocks /\ d.pending = c.pending \cup {tx} /\ d \in Channel
    BY <2>3, <2>5 DEF NextTxData, ChannelInv, ChannelCore, Channel
  <2>9. /\ s \in Manager /\ s.chan \in [ChannelID -> Channel] /\ s.txChannels \in SUBSET TxID
        /\ s.channelQueue \in Seq(ChannelID)
    BY DEF BooksInv, Manager
  <2> HIDE DEF last, origin, d, tx, t
  <2>10. [s.chan EXCEPT ![ch] = d] \in [ChannelID -> Channel] /\ s.txChannels \cup {tx} \in SUBSET TxID
    BY <2>3, <2>8, <2>9
  <2>11. /\ t.chan = [s.chan EXCEPT ![ch] = d] /\ t.txChannels = s.txChannels \cup {tx}
         /\ t.blocks = s.blocks /\ t.blockCursor = s.blockCursor /\ t.panic = s.panic
         /\ t.currentChannel = s.currentChannel /\ t.channelQueue = s.channelQueue
         /\ t \in Manager
    BY <2>4, <2>7, <2>9, <2>10 DEF Manager
  <2>12. \A x \in ChannelID : t.chan[x] = IF x = ch THEN d ELSE s.chan[x]
    BY <2>9, <2>11
  <2>13. \A x \in ChannelID : /\ ChannelInv(x, t.chan[x])
                              /\ s.chan[x].blocks # <<>> => t.chan[x].blocks # <<>>
                              /\ s.chan[x].pending \subseteq t.chan[x].pending
                              /\ t.chan[x].pending \subseteq s.chan[x].pending \cup {tx}
    BY <2>3, <2>8, <2>12 DEF BooksInv
  <2>14. \A u \in t.txChannels : u \in t.chan[u.ch].pending
    <3> TAKE u \in t.txChannels
    <3>1. CASE u = tx
      BY <3>1, <2>1, <2>3, <2>8, <2>12
    <3>2. CASE u \in s.txChannels
      BY <3>2, <2>9, <2>13 DEF BooksInv, TxID
    <3> QED
      BY <3>1, <3>2, <2>11
  <2>15. \A i \in DOMAIN s.channelQueue : s.channelQueue[i] \in ChannelID
    BY <2>9
  <2>16. \A i \in DOMAIN t.channelQueue :
           /\ t.chan[t.channelQueue[i]].blocks # <<>>
           /\ t.chan[t.channelQueue[i]].pending \subseteq t.txChannels
    BY <2>11, <2>13, <2>15 DEF BooksInv
  <2>17. t.currentChannel # NoChannel => t.chan[t.currentChannel].blocks # <<>>
    BY <2>11, <2>13 DEF BooksInv, Manager
  <2> QED
    BY <2>t, <2>3, <2>11, <2>13, <2>14, <2>16, <2>17 DEF BooksInv, t
<1> QED
  BY <1>1, <1>2

\* Closing the current channel on a forced publication keeps the books.
LEMMA ForceCloseBooks ==
  ASSUME NEW s, BooksInv(s), NEW pi \in PubInfo,
         pi.forcePublish => s.currentChannel # NoChannel, NEW t \in ForceClose(s, pi)
  PROVE  BooksInv(t) /\ t.panic = s.panic /\ t.txChannels = s.txChannels
<1> DEFINE id == s.currentChannel
           c == [s.chan[id] EXCEPT !.full = TRUE]
<1>1. CASE ~(pi.forcePublish /\ s.chan[id].numFrames = 0)
  BY <1>1 DEF ForceClose
<1>2. CASE pi.forcePublish /\ s.chan[id].numFrames = 0
  <2>1. id \in ChannelID /\ s.chan[id].blocks # <<>> /\ ChannelInv(id, s.chan[id])
    BY <1>2 DEF BooksInv, Manager
  <2>2. ChannelCore(id, c) /\ c.blocks = s.chan[id].blocks /\ c.pending = s.chan[id].pending
    BY <2>1 DEF ChannelInv, ChannelCore, Channel
  <2>3. PICK d \in OutputFrames(c) : t = [s EXCEPT !.chan[id] = d]
    BY <1>2, Zenon DEF ForceClose, WithCurrent
  <2> HIDE DEF id, c
  <2>4. ChannelInv(id, d) /\ d.blocks # <<>> /\ d.pending = s.chan[id].pending
    BY <2>1, <2>2, OutputFramesInv
  <2>5. BooksInv(t)
    BY <2>1, <2>3, <2>4, BooksUpdateChannel
  <2>6. t.panic = s.panic /\ t.txChannels = s.txChannels
    BY <2>3 DEF BooksInv, Manager
  <2> QED
    BY <2>5, <2>6
<1> QED
  BY <1>1, <1>2

\* getReadyChannel keeps the books and the known transactions, and the channel it
\* returns exists.
LEMMA GetReadyBooks ==
  ASSUME NEW s, BooksInv(s), s.panic = "none", NEW l1Head \in Nat, NEW pi \in PubInfo,
         NEW g \in GetReadyChannel(s, l1Head, pi)
  PROVE  /\ BooksInv(g.s) /\ g.ch \in ChannelID \cup {NoChannel}
         /\ g.s.panic \in {"none", "nil currentChannel"}
         /\ g.ch # NoChannel => g.s.panic = "none"
         /\ g.s.txChannels = s.txChannels
<1>1. CASE pi.forcePublish /\ s.currentChannel = NoChannel
  <2>1. g = [s |-> Panic(s, "nil currentChannel"), ch |-> NoChannel]
    BY <1>1 DEF GetReadyChannel
  <2> QED
    BY <2>1, PanicBooks DEF PanicReason
<1>2. CASE ~(pi.forcePublish /\ s.currentChannel = NoChannel)
  <2>1. PICK t \in ForceClose(s, pi) : g \in FindReadyChannel(t, l1Head, pi)
    BY <1>2, Zenon DEF GetReadyChannel
  <2>2. BooksInv(t) /\ t.panic = "none" /\ t.txChannels = s.txChannels
    BY <1>2, <2>1, ForceCloseBooks
  <2>3. /\ t.channelQueue \in Seq(ChannelID) /\ t.blocks \in Seq(Block) /\ t.blockCursor \in Nat
        /\ DOMAIN t.channelQueue = 1 .. Len(t.channelQueue)
    BY <2>2, LenProperties DEF BooksInv, Manager
  <2>4. CASE ReadyIn(t) # {}
    <3>1. g = [s |-> t, ch |-> t.channelQueue[FirstOf(ReadyIn(t))]]
      BY <2>1, <2>4 DEF FindReadyChannel
    <3>2. ReadyIn(t) \in SUBSET Nat /\ ReadyIn(t) \subseteq DOMAIN t.channelQueue
      BY <2>3 DEF ReadyIn
    <3>3. FirstOf(ReadyIn(t)) \in DOMAIN t.channelQueue
      BY <2>4, <3>2, FirstOfIsLeast
    <3>4. t.channelQueue[FirstOf(ReadyIn(t))] \in ChannelID
      BY <2>3, <3>3
    <3> QED
      BY <3>1, <3>4, <2>2
  <2>5. CASE ReadyIn(t) = {} /\ PendingBlocks(t) = 0
    <3>1. g = [s |-> t, ch |-> NoChannel]
      BY <2>1, <2>5 DEF FindReadyChannel
    <3> QED
      BY <3>1, <2>2
  <2>6. CASE ReadyIn(t) = {} /\ PendingBlocks(t) # 0
    <3>1. PICK u \in FillCurrentChannel(t, l1Head, pi) :
            g = [s |-> u, ch |-> IF HasTxData(u.chan[u.currentChannel]) THEN u.currentChannel
                                 ELSE NoChannel]
      BY <2>1, <2>6, Zenon DEF FindReadyChannel
    <3>2. t.blockCursor < Len(t.blocks)
      BY <2>2, <2>3, <2>6, LenProperties DEF PendingBlocks, BooksInv
    <3>3. /\ BooksInv(u) /\ u.panic = "none" /\ u.currentChannel \in ChannelID
          /\ u.txChannels = t.txChannels
      BY <2>2, <3>1, <3>2, FillInv
    <3> QED
      BY <3>1, <3>3, <2>2
  <2> QED
    BY <2>4, <2>5, <2>6
<1> QED
  BY <1>1, <1>2

\* TxData keeps the books, also when it invalidates a channel to switch the DA
\* type, and the one transaction it may add is the one it returns.
LEMMA TxDataBooks ==
  ASSUME NEW s, BooksInv(s), s.panic = "none", NEW l1Head \in Nat, NEW useBlobs \in BOOLEAN,
         NEW pi \in PubInfo, NEW r \in TxDataOutcome(s, l1Head, useBlobs, pi)
  PROVE  /\ BooksInv(r.s)
         /\ r.s.panic \in {"none", "nil currentChannel", "rewind to nonexistent block"}
         /\ \/ r.tx = NoTx /\ r.s.txChannels \subseteq s.txChannels
            \/ r.tx \in TxID /\ r.s.txChannels \subseteq s.txChannels \cup {r.tx}
<1>1. PICK g \in GetReadyChannel(s, l1Head, pi) :
        r \in IF g.ch # NoChannel /\ NoneSubmitted(g.s.chan[g.ch]) /\ useBlobs # g.s.useBlobs
              THEN SwitchDAType(g.s, g.ch, l1Head, useBlobs, pi)
              ELSE {DequeueTx(g.s, g.ch)}
  BY Zenon DEF TxDataOutcome
<1>2. /\ BooksInv(g.s) /\ g.ch \in ChannelID \cup {NoChannel}
      /\ g.s.panic \in {"none", "nil currentChannel"}
      /\ g.ch # NoChannel => g.s.panic = "none"
      /\ g.s.txChannels = s.txChannels
  BY <1>1, GetReadyBooks
<1>3. CASE r = DequeueTx(g.s, g.ch)
  BY <1>2, <1>3, DequeueBooks
<1>4. CASE g.ch # NoChannel /\ r \in SwitchDAType(g.s, g.ch, l1Head, useBlobs, pi)
  <2> DEFINE t == HandleChannelInvalidated(g.s, g.ch)
             v == [t EXCEPT !.useBlobs = useBlobs]
  <2>1. /\ BooksInv(t) /\ t.panic \in {"none", "rewind to nonexistent block"}
        /\ t.txChannels \subseteq s.txChannels
    BY <1>2, <1>4, InvalidatedBooks
  <2>2. CASE t.panic # "none"
    <3>1. r = [s |-> t, tx |-> NoTx]
      BY <1>4, <2>2 DEF SwitchDAType
    <3> HIDE DEF t
    <3> QED
      BY <3>1, <2>1
  <2>3. CASE t.panic = "none"
    <3>1. PICK h \in GetReadyChannel(v, l1Head, pi) : r = DequeueTx(h.s, h.ch)
      BY <1>4, <2>3, Zenon DEF SwitchDAType
    <3> HIDE DEF t
    <3>2. /\ v \in Manager /\ v.panic = t.panic /\ v.blocks = t.blocks /\ v.blockCursor = t.blockCursor
          /\ v.currentChannel = t.currentChannel /\ v.channelQueue = t.channelQueue
          /\ v.txChannels = t.txChannels /\ v.chan = t.chan
      BY <2>1 DEF BooksInv, Manager
    <3> HIDE DEF v
    <3>3. BooksInv(v)
      BY <2>1, <3>2 DEF BooksInv
    <3>4. /\ BooksInv(h.s) /\ h.ch \in ChannelID \cup {NoChannel}
          /\ h.s.panic \in {"none", "nil currentChannel"} /\ h.s.txChannels = v.txChannels
      BY <2>3, <3>1, <3>2, <3>3, GetReadyBooks
    <3>5. /\ BooksInv(r.s) /\ r.s.panic = h.s.panic
          /\ \/ r.tx = NoTx /\ r.s.txChannels = h.s.txChannels
             \/ r.tx \in TxID /\ r.s.txChannels = h.s.txChannels \cup {r.tx}
      BY <3>1, <3>4, DequeueBooks
    <3>6. h.s.txChannels \subseteq s.txChannels
      BY <2>1, <3>2, <3>4
    <3> QED
      BY <3>4, <3>5, <3>6
  <2> QED
    BY <2>2, <2>3
<1> QED
  BY <1>1, <1>3, <1>4

\* A receipt removes its transaction from both books.
LEMMA ReceiptBooks ==
  ASSUME NEW s, BooksInv(s), NEW tx \in s.txChannels, NEW c, ChannelInv(tx.ch, c),
         c.blocks = s.chan[tx.ch].blocks, c.pending = s.chan[tx.ch].pending \ {tx}
  PROVE  LET t == [s EXCEPT !.txChannels = @ \ {tx}, !.chan[tx.ch] = c]
         IN  BooksInv(t) /\ t.panic = s.panic /\ t.txChannels = s.txChannels \ {tx}
<1> DEFINE id == tx.ch
           t == [s EXCEPT !.txChannels = @ \ {tx}, !.chan[id] = c]
<1>1. /\ s \in Manager /\ s.chan \in [ChannelID -> Channel] /\ s.txChannels \in SUBSET TxID
      /\ s.channelQueue \in Seq(ChannelID) /\ s.currentChannel \in ChannelID \cup {NoChannel}
  BY DEF BooksInv, Manager
<1>2. id \in ChannelID /\ c \in Channel
  BY <1>1 DEF TxID, ChannelInv, ChannelCore
<1>3. [s.chan EXCEPT ![id] = c] \in [ChannelID -> Channel]
  BY <1>1, <1>2
<1>4. /\ t.chan = [s.chan EXCEPT ![id] = c] /\ t.txChannels = s.txChannels \ {tx}
      /\ t.blocks = s.blocks /\ t.blockCursor = s.blockCursor /\ t.panic = s.panic
      /\ t.currentChannel = s.currentChannel /\ t.channelQueue = s.channelQueue
      /\ t \in Manager
  BY <1>1, <1>3 DEF Manager
<1> HIDE DEF t, id
<1>5. \A x \in ChannelID : t.chan[x] = IF x = id THEN c ELSE s.chan[x]
  BY <1>1, <1>4
<1>6. \A x \in ChannelID : /\ ChannelInv(x, t.chan[x])
                           /\ t.chan[x].blocks = s.chan[x].blocks
  BY <1>5 DEF BooksInv, id
<1>7. \A x \in ChannelID : \A u \in TxID :
        u \in t.chan[x].pending <=> u \in s.chan[x].pending /\ u # tx
  <2> SUFFICES ASSUME NEW x \in ChannelID, NEW u \in TxID
               PROVE  u \in t.chan[x].pending <=> u \in s.chan[x].pending /\ u # tx
    OBVIOUS
  <2>1. CASE x = id
    BY <2>1, <1>5 DEF id
  <2>2. CASE x # id
    <3>1. t.chan[x] = s.chan[x]
      BY <2>2, <1>5
    <3>2. tx \notin s.chan[x].pending
      BY <2>2 DEF BooksInv, ChannelInv, ChannelCore, id
    <3> QED
      BY <3>1, <3>2
  <2> QED
    BY <2>1, <2>2
<1>8. \A u \in t.txChannels : u \in t.chan[u.ch].pending
  BY <1>1, <1>4, <1>7 DEF BooksInv, TxID
<1>9. \A i \in DOMAIN t.channelQueue :
        t.chan[t.channelQueue[i]].blocks # <<>> /\ t.chan[t.channelQueue[i]].pending \subseteq t.txChannels
  <2> TAKE i \in DOMAIN t.channelQueue
  <2> DEFINE x == t.channelQueue[i]
  <2>1. x \in ChannelID /\ s.chan[x].blocks # <<>> /\ s.chan[x].pending \subseteq s.txChannels
    BY <1>1, <1>4 DEF BooksInv
  <2>2. t.chan[x].pending \subseteq TxID
    BY <2>1, <1>6 DEF ChannelInv, ChannelCore, Channel
  <2> HIDE DEF x
  <2>3. t.chan[x].blocks # <<>> /\ t.chan[x].pending \subseteq t.txChannels
    BY <2>1, <2>2, <1>4, <1>6, <1>7
  <2> QED
    BY <2>3 DEF x
<1>10. t.currentChannel # NoChannel => t.chan[t.currentChannel].blocks # <<>>
  BY <1>1, <1>4, <1>6 DEF BooksInv
<1> QED
  BY <1>4, <1>6, <1>8, <1>9, <1>10 DEF BooksInv, t, id

\* TxFailed keeps the books, forgets its transaction only, and never panics: the
\* frame it rewinds to is one the channel has.
LEMMA FailedBooks ==
  ASSUME BooksInv(mgr), NEW tx \in mgr.txChannels, TxFailed(tx)
  PROVE  /\ BooksInv(mgr') /\ mgr'.panic = "none" /\ prevCurrentL1' = prevCurrentL1
         /\ mgr'.txChannels = mgr.txChannels \ {tx}
<1> DEFINE c == mgr.chan[tx.ch]
           d == ChannelTxFailed(c, tx)
<1>1. tx \in TxID /\ tx.ch \in ChannelID /\ tx \in c.pending /\ ChannelInv(tx.ch, c)
  BY DEF BooksInv, Manager, TxID
<1>2. KnowsFrame(c, tx.first)
  BY <1>1 DEF KnowsFrame, ChannelInv, ChannelCore, Channel, TxID
<1>3. /\ mgr' = [mgr EXCEPT !.txChannels = @ \ {tx}, !.chan[tx.ch] = d]
      /\ mgr.panic = "none" /\ prevCurrentL1' = prevCurrentL1
  BY <1>2 DEF TxFailed, Running
<1>4. ChannelInv(tx.ch, d) /\ d.blocks = c.blocks /\ d.pending = c.pending \ {tx}
  <2>1. ChannelInv(tx.ch, d)
    BY <1>1, TxFailedInv
  <2> QED
    BY <2>1, <1>1 DEF ChannelTxFailed, ChannelInv, ChannelCore, Channel
<1> HIDE DEF d
<1>5. /\ BooksInv(mgr') /\ mgr'.panic = mgr.panic
      /\ mgr'.txChannels = mgr.txChannels \ {tx}
  BY <1>3, <1>4, ReceiptBooks
<1> QED
  BY <1>3, <1>5

\* TxConfirmed keeps the books and forgets its transaction, with those of the
\* channels it invalidates when the channel timed out.
LEMMA ConfirmedBooks ==
  ASSUME BooksInv(mgr), NEW tx \in mgr.txChannels, NEW n \in L1Number, TxConfirmed(tx, n)
  PROVE  /\ BooksInv(mgr') /\ mgr'.panic \in {"none", "rewind to nonexistent block"}
         /\ prevCurrentL1' = prevCurrentL1
         /\ mgr'.txChannels \subseteq mgr.txChannels \ {tx}
<1> DEFINE c == mgr.chan[tx.ch]
           d == ChannelTxConfirmed(c, tx, n)
           s == [mgr EXCEPT !.txChannels = @ \ {tx}, !.chan[tx.ch] = d]
<1>0. n \in Nat
  BY ChainAssumption DEF L1Number
<1>1. tx \in TxID /\ tx.ch \in ChannelID /\ tx \in c.pending /\ ChannelInv(tx.ch, c)
  BY DEF BooksInv, Manager, TxID
<1>2. /\ mgr' = IF IsTimedOut(d) THEN HandleChannelInvalidated(s, tx.ch) ELSE s
      /\ mgr.panic = "none" /\ prevCurrentL1' = prevCurrentL1
  BY <1>1 DEF TxConfirmed, Running
<1>3. ChannelInv(tx.ch, d) /\ d.blocks = c.blocks /\ d.pending = c.pending \ {tx}
  <2>1. ChannelInv(tx.ch, d)
    BY <1>0, <1>1, TxConfirmedInv
  <2> QED
    BY <2>1, <1>1 DEF ChannelTxConfirmed, ChannelInv, ChannelCore, Channel
<1> HIDE DEF d
<1>4. BooksInv(s) /\ s.panic = "none" /\ s.txChannels = mgr.txChannels \ {tx}
  BY <1>2, <1>3, ReceiptBooks
<1> HIDE DEF s
<1>5. CASE IsTimedOut(d)
  <2>1. /\ BooksInv(mgr') /\ mgr'.panic \in {"none", "rewind to nonexistent block"}
        /\ mgr'.txChannels \subseteq s.txChannels
    BY <1>1, <1>2, <1>4, <1>5, InvalidatedBooks
  <2> QED
    BY <2>1, <1>2, <1>4
<1>6. CASE ~IsTimedOut(d)
  BY <1>2, <1>4, <1>6
<1> QED
  BY <1>5, <1>6

\* Clear empties the books but keeps the channels it created.
LEMMA ClearedBooks ==
  ASSUME NEW s, BooksInv(s), NEW o \in Nat
  PROVE  BooksInv(Cleared(s, o)) /\ Cleared(s, o).panic = s.panic /\ Cleared(s, o).txChannels = {}
<1> DEFINE t == Cleared(s, o)
<1>1. /\ t \in Manager /\ t.channelQueue = <<>> /\ t.txChannels = {} /\ t.currentChannel = NoChannel
      /\ t.blocks = <<>> /\ t.blockCursor = 0 /\ t.chan = s.chan /\ t.panic = s.panic
  <2>1. <<>> \in Seq(Block) /\ <<>> \in Seq(ChannelID)
    BY EmptySeq
  <2> QED
    BY <2>1 DEF Cleared, BooksInv, Manager
<1> HIDE DEF t
<1> QED
  BY <1>1 DEF BooksInv, Distinct, t

\* What pruning does, once computeSyncActions has found the state in step with the
\* sequencer: blocks and channels leave at the front, no more of them than there are.
LEMMA PruneShape ==
  ASSUME NEW s, BooksInv(s), NEW ss \in SyncStatus, ss.safe # NoBlock,
         s.blocks # <<>>, ~StartAfresh(s, ss)
  PROVE  LET n == NumBlocksToDequeue(s, ss)
             m == NumChannelsToPrune(s, ss)
             u == Synced(s, ss)
         IN  /\ n \in 0 .. Len(s.blocks) /\ m \in 0 .. Len(s.channelQueue)
             /\ u \in Manager /\ u.panic = s.panic /\ u.txChannels = s.txChannels
             /\ u.chan = s.chan /\ u.tip = s.tip
             /\ u.blocks = SubSeq(s.blocks, n + 1, Len(s.blocks))
             /\ u.blockCursor = IF s.blockCursor > n THEN s.blockCursor - n ELSE 0
             /\ u.blockCursor <= Len(u.blocks)
             /\ u.channelQueue = SubSeq(s.channelQueue, m + 1, Len(s.channelQueue))
             /\ u.currentChannel = IF \E i \in 1 .. m : s.channelQueue[i] = s.currentChannel
                                   THEN NoChannel ELSE s.currentChannel
<1> DEFINE n == NumBlocksToDequeue(s, ss)
           m == NumChannelsToPrune(s, ss)
           cursor == IF s.blockCursor > n THEN s.blockCursor - n ELSE 0
           t == PruneSafeBlocks(s, n)
           current == IF \E i \in 1 .. m : s.channelQueue[i] = s.currentChannel
                      THEN NoChannel ELSE s.currentChannel
           u == PruneChannels(t, m)
<1>0. /\ s \in Manager /\ s.blocks \in Seq(Block) /\ s.blockCursor \in Nat
      /\ s.channelQueue \in Seq(ChannelID)
      /\ s.chan \in [ChannelID -> Channel] /\ s.currentChannel \in ChannelID \cup {NoChannel}
      /\ Len(s.blocks) \in Nat /\ Len(s.channelQueue) \in Nat
      /\ DOMAIN s.channelQueue = 1 .. Len(s.channelQueue)
      /\ ss.safe \in Block
  BY LenProperties DEF BooksInv, Manager, SyncStatus
<1>1. n \in 0 .. Len(s.blocks)
  <2>1. s.blocks[1] \in Block
    BY <1>0, EmptySeq, ElementOfSeq
  <2>2. n \in Int
    BY <2>1, <1>0, BlockAssumption DEF NumBlocksToDequeue
  <2> QED
    BY <2>2, <1>0 DEF StartAfresh
<1>2. m \in 0 .. Len(s.channelQueue)
  <2> DEFINE S == {i \in DOMAIN s.channelQueue : LatestL2(s.chan[s.channelQueue[i]]) > Number[ss.safe]}
  <2>1. m = IF S = {} THEN Len(s.channelQueue) ELSE FirstOf(S) - 1
    BY Zenon DEF NumChannelsToPrune
  <2>2. S \in SUBSET Nat /\ S \subseteq 1 .. Len(s.channelQueue)
    BY <1>0
  <2> HIDE DEF S
  <2>3. S # {} => FirstOf(S) \in 1 .. Len(s.channelQueue)
    BY <2>2, FirstOfIsLeast
  <2> HIDE DEF m
  <2>4. CASE S = {}
    BY <2>1, <2>4, <1>0
  <2>5. CASE S # {}
    BY <2>1, <2>3, <2>5, <1>0
  <2> QED
    BY <2>4, <2>5
<1>3. Synced(s, ss) = u
  BY DEF Synced
<1>4. SubSeq(s.blocks, n + 1, Len(s.blocks)) \in Seq(Block)
      /\ Len(SubSeq(s.blocks, n + 1, Len(s.blocks))) = Len(s.blocks) - n
  <2>1. \A i \in n + 1 .. Len(s.blocks) : s.blocks[i] \in Block
    BY <1>0, <1>1, ElementOfSeq
  <2>2. n + 1 \in Int /\ n \in Nat
    BY <1>1
  <2> HIDE DEF n
  <2> QED
    BY <2>1, <2>2, <1>0, <1>1, SubSeqProperties
<1>5. SubSeq(s.channelQueue, m + 1, Len(s.channelQueue)) \in Seq(ChannelID)
  <2>1. \A i \in m + 1 .. Len(s.channelQueue) : s.channelQueue[i] \in ChannelID
    BY <1>0, <1>2, ElementOfSeq
  <2> QED
    BY <2>1, <1>0, <1>2, SubSeqProperties
<1> HIDE DEF n, m
<1>6. cursor \in Nat /\ cursor <= Len(s.blocks) - n
  BY <1>0, <1>1 DEF BooksInv
<1>7. t = [s EXCEPT !.blocks = SubSeq(s.blocks, n + 1, Len(s.blocks)), !.blockCursor = cursor]
  <2>1. ~(n > Len(s.blocks))
    BY <1>0, <1>1
  <2> QED
    BY <2>1, <1>0 DEF PruneSafeBlocks, Manager
<1> HIDE DEF cursor, t
<1>8. /\ t.channelQueue = s.channelQueue /\ t.currentChannel = s.currentChannel
      /\ t.blocks = SubSeq(s.blocks, n + 1, Len(s.blocks)) /\ t.blockCursor = cursor
      /\ t.txChannels = s.txChannels /\ t.chan = s.chan /\ t.panic = s.panic
      /\ t.tip = s.tip /\ t \in Manager
  BY <1>0, <1>4, <1>6, <1>7 DEF Manager
<1>9. u = [t EXCEPT !.channelQueue = SubSeq(t.channelQueue, m + 1, Len(t.channelQueue)),
                    !.currentChannel = current]
  BY <1>8 DEF PruneChannels, Manager
<1>10. current \in {NoChannel, s.currentChannel}
  OBVIOUS
<1> HIDE DEF u, current
<1>11. /\ u.channelQueue = SubSeq(s.channelQueue, m + 1, Len(s.channelQueue))
       /\ u.currentChannel = current /\ u.blocks = t.blocks /\ u.blockCursor = cursor
       /\ u.txChannels = s.txChannels /\ u.chan = s.chan /\ u.panic = s.panic
       /\ u.tip = s.tip /\ u \in Manager
  BY <1>0, <1>5, <1>8, <1>9, <1>10 DEF Manager
<1>12. u.blockCursor <= Len(u.blocks)
  BY <1>4, <1>6, <1>8, <1>11
<1> QED
  BY <1>1, <1>2, <1>3, <1>8, <1>11, <1>12 DEF n, m, cursor, current

\* syncAndPrune never dequeues more blocks than there are: computeSyncActions
\* starts afresh in that case.
LEMMA SyncedBooks ==
  ASSUME NEW s, BooksInv(s), s.panic = "none", NEW ss \in SyncStatus, ss.safe # NoBlock
  PROVE  /\ BooksInv(Synced(s, ss)) /\ Synced(s, ss).panic = "none"
         /\ Synced(s, ss).txChannels \subseteq s.txChannels
<1> DEFINE u == Synced(s, ss)
<1>0. Len(s.channelQueue) \in Nat /\ DOMAIN s.channelQueue = 1 .. Len(s.channelQueue)
      /\ ss.safe \in Block
  BY LenProperties DEF BooksInv, Manager, SyncStatus
<1>1. CASE s.blocks = <<>>
  <2>1. ~StartAfresh(s, ss)
    BY <1>1 DEF StartAfresh
  <2>2. Synced(s, ss) = s
    BY <1>1, <2>1 DEF Synced
  <2> QED
    BY <2>2
<1>2. CASE s.blocks # <<>> /\ StartAfresh(s, ss)
  <2>1. Synced(s, ss) = Cleared(s, L1Origin[ss.safe])
    BY <1>2 DEF Synced
  <2>2. L1Origin[ss.safe] \in Nat
    BY <1>0, BlockAssumption
  <2>3. u.txChannels = {} /\ BooksInv(u) /\ u.panic = "none"
    BY <2>1, <2>2, ClearedBooks
  <2> QED
    BY <2>3
<1>3. CASE s.blocks # <<>> /\ ~StartAfresh(s, ss)
  <2> DEFINE m == NumChannelsToPrune(s, ss)
             a == m + 1
  <2>1. /\ m \in 0 .. Len(s.channelQueue)
        /\ u \in Manager /\ u.panic = s.panic /\ u.txChannels = s.txChannels /\ u.chan = s.chan
        /\ u.blockCursor <= Len(u.blocks)
        /\ u.channelQueue = SubSeq(s.channelQueue, m + 1, Len(s.channelQueue))
        /\ u.currentChannel \in {NoChannel, s.currentChannel}
    BY <1>3, PruneShape, Zenon
  <2> HIDE DEF m, u
  <2>2. a \in Nat \ {0} /\ Len(s.channelQueue) <= Len(s.channelQueue)
    BY <1>0, <2>1
  <2>3. \A i \in a .. Len(s.channelQueue) : s.chan[s.channelQueue[i]].pending \subseteq u.txChannels
    <3>1. \A i \in a .. Len(s.channelQueue) : i \in DOMAIN s.channelQueue
      BY <1>0, <2>1
    <3> QED
      BY <3>1, <2>1 DEF BooksInv
  <2>4. u.txChannels \subseteq s.txChannels
    BY <2>1
  <2>5. u.channelQueue = SubSeq(s.channelQueue, a, Len(s.channelQueue))
    BY <2>1
  <2> HIDE DEF a
  <2>6. BooksInv(u)
    BY <1>0, <2>1, <2>2, <2>3, <2>4, <2>5, BooksSubqueue, Zenon
  <2> QED
    BY <2>1, <2>6 DEF u
<1> QED
  BY <1>1, <1>2, <1>3

-----------------------------------------------------------------------------
(* The theorems *)

\* The inductive invariant.  The books carry everything but the panics: that a
\* failed transaction's frames are known follows from ChannelCore, that pruning
\* stays in range from the guard of StartAfresh.
IInv ==
  /\ BooksInv(mgr)
  /\ prevCurrentL1 \in L1Number
  /\ AssertedPanicsUnreachable

\* A new manager satisfies the invariant (NewChannelManager).
LEMMA InitIInv == Init => IInv
<1> SUFFICES ASSUME Init PROVE IInv
  OBVIOUS
<1> DEFINE unused == [NewChannel(FALSE, 0) EXCEPT !.timeout = 0]
<1>1. PICK useBlobs \in BOOLEAN, l1Origin \in L1Number :
        /\ mgr = [ blocks |-> <<>>, blockCursor |-> 0, l1OriginLast |-> l1Origin,
                   useBlobs |-> useBlobs, tip |-> NoBlock, currentChannel |-> NoChannel,
                   channelQueue |-> <<>>, txChannels |-> {},
                   chan |-> [id \in ChannelID |-> unused], panic |-> "none" ]
        /\ prevCurrentL1 = 0
  BY DEF Init
<1>2. /\ unused \in Channel /\ unused.frameCursor = 0 /\ unused.numFrames = 0
      /\ unused.pending = {} /\ unused.confirmed = {} /\ ~unused.full
  BY EmptySeq DEF NewChannel, Channel
<1> HIDE DEF unused
<1>3. \A id \in ChannelID : ChannelInv(id, unused)
  BY <1>2 DEF ChannelInv, ChannelCore
<1>4. <<>> \in Seq(Block) /\ <<>> \in Seq(ChannelID) /\ Len(<<>>) = 0
  BY EmptySeq
<1>5. l1Origin \in Nat /\ 0 \in L1Number
  BY ChainAssumption DEF L1Number
<1>6. mgr \in Manager
  BY <1>1, <1>2, <1>4, <1>5 DEF Manager, PanicReason
<1>7. BooksInv(mgr)
  BY <1>1, <1>3, <1>4, <1>6 DEF BooksInv, Distinct
<1> QED
  BY <1>1, <1>5, <1>7 DEF IInv, AssertedPanicsUnreachable

\* Every call keeps the invariant, one step per method of channelManager.
LEMMA NextIInv == IInv /\ [Next]_vars => IInv'
<1> SUFFICES ASSUME IInv, [Next]_vars PROVE IInv'
  OBVIOUS
<1>0. BooksInv(mgr) /\ prevCurrentL1 \in L1Number /\ L1Number \subseteq Nat /\ 0 \in L1Number
  BY ChainAssumption DEF IInv, L1Number
<1>q. ASSUME BooksInv(mgr'), prevCurrentL1' \in L1Number,
             mgr'.panic \in {"none", "nil currentChannel", "rewind to nonexistent block"}
      PROVE  IInv'
  BY <1>q DEF IInv, AssertedPanicsUnreachable
<1>1. ASSUME NEW b \in Block, AddL2Block(b) PROVE IInv'
  <2>1. /\ mgr.panic = "none" /\ prevCurrentL1' = prevCurrentL1
        /\ mgr' = [mgr EXCEPT !.blocks = Append(mgr.blocks, b), !.tip = b]
    BY <1>1 DEF AddL2Block, Running
  <2>2. mgr \in Manager /\ mgr.blocks \in Seq(Block) /\ mgr.blockCursor \in Nat
    BY <1>0 DEF BooksInv, Manager
  <2>3. Append(mgr.blocks, b) \in Seq(Block) /\ Len(Append(mgr.blocks, b)) = Len(mgr.blocks) + 1
    BY <2>2, AppendProperties
  <2>4. /\ mgr' \in Manager /\ mgr'.panic = mgr.panic /\ mgr'.blocks = Append(mgr.blocks, b)
        /\ mgr'.blockCursor = mgr.blockCursor /\ mgr'.currentChannel = mgr.currentChannel
        /\ mgr'.channelQueue = mgr.channelQueue /\ mgr'.txChannels = mgr.txChannels
        /\ mgr'.chan = mgr.chan
    BY <2>1, <2>2, <2>3 DEF Manager
  <2>5. mgr'.blockCursor <= Len(mgr'.blocks)
    BY <2>2, <2>3, <2>4, <1>0, LenProperties DEF BooksInv
  <2>6. BooksInv(mgr')
    BY <2>4, <2>5, <1>0 DEF BooksInv
  <2> QED
    BY <2>1, <2>4, <2>6, <1>0, <1>q
<1>2. ASSUME NEW tx \in mgr.txChannels, TxFailed(tx) PROVE IInv'
  <2>1. BooksInv(mgr') /\ mgr'.panic = "none" /\ prevCurrentL1' = prevCurrentL1
    BY <1>0, <1>2, FailedBooks
  <2> QED
    BY <2>1, <1>0, <1>q
<1>3. ASSUME NEW tx \in mgr.txChannels, NEW n \in L1Number, TxConfirmed(tx, n) PROVE IInv'
  <2>1. /\ BooksInv(mgr') /\ mgr'.panic \in {"none", "rewind to nonexistent block"}
        /\ prevCurrentL1' = prevCurrentL1
    BY <1>0, <1>3, ConfirmedBooks
  <2> QED
    BY <2>1, <1>0, <1>q
<1>4. ASSUME NEW l1Head \in L1Number, NEW useBlobs \in BOOLEAN, NEW pi \in PubInfo,
             NEW r \in TxDataOutcome(mgr, l1Head, useBlobs, pi), TxData(l1Head, useBlobs, pi, r)
      PROVE  IInv'
  <2>1. mgr.panic = "none" /\ mgr' = r.s /\ prevCurrentL1' = prevCurrentL1
    BY <1>4 DEF TxData, Running
  <2>2. /\ BooksInv(r.s)
        /\ r.s.panic \in {"none", "nil currentChannel", "rewind to nonexistent block"}
    BY <2>1, <1>0, TxDataBooks
  <2> QED
    BY <2>1, <2>2, <1>0, <1>q
<1>5. ASSUME NEW ss \in SyncStatus, SyncAndPrune(ss) PROVE IInv'
  <2>1. /\ mgr.panic = "none" /\ ss.safe # NoBlock /\ mgr' = Synced(mgr, ss)
        /\ prevCurrentL1' \in L1Number
    BY <1>5 DEF SyncAndPrune, Running, OutOfSync, SyncStatus
  <2>2. BooksInv(mgr') /\ mgr'.panic = "none"
    BY <2>1, <1>0, SyncedBooks
  <2> QED
    BY <2>1, <2>2, <1>q
<1>6. ASSUME NEW o \in L1Number, ClearState(o) PROVE IInv'
  <2>1. mgr.panic = "none" /\ mgr' = Cleared(mgr, o) /\ prevCurrentL1' = prevCurrentL1
    BY <1>6 DEF ClearState, Running
  <2> QED
    BY <2>1, <1>0, <1>q, ClearedBooks
<1>7. ASSUME NEW o \in L1Number, NEW useBlobs \in BOOLEAN, Restart(o, useBlobs) PROVE IInv'
  <2> DEFINE s == Cleared(mgr, o)
  <2>1. mgr' = [s EXCEPT !.useBlobs = useBlobs, !.panic = "none"] /\ prevCurrentL1' = 0
    BY <1>7 DEF Restart
  <2>2. BooksInv(s)
    BY <1>0, ClearedBooks
  <2> HIDE DEF s
  <2>3. /\ mgr' \in Manager /\ mgr'.panic = "none" /\ mgr'.blocks = s.blocks
        /\ mgr'.blockCursor = s.blockCursor /\ mgr'.currentChannel = s.currentChannel
        /\ mgr'.channelQueue = s.channelQueue /\ mgr'.txChannels = s.txChannels
        /\ mgr'.chan = s.chan
    BY <2>1, <2>2 DEF BooksInv, Manager, PanicReason
  <2>4. BooksInv(mgr')
    BY <2>2, <2>3 DEF BooksInv
  <2> QED
    BY <2>1, <2>3, <2>4, <1>0, <1>q
<1>8. ASSUME UNCHANGED vars PROVE IInv'
  <2>1. mgr' = mgr /\ prevCurrentL1' = prevCurrentL1
    BY <1>8 DEF vars
  <2> QED
    BY <2>1 DEF IInv, AssertedPanicsUnreachable
<1> QED
  BY <1>1, <1>2, <1>3, <1>4, <1>5, <1>6, <1>7, <1>8, Zenon DEF Next

\* No sequence of calls, receipts and restarts breaks the channel manager's books.
THEOREM ManagerInvariant == Spec => []IInv
<1> QED
  BY InitIInv, NextIInv, PTL DEF Spec

\* The manager's record keeps its types, and its cursors stay in range, whatever
\* the order of calls.
THEOREM TypeCorrect == Spec => []TypeOK
<1>1. IInv => TypeOK
  BY DEF IInv, BooksInv, TypeOK
<1> QED
  BY <1>1, ManagerInvariant, PTL

\* A channel that isFullySubmitted has every one of its frames in a confirmed
\* transaction.
THEOREM FullSubmission == Spec => []FullySubmittedIsConfirmed
<1>1. IInv => FullySubmittedIsConfirmed
  <2> SUFFICES ASSUME IInv, NEW id \in ChannelID, IsFullySubmitted(mgr.chan[id])
               PROVE  /\ mgr.chan[id].numFrames > 0
                      /\ \A frame \in 0 .. mgr.chan[id].numFrames - 1 :
                           \E tx \in mgr.chan[id].confirmed : Carries(tx, frame)
    BY DEF FullySubmittedIsConfirmed
  <2> DEFINE c == mgr.chan[id]
  <2>1. ChannelInv(id, c) /\ c.full /\ c.pending = {} /\ PendingFrames(c) = 0
    BY DEF IInv, BooksInv, IsFullySubmitted
  <2>2. c.numFrames \in Nat /\ c.frameCursor \in Nat
    BY <2>1 DEF ChannelInv, ChannelCore, Channel
  <2>3. c.frameCursor = c.numFrames
    BY <2>1, <2>2 DEF PendingFrames
  <2> HIDE DEF c
  <2>4. c.pending \cup c.confirmed = c.confirmed
    BY <2>1
  <2>5. /\ c.numFrames > 0
        /\ \A frame \in 0 .. c.numFrames - 1 : \E tx \in c.confirmed : Carries(tx, frame)
    BY <2>1, <2>3, <2>4 DEF ChannelInv, ChannelCore
  <2> QED
    BY <2>5 DEF c
<1> QED
  BY <1>1, ManagerInvariant, PTL

\* txChannels and the channels' pending transactions agree, so a receipt always
\* finds the channel that waits for it.
THEOREM TxTracking == Spec => []PendingTxsTracked
<1>1. IInv => PendingTxsTracked
  BY DEF IInv, BooksInv, PendingTxsTracked, Queued
<1> QED
  BY <1>1, ManagerInvariant, PTL

\* The panics of PruneSafeBlocks and RewindFrameCursor never happen.
THEOREM NoAssertedPanic == Spec => []AssertedPanicsUnreachable
<1>1. IInv => AssertedPanicsUnreachable
  BY DEF IInv
<1> QED
  BY <1>1, ManagerInvariant, PTL
=============================================================================
