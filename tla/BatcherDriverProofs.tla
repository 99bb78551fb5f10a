------------------------- MODULE BatcherDriverProofs -------------------------
(***************************************************************************)
(* The goroutines of BatcherDriver use the channel manager only through    *)
(* its methods, so DriverSpec implements Spec of ChannelManager and        *)
(* inherits its theorems.  On top of them: no transaction is lost between  *)
(* the goroutines, and the unlocked reads of txpoolState are harmless.     *)
(***************************************************************************)
EXTENDS BatcherDriver, ChannelContentsProofs

-----------------------------------------------------------------------------
(* Bags of transactions *)

\* Adding an element to a bag (Queue.Send, the DA requests) adds one copy of it.
LEMMA BagAddFacts ==
  ASSUME NEW B, IsABag(B), NEW x
  PROVE  /\ IsABag(BagAdd(B, x))
         /\ BagToSet(BagAdd(B, x)) = BagToSet(B) \cup {x}
         /\ CopiesOf(x, BagAdd(B, x)) = CopiesOf(x, B) + 1
         /\ \A y : y # x => CopiesOf(y, BagAdd(B, x)) = CopiesOf(y, B)
<1>1. CASE x \in DOMAIN B
  <2> DEFINE C == [e \in DOMAIN B |-> IF e = x THEN B[e] + 1 ELSE B[e]]
  <2>1. BagAdd(B, x) = C
    BY <1>1 DEF BagAdd
  <2>2. DOMAIN C = DOMAIN B \cup {x} /\ C[x] = B[x] + 1 /\ \A y \in DOMAIN B : y # x => C[y] = B[y]
    BY <1>1
  <2>3. IsABag(C)
    BY <1>1 DEF IsABag
  <2> HIDE DEF C
  <2> QED
    BY <1>1, <2>1, <2>2, <2>3 DEF BagToSet, CopiesOf, BagIn
<1>2. CASE x \notin DOMAIN B
  BY <1>2 DEF IsABag, BagAdd, BagToSet, CopiesOf, BagIn
<1> QED
  BY <1>1, <1>2

\* Removing an element (a handler returns) removes one copy and no other element.
LEMMA BagRemoveFacts ==
  ASSUME NEW B, IsABag(B), NEW x, BagIn(x, B)
  PROVE  /\ IsABag(BagRemove(B, x))
         /\ BagToSet(BagRemove(B, x)) \subseteq BagToSet(B)
         /\ BagToSet(B) \subseteq BagToSet(BagRemove(B, x)) \cup {x}
         /\ CopiesOf(x, BagRemove(B, x)) = CopiesOf(x, B) - 1
         /\ \A y : y # x => CopiesOf(y, BagRemove(B, x)) = CopiesOf(y, B)
<1>1. CASE B[x] = 1
  BY <1>1 DEF IsABag, BagRemove, BagToSet, CopiesOf, BagIn
<1>2. CASE B[x] # 1
  BY <1>2 DEF IsABag, BagRemove, BagToSet, CopiesOf, BagIn
<1> QED
  BY <1>1, <1>2

\* An element is in a bag iff the bag has a copy of it.
LEMMA BagInFacts ==
  ASSUME NEW B, IsABag(B), NEW x
  PROVE  CopiesOf(x, B) \in Nat /\ (BagIn(x, B) <=> CopiesOf(x, B) > 0)
BY DEF IsABag, BagToSet, CopiesOf, BagIn

\* Before the first transaction nothing is in flight.
LEMMA EmptyBagFacts ==
  IsABag(EmptyBag) /\ BagToSet(EmptyBag) = {} /\ \A x : CopiesOf(x, EmptyBag) = 0
BY DEF IsABag, EmptyBag, SetToBag, BagToSet, CopiesOf, BagIn

-----------------------------------------------------------------------------
(* The driver implements the channel manager's specification *)

\* The data availability types the batcher may be configured with.
LEMMA DATypesAreBoolean == ConfiguredDATypes \subseteq BOOLEAN
BY DriverAssumption DEF ConfiguredDATypes

\* Each step of a goroutine is one call of a method of the manager, or leaves
\* the manager alone.
LEMMA DriverStepIsManagerStep ==
  ASSUME LoopsTypeOK, [DriverNext]_driverVars
  PROVE  [Next]_vars
<1>0. ConfiguredDATypes \subseteq BOOLEAN
  BY DATypesAreBoolean
<1>f. ASSUME NEW tx, RecordFailedTx(tx) PROVE [Next]_vars
  BY <1>f DEF RecordFailedTx, Next
<1>c. ASSUME NEW tx, NEW n \in L1Number, RecordConfirmedTx(tx, n) PROVE [Next]_vars
  BY <1>c DEF RecordConfirmedTx, Next
<1>1. CASE LoadingLoop
  <2>1. ASSUME NEW ss \in SyncStatus, Poll(ss) PROVE [Next]_vars
    BY <2>1 DEF Poll, Next
  <2>2. ASSUME NEW b \in Block, LoadBlock(b) PROVE [Next]_vars
    BY <2>2 DEF LoadBlock, Next
  <2>3. ASSUME NEW o \in L1Number, ClearAfterReorg(o) PROVE [Next]_vars
    BY <2>3 DEF ClearAfterReorg, Next
  <2>4. CASE LoadFails \/ Signal
    BY <2>4 DEF LoadFails, Signal
  <2> QED
    BY <1>1, <2>1, <2>2, <2>3, <2>4 DEF LoadingLoop
<1>2. CASE PublishingLoop
  <2>1. ASSUME NEW l1Head \in L1Number, NEW useBlobs \in ConfiguredDATypes,
               NEW r \in TxDataOutcome(mgr, l1Head, useBlobs, publisher.pi),
               PublishTx(l1Head, useBlobs, r)
        PROVE  [Next]_vars
    <3>1. publisher.pi \in PubInfo /\ useBlobs \in BOOLEAN
      BY <1>0 DEF LoopsTypeOK, PublisherState
    <3> QED
      BY <3>1, <2>1 DEF PublishTx, Next
  <2>2. CASE PublishToAltDA
    BY <2>2, <1>f DEF PublishToAltDA
  <2>3. CASE TakeSignal \/ CheckTxpool \/ CancelBlockingTx \/ L1TipFails \/ SendTransaction
    BY <2>3 DEF TakeSignal, CheckTxpool, CancelBlockingTx, L1TipFails, SendTransaction
  <2> QED
    BY <1>2, <2>1, <2>2, <2>3 DEF PublishingLoop
<1>3. CASE Handlers
  BY <1>3, <1>f DEF Handlers, CancelGroup, AltDAFails, AltDASucceeds
<1>4. CASE ReceiptsLoop
  BY <1>4, <1>f, <1>c DEF ReceiptsLoop, ReceiveReceipt, SetTxPoolState, HandleReceipt
<1>5. CASE Flush \/ UNCHANGED driverVars
  BY <1>5 DEF Flush, driverVars
<1>6. ASSUME NEW o \in L1Number, NEW useBlobs \in ConfiguredDATypes, RestartProcess(o, useBlobs)
      PROVE  [Next]_vars
  BY <1>0, <1>6 DEF RestartProcess, Next
<1>7. ASSUME NEW o \in L1Number, StopAndStart(o) PROVE [Next]_vars
  BY <1>7 DEF StopAndStart, Next
<1> QED
  BY <1>1, <1>2, <1>3, <1>4, <1>5, <1>6, <1>7 DEF DriverNext
-----------------------------------------------------------------------------
(* The types of the loops *)

\* tryPublishSignal leaves at most one signal in the channel.
LEMMA SignalType ==
  ASSUME LoopsTypeOK, NEW value \in PubInfo, TryPublishSignal(value)
  PROVE  publishSignal' \in SignalState
BY DEF LoopsTypeOK, TryPublishSignal, SignalState

\* syncAndPrune asks for a range of heights.
LEMMA BlocksToLoadType ==
  ASSUME BooksInv(mgr), NEW ss \in SyncStatus, ss.safe # NoBlock, ss.unsafe # NoBlock
  PROVE  BlocksToLoad(mgr, ss)[1] \in Nat /\ BlocksToLoad(mgr, ss)[2] \in Nat
<1>1. Number[ss.safe] \in Nat /\ Number[ss.unsafe] \in Nat
  BY BlockAssumption DEF SyncStatus
<1>2. mgr.blocks \in Seq(Block)
  BY DEF BooksInv, Manager
<1>3. mgr.blocks # <<>> => Number[mgr.blocks[Len(mgr.blocks)]] \in Nat
  <2> HAVE mgr.blocks # <<>>
  <2>1. mgr.blocks[Len(mgr.blocks)] \in Block
    BY <1>2, EmptySeq, LenProperties, ElementOfSeq
  <2> QED
    BY <2>1, BlockAssumption
<1> QED
  BY <1>1, <1>3 DEF BlocksToLoad

\* Queue.Send of a reference puts one more copy of it in flight.
LEMMA SendType ==
  ASSUME IsQueue(queue), NEW ref \in TxRef, Send(ref)
  PROVE  /\ IsQueue(queue')
         /\ BagToSet(queue'.inFlight) = BagToSet(queue.inFlight) \cup {ref}
         /\ CopiesOf(ref, queue'.inFlight) = CopiesOf(ref, queue.inFlight) + 1
         /\ \A y : y # ref => CopiesOf(y, queue'.inFlight) = CopiesOf(y, queue.inFlight)
<1>1. queue'.inFlight = BagAdd(queue.inFlight, ref) /\ queue'.group \in {"ok", "failing", "cancelled"}
  BY DEF Send, IsQueue
<1>2. IsABag(queue.inFlight) /\ BagToSet(queue.inFlight) \subseteq TxRef
  BY DEF IsQueue, IsBagOf
<1>3. /\ IsABag(queue'.inFlight)
      /\ BagToSet(queue'.inFlight) = BagToSet(queue.inFlight) \cup {ref}
      /\ CopiesOf(ref, queue'.inFlight) = CopiesOf(ref, queue.inFlight) + 1
      /\ \A y : y # ref => CopiesOf(y, queue'.inFlight) = CopiesOf(y, queue.inFlight)
  BY <1>1, <1>2, BagAddFacts
<1> QED
  BY <1>1, <1>2, <1>3 DEF IsQueue, IsBagOf

\* A reference to a transaction of a channel.
LEMMA RefType ==
  ASSUME IInv, NEW tx \in TxID
  PROVE  Ref(tx) \in TxRef /\ Ref(tx).id = tx /\ ~Ref(tx).isCancel /\ Ref(tx) # Cancellation
<1>1. mgr.chan[tx.ch].useBlobs \in BOOLEAN
  BY DEF IInv, BooksInv, Manager, Channel, TxID
<1> QED
  BY <1>1 DEF Ref, IsBlob, TxRef, Cancellation

\* No transaction of a channel is NoTx, the identifier of a cancellation.
LEMMA NoTxIsNone == NoTx \notin TxID
BY ChainAssumption DEF NoTx, TxID

\* The loops start from well-typed states, with nothing in flight
\* (StartBatchSubmitting).
LEMMA LoopsStartType ==
  ASSUME NEW ld, NEW ps, NEW pb, NEW da, NEW qu, NEW tp, NEW rc,
         LoopsStart(ld, ps, pb, da, qu, tp, rc)
  PROVE  /\ ld \in LoaderState /\ ps \in SignalState
         /\ pb \in PublisherState /\ pb.pc = "wait"
         /\ IsBagOf(da, TxID) /\ IsQueue(qu) /\ CopiesOf(Cancellation, qu.inFlight) = 0
         /\ tp \in TxPoolState /\ tp.state = "good"
         /\ rc \in ReceiptsState /\ rc.pc = "wait"
BY EmptyBagFacts
   DEF LoopsStart, LoaderAt, Waiting, NoSignal, PubInfo, NoReceipt, TxRef, Outcome,
       LoaderState, SignalState, PublisherState, IsBagOf, IsQueue, TxPoolState, ReceiptsState

\* Every step of a goroutine keeps the types of the loops.
LEMMA LoopsTypeStep ==
  ASSUME IInv, LoopsTypeOK, [DriverNext]_driverVars
  PROVE  LoopsTypeOK'
<1>0. /\ loader \in LoaderState /\ publishSignal \in SignalState /\ publisher \in PublisherState
      /\ IsBagOf(daRequests, TxID) /\ IsQueue(queue) /\ txpool \in TxPoolState
      /\ receipts \in ReceiptsState
  BY DEF LoopsTypeOK
<1>q. SUFFICES /\ loader' \in LoaderState /\ publishSignal' \in SignalState
               /\ publisher' \in PublisherState /\ IsBagOf(daRequests', TxID) /\ IsQueue(queue')
               /\ txpool' \in TxPoolState /\ receipts' \in ReceiptsState
  BY DEF LoopsTypeOK
<1>w. Waiting \in PublisherState
  BY DEF Waiting, NoSignal, PubInfo, PublisherState
<1>l. \A pc \in {"poll", "load", "reorg", "signal"} : LoaderAt(pc) \in LoaderState
  BY DEF LoaderAt, LoaderState
<1>1. CASE LoadingLoop
  <2>0. UNCHANGED <<publisher, daRequests, queue, txpool, receipts>>
    BY <1>1 DEF LoadingLoop, Poll, LoadBlock, LoadFails, ClearAfterReorg, Signal
  <2>1. ASSUME NEW ss \in SyncStatus, Poll(ss)
        PROVE  loader' \in LoaderState /\ publishSignal' \in SignalState
    <3>1. CASE loader' = LoaderAt("signal")
      BY <2>1, <3>1, <1>0, <1>l DEF Poll
    <3>2. CASE /\ ~OutOfSync(ss, prevCurrentL1)
               /\ loader' = [pc |-> "load", next |-> BlocksToLoad(mgr, ss)[1],
                             end |-> BlocksToLoad(mgr, ss)[2], loaded |-> 0]
      <4>1. BlocksToLoad(mgr, ss)[1] \in Nat /\ BlocksToLoad(mgr, ss)[2] \in Nat
        BY <3>2, BlocksToLoadType DEF OutOfSync, IInv
      <4> QED
        BY <2>1, <3>2, <4>1, <1>0 DEF Poll, LoaderState
    <3> QED
      BY <2>1, <3>1, <3>2 DEF Poll, SyncAndPrune
  <2>2. ASSUME NEW b \in Block, LoadBlock(b)
        PROVE  loader' \in LoaderState /\ publishSignal' \in SignalState
    <3>1. loader' \in LoaderState
      <4>1. \/ loader' = LoaderAt("signal") \/ loader' = LoaderAt("reorg")
            \/ loader' = [loader EXCEPT !.next = @ + 1, !.loaded = @ + 1]
        <5>1. \/ loader' = IF loader.next = loader.end THEN LoaderAt("signal")
                           ELSE [loader EXCEPT !.next = @ + 1, !.loaded = @ + 1]
              \/ loader' = LoaderAt("reorg")
          BY <2>2, Zenon DEF LoadBlock
        <5> QED
          BY <5>1, Zenon
      <4>2. [loader EXCEPT !.next = @ + 1, !.loaded = @ + 1] \in LoaderState
        <5> DEFINE n == loader.next + 1
                   k == loader.loaded + 1
        <5>1. n \in Nat /\ k \in Nat
          BY <1>0 DEF LoaderState
        <5>2. [loader EXCEPT !.next = @ + 1, !.loaded = @ + 1] = [loader EXCEPT !.next = n, !.loaded = k]
          BY <1>0 DEF LoaderState
        <5> HIDE DEF n, k
        <5> QED
          BY <5>1, <5>2, <1>0 DEF LoaderState
      <4> QED
        BY <4>1, <4>2, <1>l
    <3>2. [forcePublish |-> FALSE, ignoreMaxChannelDuration |-> loader.next < loader.end] \in PubInfo
      BY DEF PubInfo
    <3>3. publishSignal' \in SignalState
      BY <2>2, <3>2, <1>0, SignalType DEF LoadBlock
    <3> QED
      BY <3>1, <3>3
  <2>3. CASE LoadFails \/ \E o \in L1Number : ClearAfterReorg(o)
    BY <2>0, <2>3, <1>0, <1>l DEF LoadFails, ClearAfterReorg
  <2>4. CASE Signal
    <3>1. NoSignal \in PubInfo
      BY DEF NoSignal, PubInfo
    <3> QED
      BY <2>0, <2>4, <3>1, <1>0, <1>l, SignalType DEF Signal
  <2> QED
    BY <1>1, <2>0, <2>1, <2>2, <2>3, <2>4, <1>0 DEF LoadingLoop
<1>2. CASE PublishingLoop
  <2>0. UNCHANGED <<loader, receipts>>
    BY <1>2 DEF PublishingLoop, TakeSignal, CheckTxpool, CancelBlockingTx, PublishTx, L1TipFails,
                SendTransaction, PublishToAltDA
  <2>1. CASE TakeSignal
    <3>1. publishSignal[1] \in PubInfo /\ publisher.pc = "wait"
      BY <2>1, <1>0 DEF TakeSignal, SignalState
    <3>2. publisher' \in PublisherState
      BY <2>1, <3>1, <1>0 DEF TakeSignal, PublisherState
    <3> QED
      BY <2>0, <2>1, <3>2, <1>0 DEF TakeSignal, SignalState
  <2>2. CASE CheckTxpool
    <3>1. txpool' \in TxPoolState
      BY <2>2, <1>0 DEF CheckTxpool, TxPoolState
    <3>2. publisher' \in PublisherState
      BY <2>2, <1>0, <1>w DEF CheckTxpool, PublisherState
    <3> QED
      BY <2>0, <2>2, <3>1, <3>2, <1>0 DEF CheckTxpool
  <2>3. CASE CancelBlockingTx
    <3>1. Cancellation \in TxRef
      BY DEF TxRef
    <3> QED
      BY <2>0, <2>3, <3>1, <1>0, <1>w, SendType DEF CancelBlockingTx
  <2>4. ASSUME NEW l1Head \in L1Number, NEW useBlobs \in ConfiguredDATypes,
               NEW r \in TxDataOutcome(mgr, l1Head, useBlobs, publisher.pi),
               PublishTx(l1Head, useBlobs, r)
        PROVE  publisher' \in PublisherState
    <3>1. publisher.pi \in PubInfo /\ useBlobs \in BOOLEAN /\ l1Head \in Nat
      BY <1>0, DATypesAreBoolean, ChainAssumption DEF L1Number, PublisherState
    <3>2. r.tx \in TxID \cup {NoTx}
      BY <2>4, <3>1, TxDataBooks DEF IInv, PublishTx, TxData, Running
    <3> QED
      BY <2>4, <3>2, <1>0, <1>w DEF PublishTx, PublisherState
  <2>5. CASE L1TipFails
    BY <2>0, <2>5, <1>0, <1>w DEF L1TipFails
  <2>6. CASE SendTransaction
    <3>1. publisher.tx \in TxID /\ publisher' \in PublisherState
      BY <2>6, <1>0, <1>w DEF PublisherState, SendTransaction
    <3>2. Ref(publisher.tx) \in TxRef
      BY <3>1, RefType
    <3>3. IsQueue(queue')
      BY <2>6, <3>2, <1>0, SendType DEF SendTransaction
    <3> QED
      BY <2>0, <2>6, <3>1, <3>3, <1>0 DEF SendTransaction
  <2>7. CASE PublishToAltDA
    <3>1. publisher.tx \in TxID /\ publisher' \in PublisherState
      BY <2>7, <1>0 DEF PublisherState, PublishToAltDA
    <3>2. daRequests' = BagAdd(daRequests, publisher.tx) \/ daRequests' = daRequests
      BY <2>7 DEF PublishToAltDA
    <3>3. IsBagOf(daRequests', TxID)
      BY <3>1, <3>2, <1>0, BagAddFacts DEF IsBagOf
    <3> QED
      BY <2>0, <2>7, <3>1, <3>3, <1>0 DEF PublishToAltDA
  <2>8. CASE \E l1Head \in L1Number, useBlobs \in ConfiguredDATypes :
               \E r \in TxDataOutcome(mgr, l1Head, useBlobs, publisher.pi) :
                 PublishTx(l1Head, useBlobs, r)
    BY <2>0, <2>4, <2>8, <1>0 DEF PublishTx
  <2> QED
    BY <1>2, <2>1, <2>2, <2>3, <2>5, <2>6, <2>7, <2>8 DEF PublishingLoop
<1>3. CASE Handlers
  <2>0. UNCHANGED <<loader, publishSignal, publisher, txpool, receipts>>
    BY <1>3 DEF Handlers, CancelGroup, AltDAFails, AltDASucceeds
  <2>1. CASE CancelGroup
    BY <2>0, <2>1, <1>0 DEF CancelGroup, IsQueue
  <2>2. ASSUME NEW tx \in BagToSet(daRequests), daRequests' = BagRemove(daRequests, tx)
        PROVE  IsBagOf(daRequests', TxID)
    BY <2>2, <1>0, BagRemoveFacts DEF IsBagOf, BagIn
  <2>3. ASSUME NEW tx \in BagToSet(daRequests), AltDASucceeds(tx) PROVE IsQueue(queue')
    <3>1. tx \in TxID
      BY <1>0 DEF IsBagOf
    <3>2. Ref(tx) \in TxRef
      BY <3>1, RefType
    <3> QED
      BY <2>3, <3>2, <1>0, SendType DEF AltDASucceeds
  <2>4. CASE \E tx \in BagToSet(daRequests) : AltDAFails(tx) \/ AltDASucceeds(tx)
    <3>1. PICK tx \in BagToSet(daRequests) : AltDAFails(tx) \/ AltDASucceeds(tx)
      BY <2>4
    <3>2. IsBagOf(daRequests', TxID)
      BY <2>2, <3>1 DEF AltDAFails, AltDASucceeds
    <3>3. IsQueue(queue')
      BY <2>3, <3>1, <1>0 DEF AltDAFails
    <3> QED
      BY <2>0, <3>2, <3>3, <1>0
  <2> QED
    BY <1>3, <2>1, <2>4 DEF Handlers
<1>4. CASE ReceiptsLoop
  <2>0. UNCHANGED <<loader, publishSignal, publisher, daRequests>>
    BY <1>4 DEF ReceiptsLoop, ReceiveReceipt, SetTxPoolState, HandleReceipt
  <2>1. ASSUME NEW ref \in BagToSet(queue.inFlight), NEW outcome \in Outcome,
               ReceiveReceipt(ref, outcome)
        PROVE  IsQueue(queue') /\ receipts' \in ReceiptsState /\ txpool' \in TxPoolState
    <3>1. /\ queue'.inFlight = BagRemove(queue.inFlight, ref)
          /\ queue'.group \in {"ok", "failing", "cancelled"}
      BY <2>1, <1>0 DEF ReceiveReceipt, IsQueue
    <3>2. IsABag(queue'.inFlight) /\ BagToSet(queue'.inFlight) \subseteq TxRef /\ ref \in TxRef
      BY <3>1, <1>0, BagRemoveFacts DEF IsQueue, IsBagOf, BagIn
    <3> QED
      BY <2>1, <3>1, <3>2, <1>0 DEF ReceiveReceipt, ReceiptsState, IsQueue, IsBagOf
  <2>2. CASE SetTxPoolState
    <3>1. receipts.ref.isBlob \in BOOLEAN
      <4>1. receipts.ref \in TxRef
        BY <1>0 DEF ReceiptsState
      <4>2. \A ref \in TxRef : ref.isBlob \in BOOLEAN
        <5> TAKE ref \in TxRef
        <5>1. CASE ref \in [id : TxID, isCancel : {FALSE}, isBlob : BOOLEAN]
          BY <5>1
        <5>2. CASE ref = Cancellation
          BY <5>2 DEF Cancellation
        <5> QED
          BY <5>1, <5>2 DEF TxRef
      <4> QED
        BY <4>1, <4>2
    <3> QED
      <4>1. receipts' \in ReceiptsState
        BY <2>2, <1>0 DEF SetTxPoolState, ReceiptsState
      <4>2. txpool' \in TxPoolState
        <5>1. CASE receipts.pc = "block"
          <6>1. txpool' = [state |-> "blocked", blockedBlob |-> receipts.ref.isBlob]
            BY <2>2, <5>1 DEF SetTxPoolState
          <6> QED
            BY <6>1, <3>1 DEF TxPoolState
        <5>2. CASE receipts.pc # "block"
          BY <2>2, <5>2, <1>0 DEF SetTxPoolState, TxPoolState
        <5> QED
          BY <5>1, <5>2
      <4> QED
        BY <2>0, <2>2, <4>1, <4>2, <1>0 DEF SetTxPoolState
  <2>3. CASE \E n \in L1Number : HandleReceipt(n)
    <3>1. NoReceipt \in ReceiptsState
      BY DEF NoReceipt, ReceiptsState, TxRef, Outcome
    <3> QED
      BY <2>0, <2>3, <3>1, <1>0 DEF HandleReceipt
  <2> QED
    BY <1>4, <2>0, <2>1, <2>2, <2>3, <1>0 DEF ReceiptsLoop
<1>5. CASE Flush
  <2>1. [NoSignal EXCEPT !.forcePublish = TRUE] \in PubInfo
    BY DEF NoSignal, PubInfo
  <2> QED
    BY <1>0, <1>5, <2>1, SignalType DEF Flush
<1>6. ASSUME NEW o \in L1Number, NEW useBlobs \in ConfiguredDATypes, RestartProcess(o, useBlobs)
      PROVE  /\ loader' \in LoaderState /\ publishSignal' \in SignalState
             /\ publisher' \in PublisherState /\ IsBagOf(daRequests', TxID) /\ IsQueue(queue')
             /\ txpool' \in TxPoolState /\ receipts' \in ReceiptsState
  BY <1>6, LoopsStartType DEF RestartProcess
<1>7. ASSUME NEW o \in L1Number, StopAndStart(o)
      PROVE  /\ loader' \in LoaderState /\ publishSignal' \in SignalState
             /\ publisher' \in PublisherState /\ IsBagOf(daRequests', TxID) /\ IsQueue(queue')
             /\ txpool' \in TxPoolState /\ receipts' \in ReceiptsState
  BY <1>7, LoopsStartType DEF StopAndStart
<1>8. CASE UNCHANGED driverVars
  BY <1>0, <1>8 DEF driverVars, loops
<1> QED
  BY <1>1, <1>2, <1>3, <1>4, <1>5, <1>6, <1>7, <1>8 DEF DriverNext

-----------------------------------------------------------------------------
(* No transaction is lost between the goroutines *)

\* The transactions the manager waits for, after a step of its own.
LEMMA ManagerTxs ==
  ASSUME IInv
  PROVE  /\ \A tx : RecordFailedTx(tx) => mgr'.txChannels \subseteq mgr.txChannels \ {tx}
         /\ \A tx : \A n \in L1Number :
              RecordConfirmedTx(tx, n) => mgr'.txChannels \subseteq mgr.txChannels \ {tx}
         /\ \A b : AddL2Block(b) => mgr'.txChannels = mgr.txChannels
         /\ \A ss \in SyncStatus : SyncAndPrune(ss) => mgr'.txChannels \subseteq mgr.txChannels
         /\ \A o \in L1Number : ClearState(o) => mgr'.txChannels = {}
         /\ \A o \in L1Number, u \in BOOLEAN : Restart(o, u) => mgr'.txChannels = {}
<1>0. BooksInv(mgr) /\ mgr \in Manager /\ L1Number \subseteq Nat
  BY ChainAssumption DEF IInv, BooksInv, L1Number
<1>1. ASSUME NEW tx, RecordFailedTx(tx) PROVE mgr'.txChannels \subseteq mgr.txChannels \ {tx}
  BY <1>0, <1>1, FailedBooks DEF RecordFailedTx, vars
<1>2. ASSUME NEW tx, NEW n \in L1Number, RecordConfirmedTx(tx, n)
      PROVE  mgr'.txChannels \subseteq mgr.txChannels \ {tx}
  BY <1>0, <1>2, ConfirmedBooks DEF RecordConfirmedTx, vars
<1>3. ASSUME NEW b, AddL2Block(b) PROVE mgr'.txChannels = mgr.txChannels
  BY <1>0, <1>3 DEF AddL2Block, Manager
<1>4. ASSUME NEW ss \in SyncStatus, SyncAndPrune(ss) PROVE mgr'.txChannels \subseteq mgr.txChannels
  BY <1>0, <1>4, SyncedBooks DEF SyncAndPrune, Running, OutOfSync
<1>5. ASSUME NEW o \in L1Number, ClearState(o) PROVE mgr'.txChannels = {}
  BY <1>0, <1>5, ClearedBooks DEF ClearState
<1>6. ASSUME NEW o \in L1Number, NEW u \in BOOLEAN, Restart(o, u) PROVE mgr'.txChannels = {}
  <2> DEFINE s == Cleared(mgr, o)
  <2>1. s.txChannels = {} /\ s \in Manager
    BY <1>0, ClearedBooks DEF BooksInv
  <2>2. mgr' = [s EXCEPT !.useBlobs = u, !.panic = "none"]
    BY <1>6 DEF Restart
  <2> HIDE DEF s
  <2> QED
    BY <2>1, <2>2 DEF Manager
<1> QED
  BY <1>1, <1>2, <1>3, <1>4, <1>5, <1>6

\* Every transaction txChannels knows stays with some goroutine.
LEMMA TxsStep ==
  ASSUME IInv, LoopsTypeOK, TxsAccountedFor, framesFit, [DriverNext]_driverVars
  PROVE  TxsAccountedFor'
<1> DEFINE known == mgr.txChannels
<1>0. /\ publisher \in PublisherState /\ IsBagOf(daRequests, TxID) /\ IsQueue(queue)
      /\ receipts \in ReceiptsState
  BY DEF LoopsTypeOK
<1>o. \A tx \in known : \/ publisher.pc = "send" /\ tx = publisher.tx
                        \/ tx \in BagToSet(daRequests)
                        \/ \E ref \in BagToSet(queue.inFlight) : tx = ref.id
                        \/ receipts.pc # "wait" /\ tx = receipts.ref.id
  BY DEF TxsAccountedFor, Outstanding
<1>q. SUFFICES ASSUME NEW tx \in mgr'.txChannels
               PROVE  \/ publisher'.pc = "send" /\ tx = publisher'.tx
                      \/ tx \in BagToSet(daRequests')
                      \/ \E ref \in BagToSet(queue'.inFlight) : tx = ref.id
                      \/ receipts'.pc # "wait" /\ tx = receipts'.ref.id
  BY DEF TxsAccountedFor, Outstanding
<1>s. CASE tx \in known /\ UNCHANGED <<publisher, daRequests, queue, receipts>>
  BY <1>s, <1>o
<1>e. CASE mgr'.txChannels = {}
  BY <1>e
<1> HIDE DEF known
<1>1. CASE LoadingLoop
  <2>0. UNCHANGED <<publisher, daRequests, queue, txpool, receipts>>
    BY <1>1 DEF LoadingLoop, Poll, LoadBlock, LoadFails, ClearAfterReorg, Signal
  <2>1. mgr'.txChannels \subseteq mgr.txChannels
    BY <1>1, ManagerTxs DEF LoadingLoop, Poll, LoadBlock, LoadFails, ClearAfterReorg, Signal, vars
  <2> QED
    BY <2>0, <2>1, <1>s DEF known
<1>2. CASE PublishingLoop
  <2>1. CASE TakeSignal \/ CheckTxpool \/ L1TipFails
    <3>1. tx \in known /\ UNCHANGED <<daRequests, queue, receipts>> /\ publisher.pc # "send"
      BY <2>1 DEF TakeSignal, CheckTxpool, L1TipFails, vars, known
    <3> QED
      BY <3>1, <1>o
  <2>2. CASE CancelBlockingTx
    <3>1. Cancellation \in TxRef
      BY DEF TxRef
    <3>2. BagToSet(queue'.inFlight) = BagToSet(queue.inFlight) \cup {Cancellation}
      BY <2>2, <3>1, <1>0, SendType DEF CancelBlockingTx
    <3>3. tx \in known /\ UNCHANGED <<daRequests, receipts>> /\ publisher.pc # "send"
      BY <2>2 DEF CancelBlockingTx, vars, known
    <3> QED
      BY <3>2, <3>3, <1>o
  <2>3. ASSUME NEW l1Head \in L1Number, NEW useBlobs \in ConfiguredDATypes,
               NEW r \in TxDataOutcome(mgr, l1Head, useBlobs, publisher.pi),
               PublishTx(l1Head, useBlobs, r)
        PROVE  \/ publisher'.pc = "send" /\ tx = publisher'.tx
               \/ tx \in BagToSet(daRequests')
               \/ \E ref \in BagToSet(queue'.inFlight) : tx = ref.id
               \/ receipts'.pc # "wait" /\ tx = receipts'.ref.id
    <3>1. publisher.pi \in PubInfo /\ useBlobs \in BOOLEAN /\ l1Head \in Nat
      BY <1>0, DATypesAreBoolean, ChainAssumption DEF L1Number, PublisherState
    <3>2. \/ r.tx = NoTx /\ mgr'.txChannels \subseteq mgr.txChannels
          \/ r.tx # NoTx /\ mgr'.txChannels \subseteq mgr.txChannels \cup {r.tx}
      <4>1. mgr.panic = "none" /\ mgr' = r.s /\ BooksInv(mgr)
        BY <2>3 DEF IInv, PublishTx, TxData, Running
      <4>2. \/ r.tx = NoTx /\ r.s.txChannels \subseteq mgr.txChannels
            \/ r.tx \in TxID /\ r.s.txChannels \subseteq mgr.txChannels \cup {r.tx}
        BY <3>1, <4>1, TxDataBooks
      <4> QED
        BY <4>1, <4>2, NoTxIsNone
    <3>3. UNCHANGED <<daRequests, queue, receipts>> /\ publisher.pc # "send"
      BY <2>3 DEF PublishTx
    <3>4. CASE tx \in known
      BY <3>3, <3>4, <1>o
    <3>5. CASE tx \notin known
      <4>1. r.tx # NoTx /\ tx = r.tx
        BY <3>2, <3>5 DEF known
      <4>2. publisher' = [publisher EXCEPT !.pc = "send", !.tx = r.tx]
        BY <2>3, <4>1 DEF PublishTx
      <4> QED
        BY <4>1, <4>2, <1>0 DEF PublisherState
    <3> QED
      BY <3>4, <3>5
  <2>4. CASE SendTransaction
    <3>1. publisher.tx \in TxID
      BY <2>4, <1>0 DEF PublisherState, SendTransaction
    <3>2. Ref(publisher.tx) \in TxRef /\ Ref(publisher.tx).id = publisher.tx
      BY <3>1, RefType
    <3>3. BagToSet(queue'.inFlight) = BagToSet(queue.inFlight) \cup {Ref(publisher.tx)}
      BY <2>4, framesFit, <3>2, <1>0, SendType DEF SendTransaction
    <3>4. tx \in known /\ UNCHANGED <<daRequests, receipts>>
      BY <2>4 DEF SendTransaction, vars, known
    <3> QED
      BY <3>2, <3>3, <3>4, <1>o
  <2>5. CASE PublishToAltDA
    <3>1. UNCHANGED <<queue, receipts>>
      BY <2>5 DEF PublishToAltDA
    <3>2. CASE daRequests' = BagAdd(daRequests, publisher.tx) /\ UNCHANGED vars
      <4>1. BagToSet(daRequests') = BagToSet(daRequests) \cup {publisher.tx} /\ tx \in known
        BY <3>2, <1>0, BagAddFacts DEF IsBagOf, vars, known
      <4> QED
        BY <3>1, <4>1, <1>o
    <3>3. CASE RecordFailedTx(publisher.tx) /\ UNCHANGED daRequests
      <4>1. tx \in known /\ tx # publisher.tx
        BY <3>3, ManagerTxs DEF known
      <4> QED
        BY <3>1, <3>3, <4>1, <1>o
    <3> QED
      BY <2>5, <3>2, <3>3 DEF PublishToAltDA
  <2> QED
    BY <1>2, <2>1, <2>2, <2>3, <2>4, <2>5 DEF PublishingLoop
<1>3. CASE Handlers
  <2>1. CASE CancelGroup
    <3>1. tx \in known /\ UNCHANGED <<publisher, daRequests, receipts>> /\ queue'.inFlight = queue.inFlight
      BY <2>1 DEF CancelGroup, vars, known
    <3> QED
      BY <3>1, <1>o
  <2>2. ASSUME NEW d \in BagToSet(daRequests), AltDAFails(d)
        PROVE  \/ publisher'.pc = "send" /\ tx = publisher'.tx
               \/ tx \in BagToSet(daRequests')
               \/ \E ref \in BagToSet(queue'.inFlight) : tx = ref.id
               \/ receipts'.pc # "wait" /\ tx = receipts'.ref.id
    <3>1. tx \in known /\ tx # d /\ UNCHANGED <<publisher, queue, receipts>>
      BY <2>2, ManagerTxs DEF AltDAFails, known
    <3>2. BagToSet(daRequests) \subseteq BagToSet(daRequests') \cup {d}
      BY <2>2, <1>0, BagRemoveFacts DEF AltDAFails, IsBagOf
    <3> QED
      BY <3>1, <3>2, <1>o
  <2>3. ASSUME NEW d \in BagToSet(daRequests), AltDASucceeds(d)
        PROVE  \/ publisher'.pc = "send" /\ tx = publisher'.tx
               \/ tx \in BagToSet(daRequests')
               \/ \E ref \in BagToSet(queue'.inFlight) : tx = ref.id
               \/ receipts'.pc # "wait" /\ tx = receipts'.ref.id
    <3>1. tx \in known /\ UNCHANGED <<publisher, receipts>>
      BY <2>3 DEF AltDASucceeds, vars, known
    <3>2. BagToSet(daRequests) \subseteq BagToSet(daRequests') \cup {d}
      BY <2>3, <1>0, BagRemoveFacts DEF AltDASucceeds, IsBagOf
    <3>3. d \in TxID
      BY <1>0 DEF IsBagOf
    <3>4. Ref(d) \in TxRef /\ Ref(d).id = d
      BY <3>3, RefType
    <3>5. BagToSet(queue'.inFlight) = BagToSet(queue.inFlight) \cup {Ref(d)}
      BY <2>3, <3>4, <1>0, SendType DEF AltDASucceeds
    <3> QED
      BY <3>1, <3>2, <3>4, <3>5, <1>o
  <2> QED
    BY <1>3, <2>1, <2>2, <2>3 DEF Handlers
<1>4. CASE ReceiptsLoop
  <2>1. ASSUME NEW ref \in BagToSet(queue.inFlight), NEW outcome \in Outcome,
               ReceiveReceipt(ref, outcome)
        PROVE  \/ publisher'.pc = "send" /\ tx = publisher'.tx
               \/ tx \in BagToSet(daRequests')
               \/ \E x \in BagToSet(queue'.inFlight) : tx = x.id
               \/ receipts'.pc # "wait" /\ tx = receipts'.ref.id
    <3>1. tx \in known /\ UNCHANGED <<publisher, daRequests>> /\ receipts.pc = "wait"
      BY <2>1 DEF ReceiveReceipt, vars, known
    <3>2. receipts'.pc # "wait" /\ receipts'.ref = ref
      BY <2>1 DEF ReceiveReceipt
    <3>3. BagToSet(queue.inFlight) \subseteq BagToSet(queue'.inFlight) \cup {ref}
      BY <2>1, <1>0, BagRemoveFacts DEF ReceiveReceipt, IsQueue, IsBagOf
    <3> QED
      BY <3>1, <3>2, <3>3, <1>o
  <2>2. CASE SetTxPoolState
    <3>1. tx \in known /\ UNCHANGED <<publisher, daRequests, queue>>
      BY <2>2 DEF SetTxPoolState, vars, known
    <3>2. receipts'.pc = "handle" /\ receipts'.ref = receipts.ref
      BY <2>2, <1>0 DEF SetTxPoolState, ReceiptsState
    <3> QED
      BY <3>1, <3>2, <1>o
  <2>3. CASE \E n \in L1Number : HandleReceipt(n)
    <3>1. tx \in known /\ tx # receipts.ref.id /\ UNCHANGED <<publisher, daRequests, queue>>
      BY <2>3, ManagerTxs DEF HandleReceipt, known
    <3> QED
      BY <3>1, <1>o
  <2> QED
    BY <1>4, <2>1, <2>2, <2>3 DEF ReceiptsLoop
<1>5. CASE Flush \/ UNCHANGED driverVars
  BY <1>5, <1>s DEF Flush, driverVars, loops, vars, known
<1>6. CASE \E o \in L1Number, useBlobs \in ConfiguredDATypes : RestartProcess(o, useBlobs)
  BY <1>6, <1>e, ManagerTxs, DATypesAreBoolean DEF RestartProcess
<1>7. CASE \E o \in L1Number : StopAndStart(o)
  BY <1>7, <1>e, ManagerTxs DEF StopAndStart
<1> QED
  BY <1>1, <1>2, <1>3, <1>4, <1>5, <1>6, <1>7 DEF DriverNext

-----------------------------------------------------------------------------
(* The transaction pool *)

\* CancellationTracked as a relation between the state of the pool, the place of
\* the publisher, the cancellations in flight and the place of the receipts loop.
CancelInv(pool, pub, n, rcpt) ==
  /\ n \in Nat /\ n <= 1
  /\ (pool = "cancelPending") <=> (pub = "cancel" \/ n = 1 \/ rcpt = "unblock")
  /\ ~(pub = "cancel" /\ n = 1) /\ ~(pub = "cancel" /\ rcpt = "unblock") /\ ~(n = 1 /\ rcpt = "unblock")
  /\ rcpt = "block" => pool = "good"

\* The three places a cancellation can be in, and the state of the pool, change
\* together: receiptsLoop acts on a state it read before the lock, and nobody
\* else changes that state in between.
LEMMA CancellationStep ==
  ASSUME IInv, LoopsTypeOK, CancellationTracked, [DriverNext]_driverVars
  PROVE  CancellationTracked'
<1> DEFINE copies == CopiesOf(Cancellation, queue.inFlight)
           copiesNext == CopiesOf(Cancellation, queue'.inFlight)
<1>0. /\ publisher \in PublisherState /\ IsBagOf(daRequests, TxID) /\ IsQueue(queue)
      /\ IsABag(queue.inFlight) /\ txpool \in TxPoolState /\ receipts \in ReceiptsState
  BY DEF LoopsTypeOK, IsQueue, IsBagOf
<1>j. copies \in Nat /\ (BagIn(Cancellation, queue.inFlight) <=> copies > 0)
  BY <1>0, BagInFacts
<1>b. /\ copiesNext \in Nat
      /\ BagIn(Cancellation, queue'.inFlight) <=> copiesNext > 0
  <2>1. IsABag(queue'.inFlight)
    BY LoopsTypeStep DEF LoopsTypeOK, IsQueue, IsBagOf
  <2> QED
    BY <2>1, BagInFacts
<1>c. CopiesOf(Cancellation, queue.inFlight) = copies /\ CopiesOf(Cancellation, queue'.inFlight) = copiesNext
  OBVIOUS
<1> HIDE DEF copies, copiesNext
<1>i. CancelInv(txpool.state, publisher.pc, copies, receipts.pc)
  <2>1. /\ (txpool.state = "cancelPending")
             <=> \/ publisher.pc = "cancel" \/ BagIn(Cancellation, queue.inFlight)
                 \/ receipts.pc = "unblock"
        /\ ~(publisher.pc = "cancel" /\ BagIn(Cancellation, queue.inFlight))
        /\ ~(publisher.pc = "cancel" /\ receipts.pc = "unblock")
        /\ ~(BagIn(Cancellation, queue.inFlight) /\ receipts.pc = "unblock")
        /\ receipts.pc = "block" => txpool.state = "good"
        /\ CopiesOf(Cancellation, queue.inFlight) <= 1
    BY Zenon DEF CancellationTracked
  <2>2. copies <= 1 /\ (BagIn(Cancellation, queue.inFlight) <=> copies = 1)
    BY <2>1, <1>c, <1>j
  <2> QED
    BY <2>1, <2>2, <1>j DEF CancelInv
<1>q. SUFFICES CancelInv(txpool'.state, publisher'.pc, copiesNext, receipts'.pc)
  <2>1. SUFFICES
        /\ (txpool'.state = "cancelPending")
             <=> \/ publisher'.pc = "cancel" \/ BagIn(Cancellation, queue'.inFlight)
                 \/ receipts'.pc = "unblock"
        /\ ~(publisher'.pc = "cancel" /\ BagIn(Cancellation, queue'.inFlight))
        /\ ~(publisher'.pc = "cancel" /\ receipts'.pc = "unblock")
        /\ ~(BagIn(Cancellation, queue'.inFlight) /\ receipts'.pc = "unblock")
        /\ receipts'.pc = "block" => txpool'.state = "good"
        /\ CopiesOf(Cancellation, queue'.inFlight) <= 1
    BY Zenon DEF CancellationTracked
  <2>2. copiesNext <= 1 /\ (BagIn(Cancellation, queue'.inFlight) <=> copiesNext = 1)
    BY <1>q, <1>b DEF CancelInv
  <2> QED
    BY <2>2, <1>q, <1>c DEF CancelInv
<1>s. CASE /\ publisher'.pc = publisher.pc \/ (publisher.pc # "cancel" /\ publisher'.pc # "cancel")
           /\ copiesNext = copies
           /\ UNCHANGED <<txpool, receipts>>
  BY <1>s, <1>i DEF CancelInv
<1>1. CASE LoadingLoop
  BY <1>1, <1>s DEF copies, copiesNext, LoadingLoop, Poll, LoadBlock, LoadFails, ClearAfterReorg, Signal
<1>2. CASE PublishingLoop
  <2>1. CASE TakeSignal \/ L1TipFails \/ PublishToAltDA
    <3>1. UNCHANGED <<queue, txpool, receipts>> /\ publisher.pc # "cancel"
      BY <2>1 DEF TakeSignal, L1TipFails, PublishToAltDA
    <3>2. publisher'.pc # "cancel"
      <4>1. CASE TakeSignal
        BY <4>1, <1>0 DEF TakeSignal, PublisherState
      <4>2. CASE L1TipFails
        BY <4>2 DEF L1TipFails, Waiting
      <4>3. CASE PublishToAltDA
        BY <4>3, <1>0 DEF PublishToAltDA, PublisherState
      <4> QED
        BY <2>1, <4>1, <4>2, <4>3
    <3> QED
      BY <3>1, <3>2, <1>s DEF copies, copiesNext
  <2>2. CASE CheckTxpool
    <3>1. /\ publisher.pc = "check" /\ UNCHANGED receipts
          /\ copiesNext = copies
      BY <2>2 DEF CheckTxpool, copies, copiesNext
    <3>2. CASE txpool.state = "blocked"
      <4>1. publisher'.pc = "cancel" /\ txpool'.state = "cancelPending"
        BY <2>2, <3>2, <1>0 DEF CheckTxpool, PublisherState, TxPoolState
      <4> QED
        BY <3>1, <3>2, <4>1, <1>i DEF CancelInv
    <3>3. CASE txpool.state # "blocked"
      <4>1. publisher'.pc # "cancel" /\ UNCHANGED txpool
        BY <2>2, <3>3, <1>0 DEF CheckTxpool, PublisherState, Waiting
      <4> QED
        BY <3>1, <4>1, <1>s
    <3> QED
      BY <3>2, <3>3
  <2>3. CASE CancelBlockingTx
    <3>1. Cancellation \in TxRef
      BY DEF TxRef
    <3>2. copiesNext = copies + 1
      BY <2>3, <3>1, <1>0, SendType DEF CancelBlockingTx, copies, copiesNext
    <3>3. publisher.pc = "cancel" /\ publisher'.pc = "wait" /\ UNCHANGED <<txpool, receipts>>
      BY <2>3 DEF CancelBlockingTx, Waiting
    <3> QED
      BY <3>2, <3>3, <1>i DEF CancelInv
  <2>4. ASSUME NEW l1Head, NEW useBlobs, NEW r, PublishTx(l1Head, useBlobs, r)
        PROVE  /\ publisher.pc # "cancel" /\ publisher'.pc # "cancel"
               /\ UNCHANGED <<queue, txpool, receipts>>
    BY <2>4, <1>0 DEF PublishTx, Waiting, PublisherState
  <2>5. CASE SendTransaction
    <3>1. publisher.tx \in TxID
      BY <2>5, <1>0 DEF PublisherState, SendTransaction
    <3>2. Ref(publisher.tx) \in TxRef /\ Ref(publisher.tx) # Cancellation
      BY <3>1, RefType
    <3>3. copiesNext = copies
      BY <2>5, <3>2, <1>0, SendType DEF SendTransaction, copies, copiesNext
    <3>4. publisher.pc = "send" /\ UNCHANGED <<txpool, receipts>>
      BY <2>5 DEF SendTransaction
    <3>5. publisher'.pc # "cancel"
      <4>1. \/ publisher' = [publisher EXCEPT !.pc = "check", !.tx = NoTx]
            \/ publisher' = Waiting
        BY <2>5 DEF SendTransaction
      <4>2. CASE publisher' = [publisher EXCEPT !.pc = "check", !.tx = NoTx]
        BY <4>2, <1>0 DEF PublisherState
      <4>3. CASE publisher' = Waiting
        BY <4>3 DEF Waiting
      <4> QED
        BY <4>1, <4>2, <4>3
    <3> QED
      BY <3>3, <3>4, <3>5, <1>s
  <2> QED
    BY <1>2, <2>1, <2>2, <2>3, <2>4, <2>5, <1>s DEF PublishingLoop, copies, copiesNext
<1>3. CASE Handlers
  <2>1. CASE CancelGroup
    BY <2>1, <1>s DEF CancelGroup, copies, copiesNext
  <2>2. ASSUME NEW tx \in BagToSet(daRequests), AltDAFails(tx) \/ AltDASucceeds(tx)
        PROVE  /\ copiesNext = copies
               /\ UNCHANGED <<publisher, txpool, receipts>>
    <3>1. CASE AltDAFails(tx)
      BY <3>1 DEF AltDAFails, copies, copiesNext
    <3>2. CASE AltDASucceeds(tx)
      <4>1. tx \in TxID
        BY <1>0 DEF IsBagOf
      <4>2. Ref(tx) \in TxRef /\ Ref(tx) # Cancellation
        BY <4>1, RefType
      <4> QED
        BY <3>2, <4>2, <1>0, SendType DEF AltDASucceeds, copies, copiesNext
    <3> QED
      BY <2>2, <3>1, <3>2
  <2> QED
    BY <1>3, <2>1, <2>2, <1>s DEF Handlers
<1>4. CASE ReceiptsLoop
  <2>1. ASSUME NEW ref \in BagToSet(queue.inFlight), NEW outcome \in Outcome,
               ReceiveReceipt(ref, outcome)
        PROVE  CancelInv(txpool'.state, publisher'.pc, copiesNext, receipts'.pc)
    <3>1. UNCHANGED <<publisher, txpool>> /\ receipts.pc = "wait"
      BY <2>1 DEF ReceiveReceipt
    <3>2. queue'.inFlight = BagRemove(queue.inFlight, ref) /\ BagIn(ref, queue.inFlight)
      BY <2>1 DEF ReceiveReceipt
    <3>3. CASE ref = Cancellation
      <4>1. copiesNext = copies - 1 /\ copies > 0
        BY <3>2, <3>3, <1>0, BagRemoveFacts, BagInFacts DEF copies, copiesNext
      <4>2. copies = 1 /\ txpool.state = "cancelPending" /\ publisher.pc # "cancel"
        BY <4>1, <1>i DEF CancelInv
      <4>3. receipts'.pc = "unblock"
        BY <2>1, <3>3, <4>2 DEF ReceiveReceipt, Cancellation
      <4> QED
        BY <3>1, <4>1, <4>2, <4>3 DEF CancelInv
    <3>4. CASE ref # Cancellation
      <4>1. copiesNext = copies
        BY <3>2, <3>4, <1>0, BagRemoveFacts DEF copies, copiesNext
      <4>2. ~ref.isCancel
        BY <3>4, <1>0 DEF IsQueue, IsBagOf, TxRef
      <4>3. \/ receipts'.pc = "block" /\ txpool.state = "good"
            \/ receipts'.pc = "handle"
        BY <2>1, <4>2 DEF ReceiveReceipt
      <4> QED
        BY <3>1, <4>1, <4>3, <1>i DEF CancelInv
    <3> QED
      BY <3>3, <3>4
  <2>2. CASE SetTxPoolState
    <3>1. /\ copiesNext = copies /\ UNCHANGED publisher
          /\ receipts'.pc = "handle"
      BY <2>2, <1>0 DEF SetTxPoolState, ReceiptsState, copies, copiesNext
    <3>2. \/ receipts.pc = "block" /\ txpool'.state = "blocked"
          \/ receipts.pc = "unblock" /\ txpool'.state = "good"
      <4>1. CASE receipts.pc = "block"
        <5>1. txpool' = [state |-> "blocked", blockedBlob |-> receipts.ref.isBlob]
          BY <2>2, <4>1 DEF SetTxPoolState
        <5> QED
          BY <4>1, <5>1
      <4>2. CASE receipts.pc # "block"
        <5>1. receipts.pc = "unblock" /\ txpool' = [txpool EXCEPT !.state = "good"]
          BY <2>2, <4>2, Zenon DEF SetTxPoolState
        <5> QED
          BY <5>1, <1>0 DEF TxPoolState
      <4> QED
        BY <4>1, <4>2
    <3> QED
      BY <3>1, <3>2, <1>i DEF CancelInv
  <2>3. CASE \E n \in L1Number : HandleReceipt(n)
    <3>1. /\ copiesNext = copies /\ UNCHANGED <<publisher, txpool>>
          /\ receipts.pc = "handle" /\ receipts'.pc = "wait"
      BY <2>3 DEF HandleReceipt, NoReceipt, copies, copiesNext
    <3> QED
      BY <3>1, <1>i DEF CancelInv
  <2> QED
    BY <1>4, <2>1, <2>2, <2>3 DEF ReceiptsLoop
<1>5. CASE Flush \/ UNCHANGED driverVars
  BY <1>5, <1>s DEF Flush, driverVars, loops, copies, copiesNext
<1>6. ASSUME NEW o \in L1Number, NEW useBlobs \in ConfiguredDATypes, RestartProcess(o, useBlobs)
      PROVE  /\ copiesNext = 0 /\ txpool'.state = "good"
             /\ publisher'.pc = "wait" /\ receipts'.pc = "wait"
  BY <1>6, <1>c, LoopsStartType DEF RestartProcess
<1>7. CASE \E o \in L1Number, useBlobs \in ConfiguredDATypes : RestartProcess(o, useBlobs)
  BY <1>6, <1>7 DEF CancelInv
<1>8. ASSUME NEW o \in L1Number, StopAndStart(o)
      PROVE  /\ copiesNext = 0 /\ txpool'.state = "good"
             /\ publisher'.pc = "wait" /\ receipts'.pc = "wait"
  BY <1>8, <1>c, LoopsStartType DEF StopAndStart
<1>9. CASE \E o \in L1Number : StopAndStart(o)
  BY <1>8, <1>9 DEF CancelInv
<1> QED
  BY <1>1, <1>2, <1>3, <1>4, <1>5, <1>7, <1>9 DEF DriverNext

-----------------------------------------------------------------------------
(* The theorems *)

\* The inductive invariant of the running batcher.
DriverInv == IInv /\ LoopsTypeOK /\ FittingTxsAccountedFor /\ CancellationTracked

\* A batcher that starts satisfies the invariant.
LEMMA DriverInitInv == DriverInit => DriverInv
<1> SUFFICES ASSUME DriverInit PROVE DriverInv
  OBVIOUS
<1>1. IInv /\ mgr.txChannels = {}
  <2>1. Init
    BY DEF DriverInit
  <2>2. mgr.txChannels = {}
    BY <2>1 DEF Init
  <2> QED
    BY <2>1, <2>2, InitIInv
<1>2. LoopsTypeOK /\ CopiesOf(Cancellation, queue.inFlight) = 0 /\ txpool.state = "good"
      /\ publisher.pc = "wait" /\ receipts.pc = "wait"
  <2>1. LoopsStart(loader, publishSignal, publisher, daRequests, queue, txpool, receipts)
    BY DEF DriverInit
  <2> QED
    BY <2>1, LoopsStartType DEF LoopsTypeOK
<1>3. ~BagIn(Cancellation, queue.inFlight)
  BY <1>2, BagInFacts DEF LoopsTypeOK, IsQueue, IsBagOf
<1>4. CancellationTracked
  BY <1>2, <1>3 DEF CancellationTracked
<1>5. FittingTxsAccountedFor
  BY <1>1 DEF FittingTxsAccountedFor, TxsAccountedFor
<1> QED
  BY <1>1, <1>2, <1>4, <1>5 DEF DriverInv

\* Every step of every goroutine keeps the invariant.
LEMMA DriverStepInv ==
  DriverInv /\ [DriverNext]_driverVars /\ framesFit' = framesFit => DriverInv'
<1> SUFFICES ASSUME DriverInv, [DriverNext]_driverVars, framesFit' = framesFit PROVE DriverInv'
  OBVIOUS
<1>1. IInv'
  BY DriverStepIsManagerStep, NextIInv DEF DriverInv
<1>2. LoopsTypeOK'
  BY LoopsTypeStep DEF DriverInv
<1>3. FittingTxsAccountedFor'
  BY TxsStep DEF DriverInv, FittingTxsAccountedFor
<1>4. CancellationTracked'
  BY CancellationStep DEF DriverInv
<1> QED
  BY <1>1, <1>2, <1>3, <1>4 DEF DriverInv

\* The invariant holds in every interleaving of the loops, handlers and DA requests.
THEOREM DriverInvariant == DriverSpec => []DriverInv
<1>1. DriverInv /\ [DriverNext /\ UNCHANGED config]_<<driverVars, config>> => DriverInv'
  BY DriverStepInv DEF driverVars, config
<1> QED
  BY <1>1, DriverInitInv, PTL DEF DriverSpec

\* The loops of driver.go use the channel manager as its specification allows:
\* whatever they do, the manager sees one of its calls or nothing.
THEOREM DriverImplementsManager == DriverSpec => Spec
<1>1. DriverInit => Init
  BY DEF DriverInit
<1>2. DriverInv /\ [DriverNext /\ UNCHANGED config]_<<driverVars, config>> => [Next]_vars
  BY DriverStepIsManagerStep DEF DriverInv, driverVars, config
<1> QED
  BY <1>1, <1>2, DriverInvariant, PTL DEF DriverSpec, Spec

\* The state of every loop, and the manager behind them, keep their types.
THEOREM DriverTypeCorrect == DriverSpec => []DriverTypeOK
<1>1. DriverInv => DriverTypeOK
  BY DEF DriverInv, DriverTypeOK, IInv, BooksInv, TypeOK
<1> QED
  BY <1>1, DriverInvariant, PTL

\* If a frame fits in a blob, as initChannelConfig sees to, no transaction taken
\* out of a channel is forgotten: until the manager has heard of its receipt some
\* goroutine holds it, also with Alt DA, with a full queue, and while the errgroup
\* is cancelled.
THEOREM NoTxLost == DriverSpec => []FittingTxsAccountedFor
<1>1. DriverInv => FittingTxsAccountedFor
  BY DEF DriverInv
<1> QED
  BY <1>1, DriverInvariant, PTL

\* The pool waits for a cancellation exactly when there is one.
THEOREM PoolStateTracked == DriverSpec => []CancellationTracked
<1>1. DriverInv => CancellationTracked
  BY DEF DriverInv
<1> QED
  BY <1>1, DriverInvariant, PTL

\* In the running batcher a channel that isFullySubmitted has every frame in a
\* confirmed transaction.
THEOREM DriverFullSubmission == DriverSpec => []FullySubmittedIsConfirmed
<1> QED
  BY DriverImplementsManager, FullSubmission, PTL

\* In the running batcher, whatever the loops do between two receipts, the blocks
\* held form a chain, the queued channels hold every block below the cursor once,
\* frames keep their groups, and closed channels keep their contents.
THEOREM DriverContents ==
  DriverSpec => /\ [](BlocksFormChain /\ ChannelsCoverCursor /\ TxsDoNotOverlap)
                /\ ClosedChannelsKeepContents
<1> QED
  BY DriverImplementsManager, ChainHeld, CursorCovered, GroupsDisjoint, ClosedKept, PTL
=============================================================================
