---------------------------- MODULE BatcherDriver ----------------------------
(***************************************************************************)
(* The goroutines of the running BatchSubmitter                            *)
(* (op-batcher/batcher/driver.go) and the transaction queue they share     *)
(* (op-service/txmgr/queue.go):                                            *)
(*                                                                         *)
(*   blockLoadingLoop  polls the sequencer, prunes, loads blocks, signals  *)
(*   publishingLoop    takes a signal, turns the state into transactions   *)
(*   handlers          one per transaction in flight, reports its receipt  *)
(*   receiptsLoop      applies the receipts to the state                   *)
(*   altDA requests    one per frame posted to the DA server first         *)
(*                                                                         *)
(* They meet in the channel manager, in the txpool state and in the signal *)
(* channel, each behind its own lock, and every unlock is a point where    *)
(* the others may run.  The sequencer and L1 are the environment: a sync   *)
(* status is any pair of heads, a block fetched is any block of the height *)
(* asked for, and a receipt reports any outcome.                           *)
(***************************************************************************)
EXTENDS ChannelManager, Bags, BagsExt

CONSTANTS
  MaxPendingTransactions,   \* CLIConfig.MaxPendingTransactions, 0 for no limit
  SignalEvery,              \* blocks loaded between two early signals, 100 in the code
  MaxConcurrentDARequests,  \* CLIConfig.MaxConcurrentDARequests, 0 for no limit
  DATypes                   \* the values of UseBlobs the config provider may choose without Alt DA

ASSUME DriverAssumption ==
  /\ MaxPendingTransactions \in Nat
  /\ SignalEvery \in Nat \ {0}
  /\ MaxConcurrentDARequests \in Nat
  /\ DATypes \subseteq BOOLEAN

VARIABLES
  loader,         \* blockLoadingLoop: where it is, and the heights left to load
  publishSignal,  \* the channel of pubInfo, with room for one
  publisher,      \* publishingLoop: where it is, its pubInfo and transaction
  daRequests,     \* bag of transactions whose data is being posted to the DA server
  queue,          \* txmgr.Queue: bag of transactions in flight, state of the errgroup
  txpool,         \* txpoolState and txpoolBlockedBlob
  receipts,       \* receiptsLoop: where it is, and the receipt it holds
  useAltDA,       \* CLIConfig.UseAltDA, chosen when the batcher is configured
  framesFit       \* a frame of the configured MaxFrameSize fits in a blob: so
                  \* unless TestUseMaxTxSizeForBlobs sets another size

loops == <<loader, publishSignal, publisher, daRequests, queue, txpool, receipts>>
driverVars == <<vars, loops>>
config == <<useAltDA, framesFit>>

\* Alt DA is not used with blobs (initChannelConfig).
ConfiguredDATypes == IF useAltDA THEN {FALSE} ELSE DATypes

NoSignal == [forcePublish |-> FALSE, ignoreMaxChannelDuration |-> FALSE]

\* txRef.  A cancellation carries no frames.
Cancellation == [id |-> NoTx, isCancel |-> TRUE, isBlob |-> FALSE]
TxRef == [id : TxID, isCancel : {FALSE}, isBlob : BOOLEAN] \cup {Cancellation}

\* "reserved" is the error txpool.ErrAlreadyReserved.
Outcome == {"confirmed", "failed", "reserved"}

-----------------------------------------------------------------------------
(* The signal channel and the queue *)

\* Mutant: a channel without a bound.
TryPublishSignalUnbounded(value) == publishSignal' = Append(publishSignal, value)

\* Not blocking: a signal is dropped if one is waiting.
TryPublishSignal(value) ==
  publishSignal' = IF publishSignal = <<>> THEN <<value>> ELSE publishSignal

\* Queue.Send waits for a slot.  Once a handler returned an error the group's
\* context is cancelled, and Send waits for all its handlers and opens a new one.
\* Here Send is one step; TxQueue has its steps and what may come between them.
MaySend ==
  IF queue.group = "cancelled" THEN queue.inFlight = EmptyBag
  ELSE MaxPendingTransactions = 0 \/ BagCardinality(queue.inFlight) < MaxPendingTransactions

Send(ref) ==
  /\ MaySend
  /\ queue' = [ inFlight |-> BagAdd(queue.inFlight, ref),
                group |-> IF queue.group = "cancelled" THEN "ok" ELSE queue.group ]

\* The error of a handler cancels the group after the receipt was delivered.
CancelGroup ==
  /\ Running
  /\ queue.group = "failing"
  /\ queue' = [inFlight |-> queue.inFlight, group |-> "cancelled"]
  /\ UNCHANGED <<vars, loader, publishSignal, publisher, daRequests, txpool, receipts>>

-----------------------------------------------------------------------------
(* blockLoadingLoop *)

\* The loop between two ticks, when it has no heights left to load.
LoaderAt(pc) == [pc |-> pc, next |-> 0, end |-> 0, loaded |-> 0]

\* One tick: syncAndPrune, and what to load.  Out of sync, nothing is loaded.
Poll(ss) ==
  /\ Running
  /\ loader.pc = "poll"
  /\ \/ /\ OutOfSync(ss, prevCurrentL1)
        /\ loader' = LoaderAt("signal")
        /\ UNCHANGED vars
     \/ /\ SyncAndPrune(ss)
        /\ LET range == BlocksToLoad(mgr, ss)
           IN  loader' = IF range[1] <= range[2]
                         THEN [pc |-> "load", next |-> range[1], end |-> range[2], loaded |-> 0]
                         ELSE LoaderAt("signal")
  /\ UNCHANGED <<publishSignal, publisher, daRequests, queue, txpool, receipts>>

\* loadBlockIntoState for the next height, and the early signal of
\* loadBlocksIntoState.  A block that does not extend the tip is a reorg.
LoadBlock(b) ==
  /\ Running
  /\ loader.pc = "load"
  /\ Number[b] = loader.next
  /\ \/ /\ AddL2Block(b)
        /\ loader' = IF loader.next = loader.end THEN LoaderAt("signal")
                     ELSE [loader EXCEPT !.next = @ + 1, !.loaded = @ + 1]
        /\ IF (loader.loaded + 1) % SignalEvery = 0
           THEN TryPublishSignal([forcePublish |-> FALSE,
                                  ignoreMaxChannelDuration |-> loader.next < loader.end])
           ELSE UNCHANGED publishSignal
     \/ /\ ~ExtendsTip(b)
        /\ loader' = LoaderAt("reorg")
        /\ UNCHANGED <<vars, publishSignal>>
  /\ UNCHANGED <<publisher, daRequests, queue, txpool, receipts>>

\* The block could not be fetched: try again on the next tick, without a signal.
LoadFails ==
  /\ Running
  /\ loader.pc = "load"
  /\ loader' = LoaderAt("poll")
  /\ UNCHANGED <<vars, publishSignal, publisher, daRequests, queue, txpool, receipts>>

\* waitNodeSyncAndClearState, after which the tick ends without a signal.  The
\* other loops run on while it waits.
ClearAfterReorg(l1Origin) ==
  /\ loader.pc = "reorg"
  /\ ClearState(l1Origin)
  /\ loader' = LoaderAt("poll")
  /\ UNCHANGED <<publishSignal, publisher, daRequests, queue, txpool, receipts>>

Signal ==
  /\ Running
  /\ loader.pc = "signal"
  /\ TryPublishSignal(NoSignal)
  /\ loader' = LoaderAt("poll")
  /\ UNCHANGED <<vars, publisher, daRequests, queue, txpool, receipts>>

\* The admin RPC.
Flush ==
  /\ Running
  /\ TryPublishSignal([NoSignal EXCEPT !.forcePublish = TRUE])
  /\ UNCHANGED <<vars, loader, publisher, daRequests, queue, txpool, receipts>>

-----------------------------------------------------------------------------
(* publishingLoop *)

\* The loop between two signals.
Waiting == [pc |-> "wait", pi |-> NoSignal, tx |-> NoTx]

TakeSignal ==
  /\ Running
  /\ publisher.pc = "wait"
  /\ publishSignal # <<>>
  /\ publisher' = [publisher EXCEPT !.pc = "check", !.pi = publishSignal[1]]
  /\ publishSignal' = <<>>
  /\ UNCHANGED <<vars, loader, daRequests, queue, txpool, receipts>>

\* Mutant: the pool stays blocked while the cancellation is sent.
CheckTxpoolStaysBlocked ==
  /\ Running
  /\ publisher.pc = "check"
  /\ publisher' = CASE txpool.state = "blocked" -> [publisher EXCEPT !.pc = "cancel"]
                    [] txpool.state = "good"    -> [publisher EXCEPT !.pc = "txdata"]
                    [] OTHER                    -> Waiting
  /\ UNCHANGED <<vars, loader, publishSignal, daRequests, queue, txpool, receipts>>

\* checkTxpool: a blocked pool is cancelled first, and publishing ends.
CheckTxpool ==
  /\ Running
  /\ publisher.pc = "check"
  /\ \/ /\ txpool.state = "blocked"
        /\ txpool' = [txpool EXCEPT !.state = "cancelPending"]
        /\ publisher' = [publisher EXCEPT !.pc = "cancel"]
     \/ /\ txpool.state # "blocked"
        /\ publisher' = IF txpool.state = "good" THEN [publisher EXCEPT !.pc = "txdata"] ELSE Waiting
        /\ UNCHANGED txpool
  /\ UNCHANGED <<vars, loader, publishSignal, daRequests, queue, receipts>>

CancelBlockingTx ==
  /\ Running
  /\ publisher.pc = "cancel"
  /\ Send(Cancellation)
  /\ publisher' = Waiting
  /\ UNCHANGED <<vars, loader, publishSignal, daRequests, txpool, receipts>>

\* publishTxToL1 up to the unlock of the channel manager.  The L1 head was read
\* before the lock.  Without a transaction publishStateToL1 returns.
PublishTx(l1Head, useBlobs, r) ==
  /\ publisher.pc = "txdata"
  /\ TxData(l1Head, useBlobs, publisher.pi, r)
  /\ publisher' = IF r.tx = NoTx THEN Waiting
                  ELSE [publisher EXCEPT !.pc = "send", !.tx = r.tx]
  /\ UNCHANGED <<loader, publishSignal, daRequests, queue, txpool, receipts>>

L1TipFails ==
  /\ Running
  /\ publisher.pc = "txdata"
  /\ publisher' = Waiting
  /\ UNCHANGED <<vars, loader, publishSignal, daRequests, queue, txpool, receipts>>

IsBlob(tx) == mgr.chan[tx.ch].useBlobs

Ref(tx) == [id |-> tx, isCancel |-> FALSE, isBlob |-> IsBlob(tx)]

\* sendTransaction without Alt DA.  The error of blobTxCandidate, for a frame too
\* long for a blob, ends publishStateToL1; nothing puts the frames back.
SendTransaction ==
  /\ Running
  /\ publisher.pc = "send"
  /\ ~useAltDA
  /\ \/ /\ Send(Ref(publisher.tx))
        /\ publisher' = [publisher EXCEPT !.pc = "check", !.tx = NoTx]
     \/ /\ IsBlob(publisher.tx) /\ ~framesFit
        /\ publisher' = Waiting
        /\ UNCHANGED queue
  /\ UNCHANGED <<vars, loader, publishSignal, daRequests, txpool, receipts>>

\* channelManager.TxFailed and TxConfirmed ignore a transaction they do not know.
RecordFailedTx(tx) ==
  IF tx \in mgr.txChannels THEN TxFailed(tx) ELSE Running /\ UNCHANGED vars

RecordConfirmedTx(tx, l1BlockNum) ==
  IF tx \in mgr.txChannels THEN TxConfirmed(tx, l1BlockNum) ELSE Running /\ UNCHANGED vars

\* publishToAltDAAndL1: a goroutine posts the data, unless too many do already;
\* then the frames go back to the channel.
PublishToAltDA ==
  /\ Running
  /\ publisher.pc = "send"
  /\ useAltDA
  /\ IF MaxConcurrentDARequests = 0 \/ BagCardinality(daRequests) < MaxConcurrentDARequests
     THEN daRequests' = BagAdd(daRequests, publisher.tx) /\ UNCHANGED vars
     ELSE RecordFailedTx(publisher.tx) /\ UNCHANGED daRequests
  /\ publisher' = [publisher EXCEPT !.pc = "check", !.tx = NoTx]
  /\ UNCHANGED <<loader, publishSignal, queue, txpool, receipts>>

AltDAFails(tx) ==
  /\ BagIn(tx, daRequests)
  /\ RecordFailedTx(tx)
  /\ daRequests' = BagRemove(daRequests, tx)
  /\ UNCHANGED <<loader, publishSignal, publisher, queue, txpool, receipts>>

AltDASucceeds(tx) ==
  /\ Running
  /\ BagIn(tx, daRequests)
  /\ Send(Ref(tx))
  /\ daRequests' = BagRemove(daRequests, tx)
  /\ UNCHANGED <<vars, loader, publishSignal, publisher, txpool, receipts>>

-----------------------------------------------------------------------------
(* receiptsLoop *)

NoReceipt == [pc |-> "wait", ref |-> Cancellation, outcome |-> "confirmed"]

\* A handler hands over its receipt.  The loop reads txpoolState without the
\* lock and decides what to write; the write is a step of its own.
ReceiveReceipt(ref, outcome) ==
  /\ Running
  /\ receipts.pc = "wait"
  /\ BagIn(ref, queue.inFlight)
  /\ queue' = [ inFlight |-> BagRemove(queue.inFlight, ref),
                group |-> IF outcome # "confirmed" /\ queue.group = "ok" THEN "failing"
                          ELSE queue.group ]
  /\ receipts' = [ ref |-> ref, outcome |-> outcome,
                   pc |-> CASE outcome = "reserved" /\ txpool.state = "good" -> "block"
                            [] ~(outcome = "reserved" /\ txpool.state = "good")
                               /\ ref.isCancel /\ txpool.state = "cancelPending" -> "unblock"
                            [] OTHER -> "handle" ]
  /\ UNCHANGED <<vars, loader, publishSignal, publisher, daRequests, txpool>>

SetTxPoolState ==
  /\ Running
  /\ \/ /\ receipts.pc = "block"
        /\ txpool' = [state |-> "blocked", blockedBlob |-> receipts.ref.isBlob]
     \/ /\ receipts.pc = "unblock"
        /\ txpool' = [txpool EXCEPT !.state = "good"]
  /\ receipts' = [receipts EXCEPT !.pc = "handle"]
  /\ UNCHANGED <<vars, loader, publishSignal, publisher, daRequests, queue>>

\* Mutant: the failure of a transaction that found the pool blocked is dropped.
HandleReceiptDropsReserved(l1BlockNum) ==
  /\ receipts.pc = "handle"
  /\ CASE receipts.outcome = "confirmed" -> RecordConfirmedTx(receipts.ref.id, l1BlockNum)
       [] receipts.outcome = "failed"    -> RecordFailedTx(receipts.ref.id)
       [] receipts.outcome = "reserved"  -> Running /\ UNCHANGED vars
  /\ receipts' = NoReceipt
  /\ UNCHANGED <<loader, publishSignal, publisher, daRequests, queue, txpool>>

HandleReceipt(l1BlockNum) ==
  /\ receipts.pc = "handle"
  /\ IF receipts.outcome = "confirmed"
     THEN RecordConfirmedTx(receipts.ref.id, l1BlockNum)
     ELSE RecordFailedTx(receipts.ref.id)
  /\ receipts' = NoReceipt
  /\ UNCHANGED <<loader, publishSignal, publisher, daRequests, queue, txpool>>

-----------------------------------------------------------------------------
(* The process *)

\* StartBatchSubmitting on a fresh state: no loop has done anything.
LoopsStart(ld, ps, pb, da, qu, tp, rc) ==
  /\ ld = LoaderAt("poll")
  /\ ps = <<>>
  /\ pb = Waiting
  /\ da = EmptyBag
  /\ qu = [inFlight |-> EmptyBag, group |-> "ok"]
  /\ tp = [state |-> "good", blockedBlob |-> FALSE]
  /\ rc = NoReceipt

\* The process crashes, or was stopped by a panic, and comes up again.
RestartProcess(l1Origin, useBlobs) ==
  /\ Restart(l1Origin, useBlobs)
  /\ LoopsStart(loader', publishSignal', publisher', daRequests', queue', txpool', receipts')

\* The admin RPC stops the loops, which drain, and starts them again on a cleared
\* state.  BatcherLifecycle has the steps of the two calls.
StopAndStart(l1Origin) ==
  /\ ClearState(l1Origin)
  /\ LoopsStart(loader', publishSignal', publisher', daRequests', queue', txpool', receipts')

DriverInit ==
  /\ Init
  /\ useAltDA \in BOOLEAN /\ framesFit \in BOOLEAN
  /\ useAltDA => framesFit
  /\ mgr.useBlobs \in ConfiguredDATypes
  /\ LoopsStart(loader, publishSignal, publisher, daRequests, queue, txpool, receipts)

LoadingLoop ==
  \/ \E ss \in SyncStatus : Poll(ss)
  \/ \E b \in Block : LoadBlock(b)
  \/ LoadFails
  \/ \E o \in L1Number : ClearAfterReorg(o)
  \/ Signal

PublishingLoop ==
  \/ TakeSignal
  \/ CheckTxpool
  \/ CancelBlockingTx
  \/ \E l1Head \in L1Number, useBlobs \in ConfiguredDATypes :
       \E r \in TxDataOutcome(mgr, l1Head, useBlobs, publisher.pi) : PublishTx(l1Head, useBlobs, r)
  \/ L1TipFails
  \/ SendTransaction
  \/ PublishToAltDA

Handlers ==
  \/ CancelGroup
  \/ \E tx \in BagToSet(daRequests) : AltDAFails(tx) \/ AltDASucceeds(tx)

ReceiptsLoop ==
  \/ \E ref \in BagToSet(queue.inFlight), outcome \in Outcome : ReceiveReceipt(ref, outcome)
  \/ SetTxPoolState
  \/ \E n \in L1Number : HandleReceipt(n)

DriverNext ==
  \/ LoadingLoop
  \/ PublishingLoop
  \/ Handlers
  \/ ReceiptsLoop
  \/ Flush
  \/ \E o \in L1Number : StopAndStart(o)
  \/ \E o \in L1Number, useBlobs \in ConfiguredDATypes : RestartProcess(o, useBlobs)

DriverSpec == DriverInit /\ [][DriverNext /\ UNCHANGED config]_<<driverVars, config>>
-----------------------------------------------------------------------------
(* Properties *)

CopiesOf(ref, bag) == IF BagIn(ref, bag) THEN bag[ref] ELSE 0

LoaderState == [pc : {"poll", "load", "reorg", "signal"}, next : Nat, end : Nat, loaded : Nat]
SignalState == {<<>>} \cup {<<pi>> : pi \in PubInfo}
PublisherState ==
  {p \in [ pc : {"wait", "check", "cancel", "txdata", "send"}, pi : PubInfo, tx : TxID \cup {NoTx} ] :
     p.pc = "send" => p.tx # NoTx}
IsBagOf(bag, S) == IsABag(bag) /\ BagToSet(bag) \subseteq S
IsQueue(q) == IsBagOf(q.inFlight, TxRef) /\ q.group \in {"ok", "failing", "cancelled"}
TxPoolState == [state : {"good", "blocked", "cancelPending"}, blockedBlob : BOOLEAN]
ReceiptsState == [pc : {"wait", "block", "unblock", "handle"}, ref : TxRef, outcome : Outcome]

LoopsTypeOK ==
  /\ loader \in LoaderState
  /\ publishSignal \in SignalState
  /\ publisher \in PublisherState
  /\ IsBagOf(daRequests, TxID)
  /\ IsQueue(queue)
  /\ txpool \in TxPoolState
  /\ receipts \in ReceiptsState

\* Every loop is at one of its steps, the channel holds at most one signal, and
\* what is sent is a transaction the manager handed out or a cancellation.
DriverTypeOK == TypeOK /\ LoopsTypeOK

\* Transactions some goroutine still has to report on.
Outstanding ==
  {tx \in {publisher.tx} : publisher.pc = "send"}
    \cup BagToSet(daRequests)
    \cup {ref.id : ref \in BagToSet(queue.inFlight)}
    \cup {tx \in {receipts.ref.id} : receipts.pc # "wait"}

\* "This pulls data out of the channel, so we need to make sure to put it back
\* if ever da or txmgr requests fail" (publishTxToL1): every transaction the
\* manager waits for is on its way to the receipts loop, so its channel cannot
\* be left with frames that are neither confirmed nor ever sent again.  The
\* error of blobTxCandidate breaks this.
TxsAccountedFor == mgr.txChannels \subseteq Outstanding

\* With the frame size initChannelConfig sets for blobs that error cannot come,
\* and every other failure after the dequeue (no DA slot, a DA error, a failed
\* send, a cancelled group, a reserved pool) gives the frames back.
FittingTxsAccountedFor == framesFit => TxsAccountedFor

\* The unlocked reads of txpoolState in receiptsLoop are harmless: the pool
\* waits for a cancellation exactly when one is about to be sent, in flight, or
\* reported and not yet acted on, and there is never a second one.
CancellationTracked ==
  LET sending == publisher.pc = "cancel"
      sent    == BagIn(Cancellation, queue.inFlight)
      acting  == receipts.pc = "unblock"
  IN  /\ txpool.state = "cancelPending" <=> (sending \/ sent \/ acting)
      /\ ~(sending /\ sent) /\ ~(sending /\ acting) /\ ~(sent /\ acting)
      /\ receipts.pc = "block" => txpool.state = "good"
      /\ CopiesOf(Cancellation, queue.inFlight) <= 1
=============================================================================
