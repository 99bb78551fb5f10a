-------------------------- MODULE BatcherLifecycle --------------------------
(***************************************************************************)
(* Starting, stopping and flushing the batcher:                            *)
(* BatchSubmitter.StartBatchSubmitting, StopBatchSubmitting and Flush      *)
(* (op-batcher/batcher/driver.go), called by the admin RPC, by             *)
(* BatcherService.Start / Stop / Kill and by the throttler, and the way    *)
(* the loops come up and go down: contexts, the WaitGroup, and who closes  *)
(* which channel.  What the loops do with blocks and transactions is in    *)
(* BatcherDriver; how the queue drains is in TxQueue.                      *)
(***************************************************************************)
EXTENDS Naturals

CONSTANTS
  Caller,        \* goroutines that call Start, Stop and Flush
  NoCaller,      \* l.mutex is free
  WaitNodeSync,  \* CLIConfig.WaitNodeSync
  Throttling     \* ThrottleParams.LowerThreshold > 0

ASSUME LifecycleAssumption ==
  /\ NoCaller \notin Caller
  /\ WaitNodeSync \in BOOLEAN
  /\ Throttling \in BOOLEAN

VARIABLES
  caller,         \* [Caller -> where it is in its call, and whether its ctx is done]
  mutex,          \* holder of l.mutex
  running,        \* l.running
  shutdown,       \* l.shutdownCtx is cancelled
  killed,         \* l.killCtx is cancelled
  publishSignal,  \* l.publishSignal: nil, open or closed, and whether a signal waits
  loader,         \* blockLoadingLoop
  publisher,      \* publishingLoop
  inFlight,       \* DA requests or transactions of the publishing loop are in flight
  receipts,       \* receiptsLoop
  throttler       \* throttlingLoop and its endpoint goroutines

calls == <<caller, mutex, running>>
contexts == <<shutdown, killed>>
loops == <<publishSignal, loader, publisher, inFlight, receipts, throttler>>
vars == <<calls, contexts, loops>>

CallerState ==
  [ pc : {"idle", "start", "clear", "genesis", "sync", "launch", "stop", "join",
          "flush", "signal", "panicked"},
    ctxDone : BOOLEAN ]

At(c, pc) == caller[c].pc = pc
Goto(c, pc) == caller' = [caller EXCEPT ![c].pc = pc]
Returns(c) == caller' = [caller EXCEPT ![c] = [pc |-> "idle", ctxDone |-> FALSE]]

-----------------------------------------------------------------------------
(* StartBatchSubmitting *)

CallStart(c) ==
  /\ At(c, "idle")
  /\ Goto(c, "start")
  /\ UNCHANGED <<mutex, running, contexts, loops>>

\* Mutant: a second start is not refused.
LockStartUnchecked(c) ==
  /\ At(c, "start")
  /\ mutex = NoCaller
  /\ Goto(c, "clear")
  /\ mutex' = c
  /\ running' = TRUE
  /\ shutdown' = FALSE
  /\ killed' = FALSE
  /\ UNCHANGED loops

\* Mutant: the kill context of the last run is used again.
LockStartOldContext(c) ==
  /\ At(c, "start")
  /\ mutex = NoCaller
  /\ \/ running /\ Returns(c) /\ UNCHANGED <<mutex, running, contexts>>
     \/ /\ ~running
        /\ Goto(c, "clear")
        /\ mutex' = c
        /\ running' = TRUE
        /\ shutdown' = FALSE
        /\ UNCHANGED killed
  /\ UNCHANGED loops

\* With the lock: refused if running, else new contexts, and the lock is kept.
LockStart(c) ==
  /\ At(c, "start")
  /\ mutex = NoCaller
  /\ \/ running /\ Returns(c) /\ UNCHANGED <<mutex, running, contexts>>
     \/ /\ ~running
        /\ Goto(c, "clear")
        /\ mutex' = c
        /\ running' = TRUE
        /\ shutdown' = FALSE
        /\ killed' = FALSE
  /\ UNCHANGED loops

\* clearState returns when the node answered, or when shutdownCtx is done.
ClearState(c) ==
  /\ At(c, "clear")
  /\ Goto(c, "genesis")
  /\ UNCHANGED <<mutex, running, contexts, loops>>

\* waitForL2Genesis, until the genesis time.  Its other exit, shutdownCtx done,
\* is StartFails.
GenesisReached(c) ==
  /\ At(c, "genesis")
  /\ Goto(c, IF WaitNodeSync THEN "sync" ELSE "launch")
  /\ UNCHANGED <<mutex, running, contexts, loops>>

NodeSynced(c) ==
  /\ At(c, "sync")
  /\ Goto(c, "launch")
  /\ UNCHANGED <<mutex, running, contexts, loops>>

\* waitForL2Genesis was interrupted or waitNodeSync failed.  Start gives up the
\* lock and returns the error; l.running stays true.
StartFails(c) ==
  /\ At(c, "sync") \/ (At(c, "genesis") /\ shutdown)
  /\ Returns(c)
  /\ mutex' = NoCaller
  /\ UNCHANGED <<running, contexts, loops>>

Launch(c) ==
  /\ At(c, "launch")
  /\ Returns(c)
  /\ mutex' = NoCaller
  /\ publishSignal' = [chan |-> "open", full |-> FALSE]
  /\ loader' = "select"
  /\ publisher' = "wait"
  /\ receipts' = "range"
  /\ throttler' = IF Throttling THEN "range" ELSE "off"
  /\ UNCHANGED <<running, contexts, inFlight>>

-----------------------------------------------------------------------------
(* StopBatchSubmitting *)

\* Service.Kill and the throttler pass a ctx that is already done, or is by the
\* time the call gets the lock.
CallStop(c, ctxDone) ==
  /\ At(c, "idle")
  /\ caller' = [caller EXCEPT ![c] = [pc |-> "stop", ctxDone |-> ctxDone]]
  /\ UNCHANGED <<mutex, running, contexts, loops>>

LockStop(c) ==
  /\ At(c, "stop")
  /\ mutex = NoCaller
  /\ \/ ~running /\ Returns(c) /\ UNCHANGED <<mutex, running, shutdown>>
     \/ /\ running
        /\ Goto(c, "join")
        /\ mutex' = c
        /\ running' = FALSE
        /\ shutdown' = TRUE
  /\ UNCHANGED <<killed, loops>>

\* The caller's ctx runs out: it was interrupted, or its timeout passed.
CtxDone(c) ==
  /\ caller[c].pc \in {"stop", "join"}
  /\ ~caller[c].ctxDone
  /\ caller' = [caller EXCEPT ![c].ctxDone = TRUE]
  /\ UNCHANGED <<mutex, running, contexts, loops>>

\* Mutant: the stop ignores the ctx it is given.
CancelKillNever(c) ==
  /\ At(c, "join")
  /\ FALSE
  /\ UNCHANGED vars

\* The goroutine that StopBatchSubmitting starts to watch it.
CancelKill(c) ==
  /\ At(c, "join")
  /\ caller[c].ctxDone
  /\ ~killed
  /\ killed' = TRUE
  /\ UNCHANGED <<calls, shutdown, loops>>

\* wg counts the loops that have not called Done.
WgDone ==
  /\ loader \in {"done", "off"} /\ publisher \in {"done", "off"}
  /\ receipts = "off" /\ throttler = "off"

\* wg.Wait, then cancelKillCtx, then the lock is given up.
Join(c) ==
  /\ At(c, "join")
  /\ WgDone
  /\ Returns(c)
  /\ mutex' = NoCaller
  /\ killed' = TRUE
  /\ UNCHANGED <<running, shutdown, loops>>

-----------------------------------------------------------------------------
(* Flush, which takes no lock *)

CallFlush(c) ==
  /\ At(c, "idle")
  /\ Goto(c, "flush")
  /\ UNCHANGED <<mutex, running, contexts, loops>>

CheckRunning(c) ==
  /\ At(c, "flush")
  /\ IF running THEN Goto(c, "signal") ELSE Returns(c)
  /\ UNCHANGED <<mutex, running, contexts, loops>>

\* tryPublishSignal on whatever l.publishSignal is by now: nil and full channels
\* take nothing, a closed one panics.
FlushSignal(c) ==
  /\ At(c, "signal")
  /\ IF publishSignal.chan = "closed" THEN Goto(c, "panicked") ELSE Returns(c)
  /\ publishSignal' = IF publishSignal.chan = "open" THEN [publishSignal EXCEPT !.full = TRUE]
                      ELSE publishSignal
  /\ UNCHANGED <<mutex, running, contexts, loader, publisher, inFlight, receipts, throttler>>

\* The RPC server recovers the panic of a handler.
Recover(c) ==
  /\ At(c, "panicked")
  /\ Returns(c)
  /\ UNCHANGED <<mutex, running, contexts, loops>>

-----------------------------------------------------------------------------
(* The loops *)

Tick ==
  /\ loader = "select"
  /\ loader' = "tick"
  /\ UNCHANGED <<calls, contexts, publishSignal, publisher, inFlight, receipts, throttler>>

\* The tick's requests were answered, failed, or were interrupted by shutdownCtx;
\* it may end with a signal.
TickEnds(signal) ==
  /\ loader = "tick"
  /\ loader' = "select"
  /\ publishSignal' = [publishSignal EXCEPT !.full = @ \/ signal]
  /\ UNCHANGED <<calls, contexts, publisher, inFlight, receipts, throttler>>

\* blockLoadingLoop returns: the deferred wg.Done runs first ...
LoaderDone ==
  /\ loader = "select"
  /\ shutdown
  /\ loader' = "done"
  /\ UNCHANGED <<calls, contexts, publishSignal, publisher, inFlight, receipts, throttler>>

\* ... then publishSignal and unsafeBytesUpdated are closed.
LoaderCloses ==
  /\ loader = "done"
  /\ loader' = "off"
  /\ publishSignal' = [publishSignal EXCEPT !.chan = "closed"]
  /\ UNCHANGED <<calls, contexts, publisher, inFlight, receipts, throttler>>

\* A signal left in a closed channel is still taken.
TakeSignal ==
  /\ publisher = "wait"
  /\ publishSignal.full
  /\ publisher' = "publish"
  /\ publishSignal' = [publishSignal EXCEPT !.full = FALSE]
  /\ UNCHANGED <<calls, contexts, loader, inFlight, receipts, throttler>>

\* publishStateToL1 finds killCtx alive ...
CheckKilled ==
  /\ publisher = "publish"
  /\ ~killed
  /\ publisher' = "tx"
  /\ UNCHANGED <<calls, contexts, publishSignal, loader, inFlight, receipts, throttler>>

\* ... and sends a transaction or starts a DA request.
PublishTx ==
  /\ publisher = "tx"
  /\ inFlight' = TRUE
  /\ publisher' = "publish"
  /\ UNCHANGED <<calls, contexts, publishSignal, loader, receipts, throttler>>

\* publishStateToL1 returns: killCtx is done, nothing is left to publish, or the
\* pool is blocked.
PublishEnds ==
  /\ publisher = "tx" \/ (publisher = "publish" /\ killed)
  /\ publisher' = "wait"
  /\ UNCHANGED <<calls, contexts, publishSignal, loader, inFlight, receipts, throttler>>

\* The last DA request or transaction in flight is reported.
InFlightEnds ==
  /\ inFlight
  /\ receipts = "range"
  /\ inFlight' = FALSE
  /\ UNCHANGED <<calls, contexts, publishSignal, loader, publisher, receipts, throttler>>

SignalsEnd ==
  /\ publisher = "wait"
  /\ publishSignal.chan = "closed" /\ ~publishSignal.full
  /\ publisher' = "drain"
  /\ UNCHANGED <<calls, contexts, publishSignal, loader, inFlight, receipts, throttler>>

\* Mutant: the publishing loop does not wait for what is in flight.
PublisherDoneEarly ==
  /\ publisher = "drain"
  /\ publisher' = "done"
  /\ UNCHANGED <<calls, contexts, publishSignal, loader, inFlight, receipts, throttler>>

\* daGroup.Wait and txQueue.Wait returned, and wg.Done ran ...
PublisherDone ==
  /\ publisher = "drain"
  /\ ~inFlight
  /\ publisher' = "done"
  /\ UNCHANGED <<calls, contexts, publishSignal, loader, inFlight, receipts, throttler>>

\* ... then receiptsCh is closed.
PublisherCloses ==
  /\ publisher = "done"
  /\ publisher' = "off"
  /\ UNCHANGED <<calls, contexts, publishSignal, loader, inFlight, receipts, throttler>>

ReceiptsEnd ==
  /\ receipts = "range"
  /\ publisher = "off"
  /\ receipts' = "off"
  /\ UNCHANGED <<calls, contexts, publishSignal, loader, publisher, inFlight, throttler>>

\* unsafeBytesUpdated is closed, and the endpoint goroutines end: their requests
\* are bound to shutdownCtx.
ThrottlerEnds ==
  /\ throttler = "range"
  /\ loader = "off"
  /\ throttler' = "off"
  /\ UNCHANGED <<calls, contexts, publishSignal, loader, publisher, inFlight, receipts>>

-----------------------------------------------------------------------------
Init ==
  /\ caller = [c \in Caller |-> [pc |-> "idle", ctxDone |-> FALSE]]
  /\ mutex = NoCaller
  /\ running = FALSE
  /\ shutdown = FALSE
  /\ killed = FALSE
  /\ publishSignal = [chan |-> "nil", full |-> FALSE]
  /\ loader = "off"
  /\ publisher = "off"
  /\ inFlight = FALSE
  /\ receipts = "off"
  /\ throttler = "off"

Start(c) ==
  CallStart(c) \/ LockStart(c) \/ ClearState(c) \/ GenesisReached(c) \/ NodeSynced(c)
    \/ StartFails(c) \/ Launch(c)
Stop(c) ==
  (\E ctxDone \in BOOLEAN : CallStop(c, ctxDone)) \/ LockStop(c) \/ CtxDone(c) \/ CancelKill(c)
    \/ Join(c)
Flush(c) == CallFlush(c) \/ CheckRunning(c) \/ FlushSignal(c) \/ Recover(c)

LoaderStep == Tick \/ (\E signal \in BOOLEAN : TickEnds(signal)) \/ LoaderDone \/ LoaderCloses
PublisherStep ==
  TakeSignal \/ CheckKilled \/ PublishTx \/ PublishEnds \/ InFlightEnds \/ SignalsEnd \/ PublisherDone
    \/ PublisherCloses

Next ==
  \/ \E c \in Caller : Start(c) \/ Stop(c) \/ Flush(c)
  \/ LoaderStep
  \/ PublisherStep
  \/ ReceiptsEnd
  \/ ThrottlerEnds

Spec == Init /\ [][Next]_vars

(***************************************************************************)
(* Goroutines that can run do.  Requests end once their context is done,   *)
(* never before for sure.  Strong fairness is for the lock, because a Go   *)
(* mutex does not starve a waiter, and for the loader's exit, because      *)
(* select picks at random among the cases that are ready: a loader whose   *)
(* context is done does not go on ticking for ever.  That publishing and   *)
(* what is in flight end once killCtx is done is TxQueue's                 *)
(* KillEndsPublishing.                                                     *)
(***************************************************************************)
Fairness ==
  /\ \A c \in Caller :
       /\ SF_vars(LockStart(c)) /\ SF_vars(LockStop(c))
       /\ WF_vars(shutdown /\ (ClearState(c) \/ StartFails(c)))
       /\ WF_vars(Launch(c)) /\ WF_vars(CancelKill(c)) /\ WF_vars(Join(c))
       /\ WF_vars(CheckRunning(c)) /\ WF_vars(FlushSignal(c)) /\ WF_vars(Recover(c))
  /\ WF_vars(shutdown /\ \E signal \in BOOLEAN : TickEnds(signal))
  /\ SF_vars(LoaderDone) /\ WF_vars(LoaderCloses)
  /\ WF_vars(TakeSignal) /\ WF_vars(CheckKilled) /\ WF_vars(SignalsEnd)
  /\ WF_vars(killed /\ PublishEnds) /\ WF_vars(killed /\ InFlightEnds)
  /\ WF_vars(PublisherDone) /\ WF_vars(PublisherCloses)
  /\ WF_vars(ReceiptsEnd) /\ WF_vars(ThrottlerEnds)

FairSpec == Spec /\ Fairness
-----------------------------------------------------------------------------
(* Properties *)

\* Every goroutine is at one of its steps, and a nil channel holds no signal.
TypeOK ==
  /\ caller \in [Caller -> CallerState]
  /\ mutex \in Caller \cup {NoCaller}
  /\ running \in BOOLEAN /\ shutdown \in BOOLEAN /\ killed \in BOOLEAN
  /\ publishSignal \in [chan : {"nil", "open", "closed"}, full : BOOLEAN]
  /\ publishSignal.chan = "nil" => ~publishSignal.full
  /\ loader \in {"off", "select", "tick", "done"}
  /\ publisher \in {"off", "wait", "publish", "tx", "drain", "done"}
  /\ inFlight \in BOOLEAN
  /\ receipts \in {"off", "range"}
  /\ throttler \in {"off", "range"}

LoopsOff ==
  loader = "off" /\ publisher = "off" /\ ~inFlight /\ receipts = "off" /\ throttler = "off"

Starting(c) == caller[c].pc \in {"clear", "genesis", "sync", "launch"}

\* "no need to lock mutex as no other routines yet exist"
\* (StartBatchSubmitting): while one call starts the batcher no loop of an
\* earlier start runs, whatever starts, stops and failed starts came before; and
\* when StopBatchSubmitting has returned, every loop has, and nothing is in flight.
NoOtherRoutinesExist ==
  /\ \A c \in Caller : Starting(c) => LoopsOff
  /\ mutex = NoCaller /\ ~running => LoopsOff

\* StopBatchSubmitting "force-kills if the provided ctx is done", and nothing else
\* does: loops whose kill context is done belong to a stop that waits for them and
\* whose ctx is done, so a graceful stop lets what is in flight finish, and a
\* batcher that starts again does not inherit the kill of the last run.
OnlyForceKills ==
  killed /\ ~LoopsOff => \E c \in Caller : At(c, "join") /\ caller[c].ctxDone

\* As long as a transaction or a DA request is in flight the receipts loop is
\* there to take its receipt: the loops end in the order of the channels between
\* them.
InFlightIsReceived == inFlight => receipts = "range"

\* A stop that got the lock and whose ctx is done returns: nothing in the chain
\* of closed channels waits for something that never comes.
ForcedStopReturns ==
  \A c \in Caller : (At(c, "join") /\ caller[c].ctxDone) ~> At(c, "idle")
=============================================================================
