------------------------ MODULE BatcherLifecycleProofs ------------------------
(***************************************************************************)
(* Starting and stopping are safe for any number of callers: no two        *)
(* generations of loops overlap, and a stopped batcher has nothing         *)
(* running.                                                                *)
(***************************************************************************)
EXTENDS BatcherLifecycle, TLAPS

HoldsMutex(c) == caller[c].pc \in {"clear", "genesis", "sync", "launch", "join"}

\* The lock is held by the one caller that is between taking it and giving it up.
LockInv ==
  /\ \A c \in Caller : HoldsMutex(c) <=> mutex = c
  /\ \A c \in Caller : Starting(c) => running
  /\ \A c \in Caller : At(c, "join") => ~running

\* Each loop ends only after the loop that feeds it: the publishing loop after
\* publishSignal is closed, the receipts loop after the publishing loop.
OrderInv ==
  /\ loader # "off" <=> publishSignal.chan = "open"
  /\ publisher \in {"drain", "done", "off"} => loader = "off"
  /\ publisher \in {"done", "off"} => ~inFlight
  /\ receipts = "off" => publisher = "off"

LifecycleInv ==
  /\ TypeOK
  /\ LockInv
  /\ OrderInv
  /\ NoOtherRoutinesExist

\* With wg at zero every loop has returned.
LEMMA JoinedIsOff ==
  ASSUME TypeOK, OrderInv, WgDone
  PROVE  LoopsOff
BY DEF TypeOK, OrderInv, WgDone, LoopsOff

\* A batcher that was never started satisfies the invariant.
LEMMA LifecycleInit == Init => LifecycleInv
<1> SUFFICES ASSUME Init PROVE LifecycleInv
  OBVIOUS
<1>1. /\ running \in BOOLEAN /\ shutdown \in BOOLEAN /\ killed \in BOOLEAN /\ inFlight \in BOOLEAN
      /\ [pc |-> "idle", ctxDone |-> FALSE] \in CallerState
      /\ publishSignal \in [chan : {"nil", "open", "closed"}, full : BOOLEAN]
  BY Zenon DEF Init, CallerState
<1>2. caller \in [Caller -> CallerState] /\ publishSignal.chan = "nil" /\ ~publishSignal.full
  BY <1>1 DEF Init
<1>3. TypeOK
  BY <1>1, <1>2 DEF Init, TypeOK
<1>4. \A c \in Caller : caller[c].pc = "idle"
  BY DEF Init
<1> QED
  BY <1>2, <1>3, <1>4, LifecycleAssumption
     DEF Init, LifecycleInv, LockInv, HoldsMutex, OrderInv, NoOtherRoutinesExist, Starting,
         LoopsOff, At

\* The place of one caller changes, and nothing else about the callers.
LEMMA CallerMoves ==
  ASSUME TypeOK, NEW c \in Caller,
         NEW pc \in {"idle", "start", "clear", "genesis", "sync", "launch", "stop", "join",
                     "flush", "signal", "panicked"},
         Goto(c, pc)
  PROVE  /\ caller' \in [Caller -> CallerState]
         /\ caller'[c].pc = pc
         /\ \A d \in Caller \ {c} : caller'[d] = caller[d]
BY DEF TypeOK, Goto, CallerState

\* The same when the caller's call returns.
LEMMA CallerReturns ==
  ASSUME TypeOK, NEW c \in Caller, Returns(c)
  PROVE  /\ caller' \in [Caller -> CallerState]
         /\ caller'[c].pc = "idle"
         /\ \A d \in Caller \ {c} : caller'[d] = caller[d]
<1>1. [pc |-> "idle", ctxDone |-> FALSE] \in CallerState
  BY Zenon DEF CallerState
<1> QED
  BY <1>1 DEF TypeOK, Returns

\* A step that moves one caller, and changes neither the lock nor whether the
\* caller holds it.
LEMMA QuietCall ==
  ASSUME LifecycleInv, NEW c \in Caller, TypeOK',
         UNCHANGED <<mutex, running, loader, publisher, inFlight, receipts, throttler>>,
         publishSignal'.chan = publishSignal.chan,
         caller'[c].pc # "join", ~At(c, "join"),
         HoldsMutex(c) <=> HoldsMutex(c)',
         \A d \in Caller \ {c} : caller'[d] = caller[d]
  PROVE  LifecycleInv'
<1>1. \A d \in Caller : /\ HoldsMutex(d)' <=> HoldsMutex(d)
                        /\ Starting(d)' => Starting(d)
                        /\ At(d, "join")' <=> At(d, "join")
  BY DEF HoldsMutex, Starting, At
<1>2. LoopsOff' <=> LoopsOff
  BY DEF LoopsOff
<1> QED
  BY <1>1, <1>2 DEF LifecycleInv, LockInv, OrderInv, NoOtherRoutinesExist

\* Every step keeps the types.
LEMMA LifecycleTypes ==
  ASSUME TypeOK, OrderInv, [Next]_vars
  PROVE  TypeOK'
<1> USE DEF TypeOK, contexts, loops, calls
<1>1. ASSUME NEW c \in Caller, Start(c) PROVE TypeOK'
  <2>1. CASE CallStart(c) \/ ClearState(c) \/ GenesisReached(c) \/ NodeSynced(c)
    BY <2>1, CallerMoves DEF CallStart, ClearState, GenesisReached, NodeSynced
  <2>2. CASE LockStart(c)
    <3>1. running' \in BOOLEAN /\ shutdown' \in BOOLEAN /\ killed' \in BOOLEAN
      BY <2>2, Zenon DEF LockStart
    <3>2. caller' \in [Caller -> CallerState] /\ mutex' \in Caller \cup {NoCaller}
      BY <2>2, CallerMoves, CallerReturns DEF LockStart
    <3> QED
      BY <2>2, <3>1, <3>2 DEF LockStart
  <2>3. CASE StartFails(c)
    BY <2>3, CallerReturns DEF StartFails
  <2>4. CASE Launch(c)
    <3>1. /\ publishSignal' \in [chan : {"nil", "open", "closed"}, full : BOOLEAN]
          /\ publishSignal'.chan = "open"
      BY <2>4, Zenon DEF Launch
    <3> QED
      BY <2>4, <3>1, CallerReturns DEF Launch
  <2> QED
    BY <1>1, <2>1, <2>2, <2>3, <2>4 DEF Start
<1>2. ASSUME NEW c \in Caller, Stop(c) PROVE TypeOK'
  <2>1. ASSUME NEW ctxDone \in BOOLEAN, CallStop(c, ctxDone) PROVE TypeOK'
    <3>1. [pc |-> "stop", ctxDone |-> ctxDone] \in CallerState
      BY Zenon DEF CallerState
    <3> QED
      BY <2>1, <3>1 DEF CallStop
  <2>2. CASE LockStop(c)
    <3>1. running' \in BOOLEAN /\ shutdown' \in BOOLEAN /\ killed' \in BOOLEAN
      BY <2>2, Zenon DEF LockStop
    <3>2. caller' \in [Caller -> CallerState] /\ mutex' \in Caller \cup {NoCaller}
      BY <2>2, CallerMoves, CallerReturns DEF LockStop
    <3> QED
      BY <2>2, <3>1, <3>2 DEF LockStop
  <2>3. CASE CtxDone(c)
    <3>1. [caller[c] EXCEPT !.ctxDone = TRUE] \in CallerState
      BY Zenon DEF CallerState
    <3>2. caller' = [caller EXCEPT ![c] = [caller[c] EXCEPT !.ctxDone = TRUE]]
      BY <2>3 DEF CtxDone
    <3>3. caller' \in [Caller -> CallerState]
      BY <3>1, <3>2
    <3> QED
      BY <2>3, <3>3 DEF CtxDone
  <2>4. CASE CancelKill(c)
    BY <2>4 DEF CancelKill
  <2>5. CASE Join(c)
    BY <2>5, CallerReturns DEF Join
  <2> QED
    BY <1>2, <2>1, <2>2, <2>3, <2>4, <2>5 DEF Stop
<1>3. ASSUME NEW c \in Caller, Flush(c) PROVE TypeOK'
  <2>1. CASE CallFlush(c) \/ CheckRunning(c) \/ Recover(c)
    BY <1>3, <2>1, CallerMoves, CallerReturns DEF CallFlush, CheckRunning, Recover
  <2>2. CASE FlushSignal(c)
    <3>1. caller' \in [Caller -> CallerState]
      BY <2>2, CallerMoves, CallerReturns DEF FlushSignal
    <3>2. [publishSignal EXCEPT !.full = TRUE] \in [chan : {"nil", "open", "closed"}, full : BOOLEAN]
      BY Zenon
    <3>3. publishSignal' \in [chan : {"nil", "open", "closed"}, full : BOOLEAN]
      BY <2>2, <3>2 DEF FlushSignal
    <3>4. publishSignal'.chan = "nil" => ~publishSignal'.full
      BY <2>2 DEF FlushSignal
    <3> QED
      BY <2>2, <3>1, <3>3, <3>4 DEF FlushSignal
  <2> QED
    BY <1>3, <2>1, <2>2 DEF Flush
<1>4. CASE LoaderStep
  <2>1. ASSUME NEW signal \in BOOLEAN, TickEnds(signal) PROVE TypeOK'
    BY <2>1 DEF TickEnds, OrderInv
  <2>2. CASE Tick \/ LoaderDone
    BY <2>2 DEF Tick, LoaderDone
  <2>3. CASE LoaderCloses
    BY <2>3 DEF LoaderCloses
  <2> QED
    BY <1>4, <2>1, <2>2, <2>3 DEF LoaderStep
<1>5. CASE PublisherStep
  <2>1. CASE TakeSignal
    <3>1. [publishSignal EXCEPT !.full = FALSE] \in [chan : {"nil", "open", "closed"}, full : BOOLEAN]
      BY Zenon
    <3>2. publishSignal' \in [chan : {"nil", "open", "closed"}, full : BOOLEAN] /\ ~publishSignal'.full
      BY <2>1, <3>1 DEF TakeSignal
    <3> QED
      BY <2>1, <3>2 DEF TakeSignal
  <2>2. CASE PublishTx \/ InFlightEnds
    <3>1. inFlight' \in BOOLEAN
      BY <2>2, Zenon DEF PublishTx, InFlightEnds
    <3> QED
      BY <2>2, <3>1 DEF PublishTx, InFlightEnds
  <2>3. CASE CheckKilled \/ PublishEnds \/ SignalsEnd \/ PublisherDone \/ PublisherCloses
    BY <2>3 DEF CheckKilled, PublishEnds, SignalsEnd, PublisherDone, PublisherCloses
  <2> QED
    BY <1>5, <2>1, <2>2, <2>3 DEF PublisherStep
<1>6. CASE ReceiptsEnd \/ ThrottlerEnds
  BY <1>6 DEF ReceiptsEnd, ThrottlerEnds
<1>7. CASE UNCHANGED vars
  BY <1>7 DEF vars
<1> QED
  BY <1>1, <1>2, <1>3, <1>4, <1>5, <1>6, <1>7 DEF Next

\* A caller that moves without the lock, or within a start, disturbs nothing.
LEMMA QuietCalls ==
  ASSUME LifecycleInv, TypeOK', NEW c \in Caller,
         \/ CallStart(c) \/ ClearState(c) \/ GenesisReached(c) \/ NodeSynced(c)
         \/ \E ctxDone \in BOOLEAN : CallStop(c, ctxDone)
         \/ Flush(c)
  PROVE  LifecycleInv'
<1>0. TypeOK
  BY DEF LifecycleInv
<1> USE DEF contexts, loops, HoldsMutex, At
<1>1. CASE CallStart(c) \/ CallFlush(c)
  BY <1>0, <1>1, QuietCall, CallerMoves DEF CallStart, CallFlush
<1>2. CASE ClearState(c) \/ GenesisReached(c) \/ NodeSynced(c)
  BY <1>0, <1>2, QuietCall, CallerMoves DEF ClearState, GenesisReached, NodeSynced
<1>3. ASSUME NEW ctxDone \in BOOLEAN, CallStop(c, ctxDone) PROVE LifecycleInv'
  <2>1. caller'[c].pc = "stop" /\ \A d \in Caller \ {c} : caller'[d] = caller[d]
    BY <1>0, <1>3 DEF CallStop, TypeOK
  <2> QED
    BY <1>3, <2>1, QuietCall DEF CallStop
<1>4. CASE CheckRunning(c) \/ Recover(c)
  BY <1>0, <1>4, QuietCall, CallerMoves, CallerReturns DEF CheckRunning, Recover
<1>5. CASE FlushSignal(c)
  <2>1. publishSignal'.chan = publishSignal.chan
    BY <1>0, <1>5 DEF FlushSignal, TypeOK
  <2> QED
    BY <1>0, <1>5, <2>1, QuietCall, CallerMoves, CallerReturns DEF FlushSignal
<1> QED
  BY <1>1, <1>2, <1>3, <1>4, <1>5 DEF Flush

\* Taking and giving up the lock.
LEMMA LockCalls ==
  ASSUME LifecycleInv, TypeOK', NEW c \in Caller,
         LockStart(c) \/ StartFails(c) \/ Launch(c) \/ LockStop(c) \/ CtxDone(c) \/ CancelKill(c)
           \/ Join(c)
  PROVE  LifecycleInv'
<1>0. TypeOK /\ NoCaller \notin Caller
  BY LifecycleAssumption DEF LifecycleInv
<1> USE DEF LifecycleInv, LockInv, OrderInv, NoOtherRoutinesExist, HoldsMutex,
            Starting, LoopsOff, At, contexts, loops, calls
<1>1. CASE LockStart(c)
  BY <1>0, <1>1, CallerMoves, CallerReturns DEF LockStart
<1>2. CASE StartFails(c)
  BY <1>0, <1>2, CallerReturns DEF StartFails
<1>3. CASE Launch(c)
  BY <1>0, <1>3, CallerReturns DEF Launch
<1>4. CASE LockStop(c)
  BY <1>0, <1>4, CallerMoves, CallerReturns DEF LockStop
<1>5. CASE CtxDone(c)
  <2>1. \A d \in Caller : caller'[d].pc = caller[d].pc
    BY <1>0, <1>5 DEF CtxDone, TypeOK, CallerState
  <2> QED
    BY <1>5, <2>1 DEF CtxDone
<1>6. CASE CancelKill(c)
  BY <1>6 DEF CancelKill
<1>7. CASE Join(c)
  <2>1. LoopsOff
    BY <1>7, JoinedIsOff DEF Join
  <2> QED
    BY <1>0, <1>7, <2>1, CallerReturns DEF Join
<1> QED
  BY <1>1, <1>2, <1>3, <1>4, <1>5, <1>6, <1>7

\* The loops come up together and go down one after the other.
LEMMA LoopSteps ==
  ASSUME LifecycleInv, TypeOK', LoaderStep \/ PublisherStep \/ ReceiptsEnd \/ ThrottlerEnds
  PROVE  LifecycleInv'
<1>0. TypeOK
  BY DEF LifecycleInv
<1>1. UNCHANGED calls
  BY DEF LoaderStep, Tick, TickEnds, LoaderDone, LoaderCloses, PublisherStep, TakeSignal, CheckKilled,
         PublishTx, PublishEnds, InFlightEnds, SignalsEnd, PublisherDone, PublisherCloses,
         ReceiptsEnd, ThrottlerEnds
<1>2. OrderInv'
  <2> USE DEF LifecycleInv, OrderInv, TypeOK
  <2>1. CASE LoaderStep
    BY <1>0, <2>1 DEF LoaderStep, Tick, TickEnds, LoaderDone, LoaderCloses
  <2>2. CASE TakeSignal \/ CheckKilled \/ PublishEnds \/ SignalsEnd
    BY <1>0, <2>2 DEF TakeSignal, CheckKilled, PublishEnds, SignalsEnd
  <2>3. CASE PublishTx \/ InFlightEnds \/ PublisherDone \/ PublisherCloses
    BY <1>0, <2>3 DEF PublishTx, InFlightEnds, PublisherDone, PublisherCloses
  <2>4. CASE ReceiptsEnd \/ ThrottlerEnds
    BY <1>0, <2>4 DEF ReceiptsEnd, ThrottlerEnds
  <2> QED
    BY <2>1, <2>2, <2>3, <2>4 DEF PublisherStep
<1>3. ~LoopsOff
  BY <1>0 DEF LifecycleInv, OrderInv, LoopsOff, LoaderStep, Tick, TickEnds, LoaderDone, LoaderCloses,
              PublisherStep, TakeSignal, CheckKilled, PublishTx, PublishEnds, InFlightEnds, SignalsEnd,
              PublisherDone, PublisherCloses, ReceiptsEnd, ThrottlerEnds
<1> QED
  BY <1>1, <1>2, <1>3 DEF LifecycleInv, LockInv, NoOtherRoutinesExist, HoldsMutex,
                          Starting, At, calls

\* The inductive invariant of starting and stopping.
THEOREM LifecycleInvariant == Spec => []LifecycleInv
<1>1. LifecycleInv /\ [Next]_vars => LifecycleInv'
  <2> SUFFICES ASSUME LifecycleInv, [Next]_vars PROVE LifecycleInv'
    OBVIOUS
  <2>1. TypeOK'
    BY LifecycleTypes DEF LifecycleInv
  <2>2. ASSUME NEW c \in Caller, Start(c) \/ Stop(c) \/ Flush(c) PROVE LifecycleInv'
    BY <2>1, <2>2, QuietCalls, LockCalls DEF Start, Stop
  <2>3. CASE LoaderStep \/ PublisherStep \/ ReceiptsEnd \/ ThrottlerEnds
    BY <2>1, <2>3, LoopSteps
  <2>4. CASE UNCHANGED vars
    BY <2>1, <2>4 DEF vars, calls, contexts, loops, LifecycleInv, LockInv, OrderInv,
                      NoOtherRoutinesExist, HoldsMutex, Starting, LoopsOff, At
  <2> QED
    BY <2>2, <2>3, <2>4 DEF Next
<1> QED
  BY <1>1, LifecycleInit, PTL DEF Spec

\* Every goroutine is at one of its steps (TypeOK), for any number of callers.
THEOREM LifecycleTypeCorrect == Spec => []TypeOK
<1>1. LifecycleInv => TypeOK
  BY DEF LifecycleInv
<1> QED
  BY <1>1, LifecycleInvariant, PTL

\* StartBatchSubmitting never meets a loop of an earlier start, and a stop that has
\* returned left no loop behind and nothing in flight, for any number of concurrent
\* starts, stops and flushes.
THEOREM OneGeneration == Spec => []NoOtherRoutinesExist
<1>1. LifecycleInv => NoOtherRoutinesExist
  BY DEF LifecycleInv
<1> QED
  BY <1>1, LifecycleInvariant, PTL

\* No transaction or DA request in flight outlives the receipts loop.
THEOREM ReceiptsLoopEndsLast == Spec => []InFlightIsReceived
<1>1. LifecycleInv => InFlightIsReceived
  BY DEF LifecycleInv, TypeOK, OrderInv, InFlightIsReceived
<1> QED
  BY <1>1, LifecycleInvariant, PTL

\* A kill is a stop's, and no start goes on with a kill context that is done.
KillInv ==
  /\ OnlyForceKills
  /\ \A c \in Caller : Starting(c) => ~killed

\* A step that leaves the kill context alone, starts no loop and moves one caller
\* that no forced stop is waiting on.
LEMMA KillKept ==
  ASSUME KillInv, killed' = killed, LoopsOff => LoopsOff',
         NEW c \in Caller, ~(At(c, "join") /\ caller[c].ctxDone), Starting(c)' => Starting(c),
         \A d \in Caller \ {c} : caller'[d] = caller[d]
  PROVE  KillInv'
BY DEF KillInv, OnlyForceKills, At, Starting

\* Every step of a start keeps it: a start that goes on has a new kill context.
LEMMA KillStart ==
  ASSUME LifecycleInv, KillInv, NEW c \in Caller, Start(c)
  PROVE  KillInv'
<1>0. TypeOK
  BY DEF LifecycleInv
<1>l. UNCHANGED loops => (LoopsOff => LoopsOff')
  BY DEF loops, LoopsOff
<1>1. CASE CallStart(c) \/ ClearState(c) \/ GenesisReached(c) \/ NodeSynced(c)
  BY <1>0, <1>1, <1>l, KillKept, CallerMoves
     DEF CallStart, ClearState, GenesisReached, NodeSynced, At, Starting, contexts
<1>2. CASE LockStart(c)
  <2>1. CASE killed' = FALSE
    BY <2>1 DEF KillInv, OnlyForceKills
  <2>2. CASE running /\ Returns(c) /\ UNCHANGED <<mutex, running, contexts>>
    BY <1>0, <1>2, <2>2, <1>l, KillKept, CallerReturns DEF LockStart, At, Starting, contexts
  <2> QED
    BY <1>2, <2>1, <2>2 DEF LockStart
<1>3. CASE StartFails(c)
  BY <1>0, <1>3, <1>l, KillKept, CallerReturns DEF StartFails, At, Starting, contexts
<1>4. CASE Launch(c)
  <2>1. ~killed /\ killed' = killed
    BY <1>4 DEF Launch, KillInv, Starting, At, contexts
  <2> QED
    BY <2>1 DEF KillInv, OnlyForceKills
<1> QED
  BY <1>1, <1>2, <1>3, <1>4 DEF Start

\* Every step of a stop keeps it: only a stop whose ctx is done kills running loops.
LEMMA KillStop ==
  ASSUME LifecycleInv, KillInv, NEW c \in Caller, Stop(c)
  PROVE  KillInv'
<1>0. /\ TypeOK /\ OrderInv /\ NoCaller \notin Caller
      /\ \A d \in Caller : HoldsMutex(d) <=> mutex = d
  BY LifecycleAssumption DEF LifecycleInv, LockInv
<1>l. UNCHANGED loops => (LoopsOff => LoopsOff')
  BY DEF loops, LoopsOff
<1>1. ASSUME NEW ctxDone \in BOOLEAN, CallStop(c, ctxDone) PROVE KillInv'
  <2>1. caller'[c].pc = "stop" /\ \A d \in Caller \ {c} : caller'[d] = caller[d]
    BY <1>0, <1>1 DEF CallStop, TypeOK
  <2> QED
    BY <1>1, <2>1, <1>l, KillKept DEF CallStop, At, Starting, contexts
<1>2. CASE LockStop(c)
  <2>1. /\ ~At(c, "join") /\ killed' = killed /\ UNCHANGED loops
        /\ caller'[c].pc \in {"idle", "join"} /\ \A d \in Caller \ {c} : caller'[d] = caller[d]
    BY <1>0, <1>2, CallerMoves, CallerReturns DEF LockStop, At
  <2> QED
    BY <2>1, <1>l, KillKept DEF Starting
<1>3. CASE CtxDone(c)
  <2>1. /\ caller'[c].pc = caller[c].pc /\ ~caller[c].ctxDone
        /\ \A d \in Caller \ {c} : caller'[d] = caller[d]
    BY <1>0, <1>3 DEF CtxDone, TypeOK, CallerState
  <2> QED
    BY <1>3, <2>1, <1>l, KillKept DEF CtxDone, Starting, contexts
<1>4. CASE CancelKill(c)
  <2>1. At(c, "join") /\ caller[c].ctxDone /\ caller' = caller /\ mutex = c
    BY <1>0, <1>4 DEF CancelKill, calls, At, HoldsMutex
  <2>2. \A d \in Caller : ~Starting(d)
    BY <1>0, <2>1 DEF Starting, HoldsMutex, At
  <2> QED
    BY <2>1, <2>2 DEF KillInv, OnlyForceKills, At, Starting
<1>5. CASE Join(c)
  <2>1. LoopsOff'
    BY <1>0, <1>5, <1>l, JoinedIsOff DEF Join
  <2>2. \A d \in Caller : ~Starting(d)'
    <3>1. mutex = c /\ caller'[c].pc = "idle" /\ \A d \in Caller \ {c} : caller'[d] = caller[d]
      BY <1>0, <1>5, CallerReturns DEF Join, At, HoldsMutex
    <3> QED
      BY <1>0, <3>1 DEF Starting, HoldsMutex
  <2> QED
    BY <2>1, <2>2 DEF KillInv, OnlyForceKills
<1> QED
  BY <1>1, <1>2, <1>3, <1>4, <1>5 DEF Stop

\* Flushes and loops do not touch the kill context, and no loop starts by itself.
LEMMA KillRest ==
  ASSUME LifecycleInv, KillInv,
         \/ \E c \in Caller : Flush(c)
         \/ LoaderStep \/ PublisherStep \/ ReceiptsEnd \/ ThrottlerEnds
  PROVE  KillInv'
<1>0. TypeOK
  BY DEF LifecycleInv
<1>1. ASSUME NEW c \in Caller, Flush(c) PROVE KillInv'
  <2>1. LoopsOff => LoopsOff'
    BY <1>1 DEF Flush, CallFlush, CheckRunning, FlushSignal, Recover, loops, LoopsOff
  <2>2. killed' = killed /\ ~At(c, "join")
    BY <1>1 DEF Flush, CallFlush, CheckRunning, FlushSignal, Recover, contexts, At
  <2>3. /\ caller'[c].pc \in {"idle", "flush", "signal", "panicked"}
        /\ \A d \in Caller \ {c} : caller'[d] = caller[d]
    BY <1>0, <1>1, CallerMoves, CallerReturns DEF Flush, CallFlush, CheckRunning, FlushSignal, Recover
  <2> QED
    BY <2>1, <2>2, <2>3, KillKept DEF Starting
<1>2. CASE LoaderStep \/ PublisherStep \/ ReceiptsEnd \/ ThrottlerEnds
  <2>1. UNCHANGED <<calls, contexts>>
    BY <1>2 DEF LoaderStep, Tick, TickEnds, LoaderDone, LoaderCloses, PublisherStep, TakeSignal,
                CheckKilled, PublishTx, PublishEnds, InFlightEnds, SignalsEnd, PublisherDone,
                PublisherCloses, ReceiptsEnd, ThrottlerEnds
  <2>2. ~LoopsOff
    BY <1>0, <1>2 DEF LifecycleInv, OrderInv, LoopsOff, LoaderStep, Tick, TickEnds, LoaderDone,
                      LoaderCloses, PublisherStep, TakeSignal, CheckKilled, PublishTx, PublishEnds,
                      InFlightEnds, SignalsEnd, PublisherDone, PublisherCloses, ReceiptsEnd,
                      ThrottlerEnds
  <2> QED
    BY <2>1, <2>2 DEF KillInv, OnlyForceKills, At, Starting, calls, contexts
<1> QED
  BY <1>1, <1>2

\* Loops run with a kill context that is done only under a forced stop, for any
\* number of concurrent starts, stops and flushes.
THEOREM KilledByForceOnly == Spec => []OnlyForceKills
<1>1. Init => KillInv
  BY DEF Init, KillInv, OnlyForceKills, Starting
<1>2. LifecycleInv /\ KillInv /\ [Next]_vars => KillInv'
  <2> SUFFICES ASSUME LifecycleInv, KillInv, [Next]_vars PROVE KillInv'
    OBVIOUS
  <2>1. ASSUME NEW c \in Caller, Start(c) \/ Stop(c) \/ Flush(c) PROVE KillInv'
    BY <2>1, KillStart, KillStop, KillRest
  <2>2. CASE LoaderStep \/ PublisherStep \/ ReceiptsEnd \/ ThrottlerEnds
    BY <2>2, KillRest
  <2>3. CASE UNCHANGED vars
    BY <2>3 DEF vars, calls, contexts, loops, KillInv, OnlyForceKills, LoopsOff, At, Starting
  <2> QED
    BY <2>1, <2>2, <2>3 DEF Next
<1>3. KillInv => OnlyForceKills
  BY DEF KillInv
<1> QED
  BY <1>1, <1>2, <1>3, LifecycleInvariant, PTL DEF Spec
=============================================================================
