------------------------------- MODULE OpNode -------------------------------
(***************************************************************************)
(* A verifier op-node: the engine controller, the attributes handler, the  *)
(* derivation pipeline, the finalizer, the step scheduler and the sync     *)
(* deriver, which talk through one first-in first-out queue of events      *)
(* (op-service/event/executor_global.go).  The driver's event loop drains  *)
(* the queue and attempts steps; the goroutines that watch L1 and the p2p  *)
(* network emit events, and request steps, at any moment.  An event's      *)
(* action does what every component does on it, in the order in which the  *)
(* components are registered.  The L1 node reorganizes its chain and the   *)
(* node restarts at any moment, and a call to the engine, the L1 node or   *)
(* the safe head listener may fail.                                        *)
(***************************************************************************)
EXTENDS EngineController, DerivationPipeline, Finalizer, SafeDBListener

CONSTANT Scenarios  \* bounds on the environment; a behaviour stays within one of them

\* The unsafe blocks that peers send, the L1 blocks that may become final, and the
\* number of calls that fail, of L1 reorganizations, of restarts of the node and of
\* pipeline resets that an operator asks for.
Scenario ==
  [ gossip : SUBSET L2Block, finalizing : SUBSET L1Block,
    faults : Nat, reorgs : Nat, restarts : Nat, manual : Nat ]

ASSUME OpNodeAssumption == Scenarios \subseteq Scenario

\* The variable db, the safe head database on disk, is SafeDBListener's.
VARIABLES
  l1,        \* the L1 chain: its head and its last final block
  el,        \* the execution engine's labels
  queue,     \* events that wait
  draining,  \* the event loop is inside Drain
  sched,     \* StepSchedulingDeriver: request, delayed request, stepAttempts > 0
  eng,       \* EngineController
  payloads,  \* EngineController.unsafePayloads
  att,       \* AttributesHandler
  pipe,      \* DerivationPipeline
  fin,       \* Finalizer
  budget     \* what is left of the scenario's bounds

vars == <<l1, el, queue, draining, sched, eng, payloads, att, pipe, fin, db, budget>>
components == <<eng, payloads, att, pipe, fin>>

NewHandler == [attributes |-> NoAttributes, sent |-> FALSE]
NewScheduler == [requested |-> TRUE, delayed |-> FALSE, retrying |-> FALSE]

Init ==
  /\ l1 = [head |-> L1Genesis, finalized |-> L1Genesis]
  /\ el = [head |-> Genesis, safe |-> Genesis, finalized |-> Genesis]
  /\ queue = <<>>
  /\ draining = FALSE
  /\ sched = NewScheduler
  /\ eng = NewController
  /\ payloads = {}
  /\ att = NewHandler
  /\ pipe = NewPipeline
  /\ fin = NewFinalizer
  /\ db = NewSafeDB
  /\ budget \in Scenarios

-----------------------------------------------------------------------------
(* The event queue *)

Quiet == queue = <<>>

Next1(t) == queue # <<>> /\ Head(queue).t = t

\* The handlers of the first event are done and have emitted evs.
Processed(evs) ==
  /\ queue' = Tail(queue) \o evs
  /\ draining' = (queue' # <<>>)

\* Another goroutine emits evs.
Emitted(evs) == queue' = queue \o evs /\ UNCHANGED draining

\* The outcome of a remote call: it answers, or, while faults are left, fails.
Call(up) ==
  /\ up \/ budget.faults > 0
  /\ budget' = IF up THEN budget ELSE [budget EXCEPT !.faults = @ - 1]

\* RequestStep
RequestStep(s, resetBackoff) ==
  IF s.retrying /\ ~resetBackoff THEN [s EXCEPT !.delayed = TRUE]
  ELSE [requested |-> TRUE, delayed |-> FALSE, retrying |-> FALSE]

-----------------------------------------------------------------------------
(* The driver's event loop, and the SyncDeriver *)

\* AttemptStep, on either of the scheduler's channels.
AttemptStep ==
  /\ ~draining
  /\ \/ sched.requested /\ sched' = [sched EXCEPT !.requested = FALSE, !.delayed = FALSE,
                                                  !.retrying = TRUE]
     \/ sched.delayed /\ sched' = [sched EXCEPT !.delayed = FALSE, !.retrying = TRUE]
  /\ Emitted(<<Signal("Step")>>)
  /\ UNCHANGED <<l1, el, components, budget, db>>

\* SyncStep
SyncStep ==
  /\ Next1("Step")
  /\ \E up \in {TRUE} \cup {~eng.needFCU} :
       LET r == TryUpdateEngine(eng, el, up)
       IN  /\ Call(up)
           /\ eng' = r.eng /\ el' = r.el
           /\ Processed(r.evs \o <<RequestPendingSafeUpdate(r.eng)>>)
  /\ UNCHANGED <<l1, sched, payloads, att, pipe, fin, db>>

\* ResetEvent: Finalizer.onReset, AttributesHandler, SyncDeriver.onResetEvent.
OnResetEvent ==
  /\ Next1("Reset")
  /\ fin' = OnReset(fin)
  /\ att' = NewHandler
  /\ sched' = RequestStep(sched, FALSE)
  /\ Processed(<<Signal("ResetEngineRequest")>>)
  /\ UNCHANGED <<l1, el, eng, payloads, pipe, budget, db>>

OnEngineTemporaryError ==
  /\ Next1("EngineTemporaryError")
  /\ att' = [att EXCEPT !.sent = FALSE]
  /\ sched' = RequestStep(sched, FALSE)
  /\ Processed(<<>>)
  /\ UNCHANGED <<l1, el, eng, payloads, pipe, fin, budget, db>>

OnL1TemporaryError ==
  /\ Next1("L1TemporaryError")
  /\ sched' = RequestStep(sched, FALSE)
  /\ Processed(<<>>)
  /\ UNCHANGED <<l1, el, components, budget, db>>

OnDeriverIdle ==
  /\ Next1("DeriverIdle")
  /\ LET tries == TriesWhenIdle(fin, Head(queue).origin)
     IN  /\ fin' = IF tries THEN [fin EXCEPT !.triedAt = L1Number[Head(queue).origin]] ELSE fin
         /\ Processed(IF tries THEN <<Signal("TryFinalize")>> ELSE <<>>)
  /\ sched' = [sched EXCEPT !.retrying = FALSE]
  /\ UNCHANGED <<l1, el, eng, payloads, att, pipe, budget, db>>

OnDeriverMore ==
  /\ Next1("DeriverMore")
  /\ sched' = RequestStep(sched, TRUE)
  /\ Processed(<<>>)
  /\ UNCHANGED <<l1, el, components, budget, db>>

\* SafeDerivedEvent: Finalizer.onDerivedSafeBlock, and the safe head listener,
\* whose failure resets the node.
OnSafeDerived ==
  /\ Next1("SafeDerived")
  /\ fin' = OnDerivedSafeBlock(fin, Head(queue).ref, Head(queue).source)
  /\ \E up \in BOOLEAN :
       /\ Call(up)
       /\ db' = IF up THEN SafeHeadUpdated(db, Head(queue).ref, Head(queue).source) ELSE db
       /\ Processed(IF up THEN <<>> ELSE <<Signal("Reset")>>)
  /\ UNCHANGED <<l1, el, sched, eng, payloads, att, pipe>>

\* onEngineConfirmedReset: the listener is told, and genesis is recorded as safe
\* from the first L1 block on; if one of the calls fails nothing is emitted.
OnEngineResetConfirmed ==
  /\ Next1("EngineResetConfirmed")
  /\ LET s == Head(queue).ref
         reset == SafeHeadReset(db, s)
         recorded == IF s = Genesis THEN SafeHeadUpdated(reset, s, L1ByNumber(l1.head, 0))
                     ELSE reset
     IN  \/ /\ Call(FALSE)
            /\ db' \in {db, reset}
            /\ Processed(<<>>)
         \/ /\ db' = recorded
            /\ Processed(<<Signal("ConfirmPipelineReset")>>)
            /\ UNCHANGED budget
  /\ UNCHANGED <<l1, el, sched, components>>

-----------------------------------------------------------------------------
(* The attributes handler *)

\* There are attributes, for the height above p.
NextHeight(a, p) == a # NoAttributes /\ Number[Parent[a.block]] = Number[p]

\* onPendingSafeUpdate with consolidateNextSafeAttributes
OnPendingSafeUpdate ==
  /\ Next1("PendingSafeUpdate")
  /\ LET p == Head(queue).pending
         u == Head(queue).unsafe
         a == att.attributes
         step == [t |-> "PipelineStep", pending |-> p]
         build == /\ att' = [att EXCEPT !.sent = TRUE]
                  /\ Processed(<<Job("BuildStart", a)>>)
                  /\ UNCHANGED <<eng, budget>>
         unusable == \/ Number[u] < Number[p]
                     \/ ~att.sent /\ NextHeight(a, p) /\ Parent[a.block] # p
     IN  \/ /\ unusable \/ (att.sent /\ NextHeight(a, p))
            /\ Processed(IF unusable THEN <<Signal("Reset")>> ELSE <<>>)
            /\ UNCHANGED <<eng, att, budget>>
         \/ /\ ~unusable /\ ~NextHeight(a, p)
            /\ att' = NewHandler
            /\ Processed(<<step>>)
            /\ UNCHANGED <<eng, budget>>
         \/ ~unusable /\ ~att.sent /\ NextHeight(a, p) /\ Number[p] = Number[u] /\ build
         \/ /\ ~unusable /\ ~att.sent /\ NextHeight(a, p) /\ Number[p] < Number[u]
            /\ LET have == L2ByNumber(el.head, Number[p] + 1)
                   r == PromoteDerived(eng, a)
               IN  \/ /\ Call(FALSE)
                      /\ Processed(<<Signal("EngineTemporaryError")>>)
                      /\ UNCHANGED <<eng, att>>
                   \/ /\ have # a.block
                      /\ IF have = NoBlock
                           THEN Processed(<<Signal("Reset")>>) /\ UNCHANGED <<eng, att, budget>>
                           ELSE build
                   \/ /\ have = a.block
                      /\ eng' = r.eng
                      /\ Processed(r.evs)
                      /\ UNCHANGED <<att, budget>>
  /\ UNCHANGED <<l1, el, sched, payloads, pipe, fin, db>>

OnDerivedAttributes ==
  /\ Next1("DerivedAttributes")
  /\ att' = [attributes |-> Head(queue).attr, sent |-> FALSE]
  /\ Processed(<<Signal("ConfirmReceivedAttributes"), RequestPendingSafeUpdate(eng)>>)
  /\ UNCHANGED <<l1, el, sched, eng, payloads, pipe, fin, budget, db>>

OnPayloadSealExpired ==
  /\ Next1("PayloadSealExpired")
  /\ att' = [att EXCEPT !.sent = FALSE]
  /\ Processed(<<>>)
  /\ UNCHANGED <<l1, el, sched, eng, payloads, pipe, fin, budget, db>>

-----------------------------------------------------------------------------
(* The pipeline deriver *)

StepEvents(r) ==
  CASE r.result = "reset"      -> <<Signal("Reset")>>
    [] r.result = "temporary"  -> <<Signal("EngineTemporaryError")>>
    [] r.result = "more"       -> <<Signal("DeriverMore")>>
    [] r.result = "idle"       -> <<[t |-> "DeriverIdle", origin |-> r.pipe.origin]>>
    [] r.result = "attributes" -> <<Job("DerivedAttributes", r.pipe.last)>>

\* A call that fails is tried again, but the pipeline is reset if it was for a parent
\* that initialReset looks up.
OnPipelineStep ==
  /\ Next1("PipelineStep")
  /\ \/ /\ pipe.unconfirmed
        /\ Processed(<<>>)
        /\ UNCHANGED <<pipe, budget>>
     \/ /\ ~pipe.unconfirmed
        /\ \E up \in BOOLEAN :
             LET r == Step(pipe, Head(queue).pending, l1.head, up)
             IN  /\ up \/ r.result = "temporary"
                 /\ Call(up)
                 /\ pipe' = r.pipe
                 /\ Processed(StepEvents(r))
     \/ /\ ~pipe.unconfirmed /\ WalksBack(pipe, Head(queue).pending)
        /\ Call(FALSE)
        /\ Processed(<<Signal("Reset")>>)
        /\ UNCHANGED pipe
  /\ UNCHANGED <<l1, el, sched, eng, payloads, att, fin, db>>

OnConfirmPipelineReset ==
  /\ Next1("ConfirmPipelineReset")
  /\ pipe' = [pipe EXCEPT !.engineIsReset = TRUE]
  /\ Processed(<<>>)
  /\ UNCHANGED <<l1, el, sched, eng, payloads, att, fin, budget, db>>

\* Mutant: the confirmation is not recorded.
OnConfirmReceivedAttributesLost ==
  /\ Next1("ConfirmReceivedAttributes")
  /\ Processed(<<>>)
  /\ UNCHANGED <<l1, el, sched, components, budget, db>>

OnConfirmReceivedAttributes ==
  /\ Next1("ConfirmReceivedAttributes")
  /\ pipe' = [pipe EXCEPT !.unconfirmed = FALSE]
  /\ Processed(<<>>)
  /\ UNCHANGED <<l1, el, sched, eng, payloads, att, fin, budget, db>>

OnDepositsOnlyRequest ==
  /\ Next1("DepositsOnlyRequest")
  /\ IF DepositsOnlyPossible(pipe, Head(queue).attr)
       THEN /\ pipe' = DepositsOnlyAttributes(pipe)
            /\ Processed(<<Job("DerivedAttributes", pipe'.last)>>)
       ELSE /\ Processed(<<Signal("CriticalError")>>)
            /\ UNCHANGED pipe
  /\ UNCHANGED <<l1, el, sched, eng, payloads, att, fin, budget, db>>

-----------------------------------------------------------------------------
(* The engine controller *)

\* onResetEngineRequest: FindL2Heads, which may fail, then forceReset.
OnResetEngineRequest ==
  /\ Next1("ResetEngineRequest")
  /\ \/ /\ Call(FALSE)
        /\ Processed(<<Signal("Reset")>>)
        /\ UNCHANGED <<el, eng, att, pipe>>
     \/ IF ReorgFinalized(el, l1.head)
          THEN Processed(<<Signal("Reset")>>) /\ UNCHANGED <<el, eng, att, pipe, budget>>
        ELSE \E up \in BOOLEAN :
               LET r == ForceReset(el, FindL2Heads(el, l1.head), up)
               IN  /\ Call(up)
                   /\ att' = NewHandler
                   /\ pipe' = ResetPipeline(pipe)
                   /\ eng' = r.eng /\ el' = r.el
                   /\ Processed(r.evs)
  /\ UNCHANGED <<l1, sched, payloads, fin, db>>

OnUnsafeUpdate ==
  /\ Next1("UnsafeUpdate")
  /\ \E up \in {TRUE} \cup {~eng.needFCU} :
       LET r == TryUpdateEngine(eng, el, up)
       IN  Call(up) /\ eng' = r.eng /\ el' = r.el /\ Processed(r.evs)
  /\ UNCHANGED <<l1, sched, payloads, att, pipe, fin, db>>

OnLocalSafeUpdate ==
  /\ Next1("LocalSafeUpdate")
  /\ \E up \in BOOLEAN :
       LET r == PromoteSafe(eng, el, Head(queue).ref, Head(queue).source, up)
       IN  Call(up) /\ eng' = r.eng /\ el' = r.el /\ Processed(r.evs)
  /\ UNCHANGED <<l1, sched, payloads, att, pipe, fin, db>>

\* onBuildStart: the engine is told to build on the attributes' parent.  A block
\* it will reject may be refused now or only when it is processed.
OnBuildStart ==
  /\ Next1("BuildStart")
  /\ LET a == Head(queue).attr
         p == Parent[a.block]
         fcu == Forkchoice(el, p, eng.safe, eng.finalized)
     IN  IF Number[p] < Number[eng.finalized]
           THEN Processed(<<Signal("CriticalError")>>) /\ UNCHANGED <<el, budget>>
         ELSE \/ /\ Call(FALSE)
                 /\ Processed(<<Signal("EngineTemporaryError")>>)
                 /\ UNCHANGED el
              \/ /\ el' = fcu.el
                 /\ \/ fcu.valid /\ a.block \in Invalid /\ Processed(<<Job("BuildInvalid", a)>>)
                    \/ Processed(IF fcu.valid
                                   THEN <<ForkchoiceUpdate(p, eng.safe, eng.finalized),
                                          Job("BuildStarted", a)>>
                                   ELSE <<Signal("Reset")>>)
                 /\ UNCHANGED budget
  /\ UNCHANGED <<l1, sched, components, db>>

\* onBuildStarted and onBuildSealed: a derived block goes straight on.
OnBuildStarted ==
  /\ Next1("BuildStarted")
  /\ Processed(<<Job("BuildSeal", Head(queue).attr)>>)
  /\ UNCHANGED <<l1, el, sched, components, budget, db>>

\* A payload that fails the sanity check is left out: derived attributes start with
\* deposits, and a batch with deposits or empty transactions is dropped.
OnBuildSeal ==
  /\ Next1("BuildSeal")
  /\ \E up \in BOOLEAN :
       /\ Call(up)
       /\ Processed(<<Job(IF up THEN "BuildSealed" ELSE "PayloadSealExpired",
                          Head(queue).attr)>>)
  /\ UNCHANGED <<l1, el, sched, components, db>>

OnBuildSealed ==
  /\ Next1("BuildSealed")
  /\ Processed(<<Job("PayloadProcess", Head(queue).attr)>>)
  /\ UNCHANGED <<l1, el, sched, components, budget, db>>

OnBuildInvalid ==
  /\ Next1("BuildInvalid")
  /\ Processed(<<Job("DepositsOnlyRequest", Head(queue).attr)>>)
  /\ UNCHANGED <<l1, el, sched, components, budget, db>>

\* Mutant: a block that the engine finds invalid counts as processed.
OnPayloadProcessUnchecked ==
  /\ Next1("PayloadProcess")
  /\ \/ Call(FALSE) /\ Processed(<<Signal("EngineTemporaryError")>>)
     \/ /\ Processed(<<Job("PayloadSuccess", Head(queue).attr)>>)
        /\ UNCHANGED budget
  /\ UNCHANGED <<l1, el, sched, components, db>>

OnPayloadProcess ==
  /\ Next1("PayloadProcess")
  /\ LET a == Head(queue).attr
     IN  \/ Call(FALSE) /\ Processed(<<Signal("EngineTemporaryError")>>)
         \/ /\ Processed(<<Job(IF a.block \in Invalid THEN "DepositsOnlyRequest"
                               ELSE "PayloadSuccess", a)>>)
            /\ UNCHANGED budget
  /\ UNCHANGED <<l1, el, sched, components, db>>

OnPayloadSuccess ==
  /\ Next1("PayloadSuccess")
  /\ \E up \in BOOLEAN :
       LET r == PayloadSuccess(eng, el, Head(queue).attr, up)
       IN  Call(up) /\ eng' = r.eng /\ el' = r.el /\ Processed(r.evs)
  /\ UNCHANGED <<l1, sched, payloads, att, pipe, fin, db>>

\* onForkchoiceUpdate, after the finalizer took note of the finalized head.
OnForkchoiceUpdate ==
  /\ Next1("ForkchoiceUpdate")
  /\ LET ev == Head(queue)
     IN  /\ fin' = [fin EXCEPT !.lastFinalizedL2 = ev.finalized]
         /\ \E kept \in DropInapplicable(payloads, ev.unsafe, ev.safe) :
              LET next == {p \in Lowest(kept) : /\ Parent[p] = ev.unsafe
                                                /\ Number[p] = Number[ev.unsafe] + 1
                                                /\ p # eng.unsafe}
              IN  /\ payloads' = kept
                  /\ \/ /\ next = {}
                        /\ Processed(<<>>)
                        /\ UNCHANGED <<eng, el, budget>>
                     \/ \E p \in next, up \in BOOLEAN :
                          LET r == InsertUnsafePayload(eng, el, p, up)
                          IN  Call(up) /\ eng' = r.eng /\ el' = r.el /\ Processed(r.evs)
  /\ UNCHANGED <<l1, sched, att, pipe, db>>

\* onInvalidPayload
OnPayloadInvalid ==
  /\ Next1("PayloadInvalid")
  /\ payloads' = IF Head(queue).ref \in Lowest(payloads)
                   THEN payloads \ {Head(queue).ref} ELSE payloads
  /\ Processed(<<>>)
  /\ UNCHANGED <<l1, el, sched, eng, att, pipe, fin, budget, db>>

-----------------------------------------------------------------------------
(* The finalizer *)

OnTryFinalize ==
  /\ Next1("TryFinalize")
  /\ \/ /\ Finalizable(fin) = {}
        /\ Processed(<<>>)
        /\ UNCHANGED <<el, eng, budget>>
     \/ /\ Finalizable(fin) # {}
        /\ \/ /\ Call(FALSE)
              /\ Processed(<<Signal("L1TemporaryError")>>)
              /\ UNCHANGED <<el, eng>>
           \/ /\ ~OnFinalizingChain(fin, Pick(fin), l1.head)
              /\ Processed(<<Signal("Reset")>>)
              /\ UNCHANGED <<el, eng, budget>>
           \/ /\ OnFinalizingChain(fin, Pick(fin), l1.head)
              /\ \E up \in BOOLEAN :
                   LET r == PromoteFinalized(eng, el, Pick(fin).l2, up)
                   IN  Call(up) /\ eng' = r.eng /\ el' = r.el /\ Processed(r.evs)
  /\ UNCHANGED <<l1, sched, payloads, att, pipe, fin, db>>

-----------------------------------------------------------------------------
(* Other goroutines, and the environment *)

\* A peer's block: AddUnsafePayload.
ReceivePayload ==
  /\ \E p \in budget.gossip :
       /\ payloads' = payloads \cup {p}
       /\ budget' = [budget EXCEPT !.gossip = @ \ {p}]
  /\ Emitted(<<RequestForkchoiceUpdate(eng)>>)
  /\ UNCHANGED <<l1, el, sched, eng, att, pipe, fin, db>>

\* A signal of the L1 head: SyncDeriver.OnL1Unsafe.  What it sets is read between
\* two drains only, and that is when it is taken.
OnL1Unsafe ==
  /\ Quiet
  /\ sched' = RequestStep(sched, FALSE)
  /\ UNCHANGED <<l1, el, queue, draining, components, budget, db>>

\* L1 finalizes a block of its chain and the node hears of it:
\* Finalizer.OnL1Finalized, SyncDeriver.OnL1Finalized.  L1 finality never goes
\* back, so no signal is older than the last, and each is heard once.
OnL1Finalized ==
  /\ \E b \in (budget.finalizing \cap L1Chain[l1.head]) \ {fin.finalizedL1} :
       /\ L1Number[b] >= L1Number[l1.finalized]
       /\ l1' = [l1 EXCEPT !.finalized = b]
       /\ fin' = OnL1FinalizedSignal(fin, b)
  /\ Emitted(<<Signal("TryFinalize")>>)
  /\ sched' = RequestStep(sched, FALSE)
  /\ UNCHANGED <<el, eng, payloads, att, pipe, budget, db>>

\* The L1 chain grows, or switches to another branch.
L1Advance ==
  /\ \E b \in L1Block : L1Parent[b] = l1.head /\ l1' = [l1 EXCEPT !.head = b]
  /\ UNCHANGED <<el, queue, draining, sched, components, budget, db>>

L1Reorg ==
  /\ budget.reorgs > 0
  /\ \E b \in L1Block :
       /\ l1.head \notin L1Chain[b] /\ b \notin L1Chain[l1.head]
       /\ l1.finalized \in L1Chain[b]
       /\ l1' = [l1 EXCEPT !.head = b]
  /\ budget' = [budget EXCEPT !.reorgs = @ - 1]
  /\ UNCHANGED <<el, queue, draining, sched, components, db>>

\* ResetDerivationPipeline, an admin call served by the event loop.
ManualReset ==
  /\ ~draining /\ budget.manual > 0
  /\ pipe' = ResetPipeline(pipe)
  /\ budget' = [budget EXCEPT !.manual = @ - 1]
  /\ UNCHANGED <<l1, el, queue, draining, sched, eng, payloads, att, fin, db>>

\* The node stops and starts again: only the execution engine remembers.
Restart ==
  /\ budget.restarts > 0
  /\ budget' = [budget EXCEPT !.restarts = @ - 1]
  /\ queue' = <<>> /\ draining' = FALSE /\ sched' = NewScheduler
  /\ eng' = NewController /\ payloads' = {} /\ att' = NewHandler
  /\ pipe' = NewPipeline /\ fin' = NewFinalizer
  /\ UNCHANGED <<l1, el, db>>

Handle ==
  \/ SyncStep \/ OnResetEvent \/ OnEngineTemporaryError \/ OnL1TemporaryError
  \/ OnDeriverIdle \/ OnDeriverMore \/ OnSafeDerived \/ OnEngineResetConfirmed
  \/ OnPendingSafeUpdate \/ OnDerivedAttributes \/ OnPayloadSealExpired
  \/ OnPipelineStep \/ OnConfirmPipelineReset \/ OnConfirmReceivedAttributes
  \/ OnDepositsOnlyRequest \/ OnResetEngineRequest \/ OnUnsafeUpdate
  \/ OnLocalSafeUpdate \/ OnBuildStart \/ OnBuildStarted \/ OnBuildSeal
  \/ OnBuildSealed \/ OnBuildInvalid \/ OnPayloadProcess \/ OnPayloadSuccess
  \/ OnForkchoiceUpdate \/ OnPayloadInvalid \/ OnTryFinalize

Next ==
  \/ Handle \/ AttemptStep
  \/ ReceivePayload \/ OnL1Unsafe \/ OnL1Finalized
  \/ L1Advance \/ L1Reorg \/ ManualReset \/ Restart

Spec == Init /\ [][Next]_vars

(***************************************************************************)
(* Fairness: the event loop runs, its select does not ignore a ready       *)
(* channel for ever, and the watchers of L1 keep reporting.                *)
(***************************************************************************)
Fairness ==
  /\ WF_vars(Handle)
  /\ SF_vars(AttemptStep)
  /\ WF_vars(OnL1Unsafe)
  /\ WF_vars(OnL1Finalized)

FairSpec == Spec /\ Fairness

-----------------------------------------------------------------------------
(* Properties *)

\* The components' state has the shape the code gives it.
TypeOK ==
  /\ l1 \in [head : L1Block, finalized : L1Block]
  /\ el \in Engine
  /\ draining \in BOOLEAN /\ draining => queue # <<>>
  /\ sched \in [requested : BOOLEAN, delayed : BOOLEAN, retrying : BOOLEAN]
  /\ eng \in Controller
  /\ payloads \subseteq L2Block
  /\ att \in [attributes : Attributes \cup {NoAttributes}, sent : BOOLEAN]
  /\ pipe \in Pipeline
  /\ fin \in FinalizerState /\ Len(fin.data) <= FinalityLookback
  /\ \A n \in DOMAIN db : db[n] \in Entry /\ L1Number[db[n].l1] = n

\* No handler gives up: the sanity checks that make the node exit hold.
NoCriticalError == \A i \in 1 .. Len(queue) : queue[i].t # "CriticalError"

\* What the execution engine calls finalized follows from final L1 data, whatever
\* reorganizations, resets and restarts came before.
FinalizedIsDerived == el.finalized \in Derived(l1.finalized)

\* A node that has read the L1 chain up to its head and has no event to handle
\* calls safe only what that chain determines: resets and what was in flight when
\* they happened leave no trace.
SafeIsDerived ==
  Quiet /\ DerivationReady(pipe) /\ pipe.traversal = l1.head => eng.safe \in Derived(l1.head)

\* What the engine calls finalized is never taken back: through resets, reorganizations
\* and restarts, a new finalized block extends the old one.
FinalityIsFinal == [][Extends(el'.finalized, el.finalized)]_vars

\* The safe head listener is called in the order it relies on.
ListenerInOrder ==
  /\ Next1("SafeDerived") => UpdateInOrder(db, Head(queue).ref, Head(queue).source)
  /\ Next1("EngineResetConfirmed") => ResetInOrder(db, Head(queue).ref)

\* What the safe head database says of the L1 blocks that the pipeline has read is
\* what those blocks determine, although entries of other branches were written,
\* and the node reset and restarted, before.
SafeDBIsTruthful ==
  Quiet /\ DerivationReady(pipe) /\ pipe.traversal \in L1Chain[l1.head] =>
    \A b \in L1Chain[pipe.traversal] \ {pipe.traversal} :
      LET a == SafeHeadAtL1(db, L1Number[b])
      IN  a = NotFound \/ (a.l1 \in L1Chain[b] /\ a.l2 = DerivedTip[b])

\* A block becomes safe with an L1 block only if that block carries its batch, and in its
\* deposits-only form exactly if the engine rejects the original: whatever peers sent,
\* and whatever was in flight when the node was reset.
PromotedIsBuilt ==
  Next1("SafeDerived") =>
    \E x \in Batches[Head(queue).source] : Head(queue).ref = Built(x)

\* When no event is left to handle, nobody waits for one: the pipeline does not wait for
\* a confirmation, nor the attributes handler for a build, which could come no more.
NothingAwaited ==
  Quiet => /\ ~pipe.unconfirmed
           /\ att.sent => Number[att.attributes.block] <= Number[eng.pending]

\* A reset finds heads that are canonical and extend each other, if what is finalized
\* is canonical and on the engine's chain.
ResetIsCanonical ==
  [][ /\ OnResetEngineRequest /\ eng' # eng
      /\ ~Rewound(el) /\ el.finalized \in L2Chain[el.head]
      /\ L1Origin[el.finalized] \in L1Chain[l1.head]
      => /\ Extends(eng'.unsafe, eng'.safe) /\ Extends(eng'.safe, eng'.finalized)
         /\ L1Origin[eng'.safe] \in L1Chain[l1.head]
         /\ Seen(eng'.unsafe, l1.head) \in {NoBlock, L1Origin[eng'.unsafe]} ]_vars

\* When the part of L1 that concerns this chain stops changing, on a branch that
\* has overtaken what the node had read, the engine's safe head ends up where that
\* branch says.  (An L1 branch that is no longer than the one it replaces is not
\* noticed before it grows.)
SafeHeadConverges ==
  \A b \in L1Block :
    <>[](/\ l1.head = b
         /\ \/ pipe.traversal \in {NoBlock} \cup L1Chain[b]
            \/ L1Number[pipe.traversal] < L1Number[b])
    => <>[](el.safe = DerivedTip[b])
=============================================================================
