----------------------------- MODULE Sequencer -----------------------------
(***************************************************************************)
(* The Sequencer (op-node/rollup/sequencing) with its AsyncGossiper        *)
(* (op-node/rollup/async): the building job it has in hand, the head it    *)
(* builds on, and the block it published last.  The operators are the      *)
(* bodies of its event handlers: they take its fields and return the new   *)
(* ones, with the events they emit.  A building job is named by the block  *)
(* it will give.  Derived blocks, resets and the limit on the distance to  *)
(* the safe head (off by default) are left out.                            *)
(***************************************************************************)
EXTENDS EngineController

\* BuildingState: the block built onto, the job's PayloadInfo, the sealed block.
BuildingState == [onto : L2Ref, info : L2Ref, ref : L2Ref]
NoBuild == [onto |-> NoBlock, info |-> NoBlock, ref |-> NoBlock]

\* due: nextActionOK, and the driver's timer has not fired yet.  buffer is the
\* gossiper's currentPayload, gossiping what its goroutine is publishing; head and
\* sealed are latestHead and latestSealed.
SequencerState ==
  [ active : BOOLEAN, due : BOOLEAN, latest : BuildingState, sealed : L2Ref,
    head : L2Ref, buffer : L2Ref, gossiping : L2Ref ]

NewSequencer ==
  [ active |-> FALSE, due |-> FALSE, latest |-> NoBuild, sealed |-> NoBlock,
    head |-> NoBlock, buffer |-> NoBlock, gossiping |-> NoBlock ]

Event(t, b) == [t |-> t, ref |-> b]

-----------------------------------------------------------------------------

\* handleInvalid: try again after a block's time.
HandleInvalid(q) ==
  [q EXCEPT !.latest = NoBuild, !.buffer = NoBlock, !.due = q.active]

\* onBuildStarted, for job b.  The cancellation asks the engine for the payload
\* and ignores it.
OnBuildStarted(q, b) ==
  IF q.latest.onto # Parent[b] THEN HandleInvalid(q)
  ELSE [q EXCEPT !.latest.info = b, !.due = q.active]

\* The part of onBuildSealed after the conductor has the block: the gossiper's
\* goroutine takes it.
OnBuildSealed(q, b) == [q EXCEPT !.latest.ref = b, !.sealed = b, !.gossiping = b]

\* SimpleAsyncGossiper.gossip: only what could be published is kept.
OnGossiped(q, up) ==
  [q EXCEPT !.buffer = IF up THEN q.gossiping ELSE @, !.gossiping = NoBlock]

\* onPayloadSealExpiredError and onPayloadSealInvalid
OnPayloadSealFailed(q, b) == IF q.latest.info # b THEN q ELSE HandleInvalid(q)

OnPayloadSuccess(q, b) ==
  IF q.latest.ref \notin {NoBlock, b} THEN q
  ELSE [q EXCEPT !.latest = NoBuild, !.buffer = NoBlock]

\* If there is a job to resume it is kept.
OnEngineTemporaryError(q) ==
  [q EXCEPT !.due = q.active,
            !.latest = IF q.latest.info = NoBlock THEN NoBuild ELSE @]

\* startBuildingBlock: the new fields and the events.  up: the L1 origin and the
\* attributes can be had.
StartBuildingBlock(q, e, up) ==
  IF q.head = NoBlock THEN [seq |-> q, evs |-> <<RequestForkchoiceUpdate(e)>>]
  ELSE IF ~up THEN [seq |-> q, evs |-> <<Signal("EngineTemporaryError")>>]
  ELSE [seq |-> [q EXCEPT !.due = FALSE, !.latest = [NoBuild EXCEPT !.onto = q.head]],
        evs |-> <<Event("BuildStart", q.head)>>]

\* onSequencerAction: a block that was published already is processed again, a job
\* is sealed, or a block is started.
OnSequencerAction(q, e, up) ==
  IF q.buffer # NoBlock
    THEN [seq |-> [q EXCEPT !.latest.ref = q.buffer],
          evs |-> <<Event("PayloadProcess", q.buffer)>>]
  ELSE IF q.latest.info # NoBlock
    THEN [seq |-> [q EXCEPT !.due = FALSE],
          evs |-> <<Event("BuildSeal", q.latest.info)>>]
  ELSE IF q.latest = NoBuild THEN StartBuildingBlock(q, e, up)
  ELSE [seq |-> q, evs |-> <<>>]

\* onForkchoiceUpdate: a job that the chain has moved past is dropped, and a
\* higher head is built on.
OnForkchoiceUpdate(q, u) ==
  LET stale == q.latest # NoBuild /\ Number[q.latest.onto] < Number[u]
  IN  IF ~q.active THEN [q EXCEPT !.head = u]
      ELSE [q EXCEPT !.head = u,
                     !.latest = IF stale THEN NoBuild ELSE @,
                     !.due = @ \/ Number[u] > Number[q.head]]

\* The handler of ev calls Get, Clear or Gossip, which wait while the goroutine
\* is publishing.
AsksGossiper(q, ev) ==
  \/ ev.t \in {"SequencerAction", "Committed"}
  \/ ev.t = "BuildStarted" /\ q.latest.onto # Parent[ev.ref]
  \/ ev.t = "PayloadSealFailed" /\ q.latest.info = ev.ref
  \/ ev.t = "PayloadSuccess" /\ q.latest.ref \in {NoBlock, ev.ref}

-----------------------------------------------------------------------------
(* The calls of the conductor *)

\* Mutant: any known head will do.
StartRefusedOnlyUnknown(q, b) == ~q.active /\ q.head = NoBlock

\* Start, after the leader check: what stands against starting on block b.
StartRefused(q, b) == ~q.active /\ (q.head = NoBlock \/ q.head # b)

\* forceStart, with a known head.  A buffered block other than the head is dropped.
ForceStart(q) ==
  IF q.active THEN q
  ELSE [q EXCEPT !.buffer = IF @ = q.head THEN @ ELSE NoBlock,
                 !.latest = NoBuild, !.due = TRUE, !.active = TRUE]

\* Stop waits for this while the server leads.
HeadIsSealed(q) == q.head = q.sealed

\* Mutant: the job in hand is kept.
StopKeepingJob(q) == [q EXCEPT !.due = FALSE, !.active = FALSE]

\* The end of Stop.
Stop(q) == [q EXCEPT !.latest = NoBuild, !.due = FALSE, !.active = FALSE]
=============================================================================
