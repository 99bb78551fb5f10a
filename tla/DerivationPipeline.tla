------------------------- MODULE DerivationPipeline -------------------------
(***************************************************************************)
(* The DerivationPipeline (op-node/rollup/derive/pipeline.go) between its  *)
(* two ends, the L1 traversal and the attributes queue.  The stages in     *)
(* between turn the data of an L1 block into batches: NextBatch below      *)
(* takes from them that an L1 block yields the batch that builds on the    *)
(* given parent, if it carries one.                                        *)
(***************************************************************************)
EXTENDS Chains

CONSTANTS
  ChannelTimeout,  \* rollup.ChainSpec.ChannelTimeout
  NoAttributes     \* the nil *AttributesWithParent

ASSUME ChannelTimeoutAssumption == ChannelTimeout \in Nat

\* The stages that keep state here: 0 is the L1 traversal, 1 the attributes queue.
Stages == 2

PipelineAttributes == [block : L2Block, concluding : BOOLEAN, from : L1Block]

Pipeline ==
  [ resetting : 0 .. Stages, engineIsReset : BOOLEAN,
    origin : L1Ref, resetL2Safe : L2Ref,
    traversal : L1Ref,                             \* L1Traversal.block
    batch : L2Ref,                                 \* AttributesQueue.batch
    last : PipelineAttributes \cup {NoAttributes}, \* AttributesQueue.lastAttribs
    unconfirmed : BOOLEAN ]                        \* needAttributesConfirmation

NewPipeline ==
  [ resetting |-> 0, engineIsReset |-> FALSE, origin |-> NoBlock, resetL2Safe |-> NoBlock,
    traversal |-> NoBlock, batch |-> NoBlock, last |-> NoAttributes, unconfirmed |-> FALSE ]

ResetPipeline(p) ==
  [p EXCEPT !.resetting = 0, !.resetL2Safe = NoBlock, !.engineIsReset = FALSE]

DerivationReady(p) == p.engineIsReset /\ p.resetting = Stages

\* b is a channel timeout older than the safe head, or as old as genesis.
OldEnough(b, safe) ==
  \/ b = Genesis
  \/ L1Origin[b] = L1Genesis
  \/ L1Number[L1Origin[b]] + ChannelTimeout <= L1Number[L1Origin[safe]]

\* initialReset: the origin of the highest ancestor that is old enough.
ResetOrigin(safe) ==
  LET old == {b \in L2Chain[safe] : OldEnough(b, safe)}
  IN  L1Origin[CHOOSE b \in old : \A c \in old : Number[c] <= Number[b]]

InitialReset(p, safe) ==
  IF safe = p.resetL2Safe THEN p
  ELSE [p EXCEPT !.origin = ResetOrigin(safe), !.resetL2Safe = safe]

\* initialReset walks back from the safe head, and asks the engine for its parent.
WalksBack(p, safe) ==
  /\ p.resetting < Stages /\ p.engineIsReset
  /\ safe \notin {NoBlock, p.resetL2Safe} /\ ~OldEnough(safe, safe)

ResetStage(p) ==
  LET q == [p EXCEPT !.resetting = @ + 1]
  IN  IF p.resetting = 0 THEN [q EXCEPT !.traversal = p.origin]
      ELSE [q EXCEPT !.batch = NoBlock, !.last = NoAttributes]

\* VerifyNewL1Origin(unsafeOrigin, newOrigin) on an L1 node whose head is tip.
OriginVerified(old, new, tip) ==
  /\ L1Number[new] = L1Number[old] => new = old
  /\ L1Number[new] = L1Number[old] + 1 => L1Parent[new] = old
  /\ L1Number[new] > L1Number[old] + 1 => L1ByNumber(tip, L1Number[old]) = old

NextBatch(p, parent) ==
  IF p.batch # NoBlock THEN p.batch
  ELSE IF \E x \in Batches[p.traversal] : Parent[x] = parent
    THEN CHOOSE x \in Batches[p.traversal] : Parent[x] = parent
    ELSE NoBlock

Outcome(p, result) == [pipe |-> p, result |-> result]

\* Mutant: the batch is kept after it was turned into attributes.
NextAttributesKeepingBatch(p, parent, b, up) ==
  IF Parent[b] # parent THEN Outcome([p EXCEPT !.batch = b], "reset")
  ELSE IF ~up THEN Outcome([p EXCEPT !.batch = b], "temporary")
  ELSE Outcome([p EXCEPT !.batch = b, !.unconfirmed = TRUE,
                         !.last = [block |-> b, concluding |-> b \in Concluding,
                                   from |-> p.traversal]],
               "attributes")

\* AttributesQueue.NextAttributes; up: the L1 node serves the receipts.
NextAttributes(p, parent, b, up) ==
  IF Parent[b] # parent THEN Outcome([p EXCEPT !.batch = b], "reset")
  ELSE IF ~up THEN Outcome([p EXCEPT !.batch = b], "temporary")
  ELSE Outcome([p EXCEPT !.batch = NoBlock, !.unconfirmed = TRUE,
                         !.last = [block |-> b, concluding |-> b \in Concluding,
                                   from |-> p.traversal]],
               "attributes")

\* Mutant: the parent hash of the next block is not compared.
AdvanceL1BlockUnchecked(p, tip, up) ==
  LET next == L1ByNumber(tip, L1Number[p.traversal] + 1)
  IN  IF ~up THEN Outcome(p, "temporary")
      ELSE IF next = NoBlock THEN Outcome(p, "idle")
      ELSE Outcome([p EXCEPT !.traversal = next], "more")

AdvanceL1Block(p, tip, up) ==
  LET next == L1ByNumber(tip, L1Number[p.traversal] + 1)
  IN  IF ~up THEN Outcome(p, "temporary")
      ELSE IF next = NoBlock THEN Outcome(p, "idle")
      ELSE IF L1Parent[next] # p.traversal THEN Outcome(p, "reset")
      ELSE Outcome([p EXCEPT !.traversal = next], "more")

\* DerivationPipeline.Step
Step(p, parent, tip, up) ==
  IF p.resetting < Stages
    THEN IF ~p.engineIsReset THEN Outcome(p, "reset")
         ELSE IF parent # p.resetL2Safe /\ (~up \/ parent = NoBlock)
           THEN Outcome(p, "temporary")
         ELSE Outcome(ResetStage(InitialReset(p, parent)), "more")
  ELSE IF ~OriginVerified(p.origin, p.traversal, tip) THEN Outcome(p, "reset")
  ELSE LET q == [p EXCEPT !.origin = p.traversal]
           b == NextBatch(q, parent)
       IN  IF b = NoBlock THEN AdvanceL1Block(q, tip, up)
           ELSE NextAttributes(q, parent, b, up)

\* AttributesQueue.DepositsOnlyAttributes: the sanity checks, then the
\* replacement of the last attributes.
DepositsOnlyPossible(p, a) ==
  /\ p.batch = NoBlock
  /\ p.last # NoAttributes
  /\ a.from = p.last.from
  /\ Parent[a.block] = Parent[p.last.block]

DepositsOnlyAttributes(p) ==
  [p EXCEPT !.unconfirmed = TRUE, !.last.block = Built(@)]
=============================================================================
