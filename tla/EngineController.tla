-------------------------- MODULE EngineController --------------------------
(***************************************************************************)
(* The EngineController (op-node/rollup/engine): the heads of the L2 chain *)
(* as the rollup node sees them, and the calls by which it moves the       *)
(* execution engine's.  The operators here are the bodies of its methods:  *)
(* they take the controller's fields and return the new ones, with the     *)
(* events the method emits.  The chain is past Holocene and before         *)
(* interop, so a rejected block is replaced at once, backupUnsafeHead is   *)
(* never restored, and the cross-unsafe head follows the unsafe head.      *)
(***************************************************************************)
EXTENDS Chains

CONSTANTS SyncLookback  \* rollup.Config.SyncLookback

ASSUME SyncLookbackAssumption == SyncLookback \in Nat

\* The fields of the controller.  needSafeHeadUpdate is only ever set together
\* with needFCUCall, so it decides nothing and is left out.
Controller ==
  [ unsafe : L2Ref, pending : L2Ref, localSafe : L2Ref, safe : L2Ref,
    finalized : L2Ref, needFCU : BOOLEAN ]

\* The forkchoice labels of the execution engine.
Engine == [head : L2Block, safe : L2Block, finalized : L2Block]

Attributes == [block : L2Block, concluding : BOOLEAN, from : L1Block]

NewController ==
  [ unsafe |-> NoBlock, pending |-> NoBlock, localSafe |-> NoBlock, safe |-> NoBlock,
    finalized |-> NoBlock, needFCU |-> FALSE ]

-----------------------------------------------------------------------------
(* Events: one record constructor for each event type of the node. *)

Signal(t) == [t |-> t]
ForkchoiceUpdate(u, s, f) ==
  [t |-> "ForkchoiceUpdate", unsafe |-> u, safe |-> s, finalized |-> f]
PendingSafeUpdate(p, u) == [t |-> "PendingSafeUpdate", pending |-> p, unsafe |-> u]
SafeDerived(b, src) == [t |-> "SafeDerived", ref |-> b, source |-> src]
LocalSafeUpdate(b, src) == [t |-> "LocalSafeUpdate", ref |-> b, source |-> src]
EngineResetConfirmed(s) == [t |-> "EngineResetConfirmed", ref |-> s]
\* BuildStart, BuildStarted, BuildSeal, BuildSealed, PayloadProcess,
\* PayloadSuccess, PayloadSealExpired, BuildInvalid, DerivedAttributes and
\* DepositsOnlyRequest all carry what the attributes carry.
Job(t, a) == [t |-> t, attr |-> a]

RequestPendingSafeUpdate(e) == PendingSafeUpdate(e.pending, e.unsafe)
RequestForkchoiceUpdate(e) == ForkchoiceUpdate(e.unsafe, e.safe, e.finalized)

-----------------------------------------------------------------------------
(* Forkchoice *)

\* What the engine does (op-program's engine API stands for it): a head that is
\* canonical already, an ancestor of the current one, changes nothing; then the
\* finalized and the safe label are set, each if it is canonical.
Forkchoice(el, h, s, f) ==
  LET head == IF h \in L2Chain[el.head] THEN el.head ELSE h
      ok == f \in L2Chain[head]
  IN  [ el |-> [head      |-> head,
                finalized |-> IF ok THEN f ELSE el.finalized,
                safe      |-> IF ok /\ s \in L2Chain[head] THEN s ELSE el.safe],
        valid |-> ok /\ s \in L2Chain[head] ]

Known(b, default) == IF b = NoBlock THEN default ELSE b

InitializeUnknowns(e, el) ==
  LET s == Known(e.safe, el.safe)
  IN  [e EXCEPT !.unsafe = Known(@, el.head), !.finalized = Known(@, el.finalized),
                !.safe = s, !.localSafe = Known(@, s)]

\* tryUpdateEngineInternal: the controller and the engine's labels after it, what
\* it emits, and the kind of its error.  up: the engine answers.
TryUpdateEngineInternal(e0, el, up) ==
  LET e == InitializeUnknowns(e0, el)
      fcu == Forkchoice(el, e.unsafe, e.safe, e.finalized)
      fails(err) == [eng |-> e, el |-> el, evs |-> <<>>, err |-> err]
  IN  IF ~e0.needFCU THEN [fails("none") EXCEPT !.eng = e0]
      ELSE IF ~up THEN [fails("temporary") EXCEPT !.eng = e0]
      ELSE IF Number[e.unsafe] < Number[e.finalized]
        THEN [fails("critical") EXCEPT !.evs = <<Signal("CriticalError")>>]
      ELSE IF ~fcu.valid THEN [fails("reset") EXCEPT !.el = fcu.el]
      ELSE [eng |-> [e EXCEPT !.needFCU = FALSE],
            el  |-> fcu.el,
            evs |-> <<RequestForkchoiceUpdate(e)>>,
            err |-> "none"]

ErrorEvents(err) ==
  CASE err = "reset"     -> <<Signal("Reset")>>
    [] err = "temporary" -> <<Signal("EngineTemporaryError")>>
    [] err = "critical"  -> <<Signal("CriticalError")>>
    [] OTHER             -> <<>>

TryUpdateEngine(e, el, up) ==
  LET r == TryUpdateEngineInternal(e, el, up)
  IN  [eng |-> r.eng, el |-> r.el, evs |-> r.evs \o ErrorEvents(r.err)]

-----------------------------------------------------------------------------
(* Promotion *)

SetUnsafeHead(e, b) == [e EXCEPT !.unsafe = b, !.needFCU = TRUE]

\* Each returns the controller and the events.
TryUpdatePendingSafe(e, b) ==
  IF Number[b] > Number[e.pending]
    THEN LET e1 == [e EXCEPT !.pending = b]
         IN  [eng |-> e1, evs |-> <<RequestPendingSafeUpdate(e1)>>]
    ELSE [eng |-> e, evs |-> <<>>]

TryUpdateLocalSafe(e, b, concluding, src) ==
  IF concluding /\ Number[b] > Number[e.localSafe]
    THEN [eng |-> [e EXCEPT !.localSafe = b], evs |-> <<LocalSafeUpdate(b, src)>>]
    ELSE [eng |-> e, evs |-> <<>>]

PromoteDerived(e, a) ==
  LET p == TryUpdatePendingSafe(e, a.block)
      l == TryUpdateLocalSafe(p.eng, a.block, a.concluding, a.from)
  IN  [eng |-> l.eng, evs |-> p.evs \o l.evs]

\* onPayloadSuccess
PayloadSuccess(e, el, a, up) ==
  LET d == PromoteDerived(SetUnsafeHead(e, a.block), a)
      r == TryUpdateEngineInternal(d.eng, el, up)
  IN  [eng |-> r.eng, el |-> r.el,
       evs |-> <<Signal("UnsafeUpdate")>> \o d.evs \o r.evs]

PromoteSafe(e, el, b, src, up) ==
  LET r == TryUpdateEngine([e EXCEPT !.safe = b, !.needFCU = TRUE], el, up)
  IN  [r EXCEPT !.evs = <<SafeDerived(b, src)>> \o r.evs]

PromoteFinalized(e, el, b, up) ==
  IF Number[b] < Number[e.finalized] \/ Number[b] > Number[e.safe]
    THEN [eng |-> e, el |-> el, evs |-> <<>>]
    ELSE TryUpdateEngine([e EXCEPT !.finalized = b, !.needFCU = TRUE], el, up)

-----------------------------------------------------------------------------
(* Reset *)

(***************************************************************************)
(* FindL2Heads (sync/start.go) on an engine el and an L1 node whose head   *)
(* is tip.  Going back from the unsafe head, a block's origin is ahead of  *)
(* the L1 node, not canonical, or canonical; the unsafe head becomes the   *)
(* parent of the lowest block that is not canonical, and the safe head the *)
(* parent of the first epoch start far enough behind the highest canonical *)
(* origin.                                                                 *)
(***************************************************************************)
\* The blocks that the walk passes at most, and what it makes of them.
Walked(el) == {b \in L2Chain[el.head] : Number[b] >= Number[el.finalized]}
Seen(b, tip) == L1ByNumber(tip, L1Number[L1Origin[b]])
NotCanonical(el, tip) ==
  {b \in Walked(el) : Seen(b, tip) # NoBlock /\ Seen(b, tip) # L1Origin[b]}
Canonical(el, tip) == {b \in Walked(el) : Seen(b, tip) = L1Origin[b]}

Highest(S) == CHOOSE b \in S : \A c \in S : Number[c] <= Number[b]
LowestOf(S) == CHOOSE b \in S : \A c \in S : Number[c] >= Number[b]

ReadyForSafe(el, tip) ==
  {b \in Canonical(el, tip) :
     /\ Number[b] > Number[el.finalized] /\ Number[b] <= Number[el.safe]
     /\ L1Number[L1Origin[b]] + SyncLookback < L1Number[L1Origin[Highest(Canonical(el, tip))]]
     /\ FirstOfEpoch(b)}

\* The engine was rewound without its labels: its head is all that is left.
Rewound(el) == Number[el.head] < Number[el.finalized] \/ Number[el.head] < Number[el.safe]

\* The walk got to the height of the finalized block and found another one.
ReorgFinalized(el, tip) ==
  ~Rewound(el) /\ ReadyForSafe(el, tip) = {} /\ el.finalized \notin L2Chain[el.head]

\* Mutant: the lowest block that is not canonical is kept.
FindL2HeadsOffByOne(el, tip) ==
  LET bad == NotCanonical(el, tip)
      ready == ReadyForSafe(el, tip)
  IN  [ unsafe    |-> IF bad = {} THEN el.head ELSE LowestOf(bad),
        safe      |-> IF ready = {} THEN el.finalized ELSE Parent[Highest(ready)],
        finalized |-> el.finalized ]

FindL2Heads(el, tip) ==
  IF Rewound(el) THEN [unsafe |-> el.head, safe |-> el.head, finalized |-> el.head]
  ELSE LET bad == NotCanonical(el, tip)
           ready == ReadyForSafe(el, tip)
       IN  [ unsafe    |-> IF bad = {} THEN el.head
                           ELSE IF el.finalized \in bad THEN NoBlock
                           ELSE Parent[LowestOf(bad)],
             safe      |-> IF ready = {} THEN el.finalized ELSE Parent[Highest(ready)],
             finalized |-> el.finalized ]

\* Mutant: a reset starts again from the rollup's genesis.
ForceEngineResetToGenesis(heads) ==
  [ unsafe |-> heads.unsafe, pending |-> heads.safe, localSafe |-> heads.safe,
    safe |-> heads.safe, finalized |-> Genesis, needFCU |-> TRUE ]

\* ForceEngineReset
ForceEngineReset(heads) ==
  [ unsafe |-> heads.unsafe, pending |-> heads.safe, localSafe |-> heads.safe,
    safe |-> heads.safe, finalized |-> heads.finalized, needFCU |-> TRUE ]

\* The part of forceReset that concerns the engine: what it emits after the
\* other components were reset.
ForceReset(el, heads, up) ==
  LET r == TryUpdateEngine(ForceEngineReset(heads), el, up)
  IN  [r EXCEPT !.evs = <<Signal("ConfirmPipelineReset")>> \o r.evs
                          \o <<EngineResetConfirmed(r.eng.safe)>>]

-----------------------------------------------------------------------------
(* The queue of unsafe payloads: a set, as it holds no duplicates. *)

Inapplicable(p, u, s) ==
  \/ Number[p] <= Number[s]
  \/ Number[p] <= Number[u]
  \/ Number[p] = Number[u] + 1 /\ Parent[p] # u

Lowest(ps) == {p \in ps : \A q \in ps : Number[p] <= Number[q]}

\* DropInapplicableUnsafePayloads pops from the lowest number up and stops at
\* the first applicable payload; among equal numbers the heap's order is free.
DropInapplicable(ps, u, s) ==
  LET kept == {p \in ps : ~Inapplicable(p, u, s)}
      ties == {p \in ps \ kept : \E q \in Lowest(kept) : Number[q] = Number[p]}
  IN  {kept \cup T : T \in SUBSET ties}

\* insertUnsafePayload: NewPayload, then the forkchoice update.
InsertUnsafePayload(e, el, p, up) ==
  IF ~up THEN [eng |-> e, el |-> el, evs |-> <<Signal("EngineTemporaryError")>>]
  ELSE IF p \in Invalid
    THEN [eng |-> e, el |-> el,
          evs |-> <<[t |-> "PayloadInvalid", ref |-> p], Signal("EngineTemporaryError")>>]
  ELSE LET fcu == Forkchoice(el, p, e.safe, e.finalized)
           e1 == [e EXCEPT !.unsafe = p, !.needFCU = FALSE]
       IN  IF ~fcu.valid THEN [eng |-> e, el |-> fcu.el, evs |-> <<Signal("Reset")>>]
           ELSE [eng |-> e1, el |-> fcu.el,
                 evs |-> <<Signal("UnsafeUpdate"), RequestForkchoiceUpdate(e1)>>]
=============================================================================
