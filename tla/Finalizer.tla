----------------------------- MODULE Finalizer ------------------------------
(***************************************************************************)
(* The Finalizer (op-node/rollup/finality/finalizer.go): which L2 block    *)
(* was the last to be derived from which L1 block, and, once L1 reports    *)
(* finality, up to which L2 block the chain follows from final L1 data.    *)
(***************************************************************************)
EXTENDS Chains

CONSTANTS
  FinalityLookback,  \* how many entries are kept
  FinalityDelay      \* L1 blocks to traverse before the next attempt

ASSUME FinalityAssumption == FinalityLookback \in Nat \ {0} /\ FinalityDelay \in Nat

FinalityData == [l2 : L2Block, l1 : L1Block]

FinalizerState ==
  [ finalizedL1 : L1Ref, lastFinalizedL2 : L2Ref, triedAt : Nat, data : Seq(FinalityData) ]

NewFinalizer ==
  [ finalizedL1 |-> NoBlock, lastFinalizedL2 |-> NoBlock, triedAt |-> 0, data |-> <<>> ]

\* Mutant: nothing is pruned.
OnDerivedSafeBlockUnpruned(f, b, src) ==
  LET n == Len(f.data)
  IN  IF n = 0 \/ L1Number[f.data[n].l1] < L1Number[src]
        THEN [f EXCEPT !.data = Append(f.data, [l2 |-> b, l1 |-> src])]
        ELSE [f EXCEPT !.data[n].l2 = b]

OnDerivedSafeBlock(f, b, src) ==
  LET n == Len(f.data)
  IN  IF n = 0 \/ L1Number[f.data[n].l1] < L1Number[src]
        THEN LET kept == IF n >= FinalityLookback THEN SubSeq(f.data, 2, FinalityLookback)
                         ELSE f.data
             IN  [f EXCEPT !.data = Append(kept, [l2 |-> b, l1 |-> src])]
        ELSE [f EXCEPT !.data[n].l2 = b]

\* Whether onDerivationIdle asks for another attempt.
TriesWhenIdle(f, origin) ==
  /\ f.finalizedL1 # NoBlock
  /\ f.triedAt = 0 \/ L1Number[origin] > f.triedAt + FinalityDelay

OnReset(f) == [f EXCEPT !.data = <<>>, !.triedAt = 0]

OnL1FinalizedSignal(f, b) ==
  IF L1Number[b] < L1Number[f.finalizedL1] \/ b = f.finalizedL1 THEN f
  ELSE [f EXCEPT !.finalizedL1 = b, !.triedAt = 0]

\* The entries that tryFinalize may finalize, and the one it picks.
Finalizable(f) ==
  {i \in 1 .. Len(f.data) : /\ Number[f.data[i].l2] > Number[f.lastFinalizedL2]
                            /\ L1Number[f.data[i].l1] <= L1Number[f.finalizedL1]}

Pick(f) ==
  LET best == {i \in Finalizable(f) :
                 \A j \in Finalizable(f) : Number[f.data[j].l2] <= Number[f.data[i].l2]}
  IN  f.data[CHOOSE i \in best : \A j \in best : i <= j]

\* Mutant: only the signal is checked, not the L1 block the L2 block came from.
OnFinalizingChainSignalOnly(f, d, tip) ==
  L1ByNumber(tip, L1Number[f.finalizedL1]) = f.finalizedL1

\* The two sanity checks against the L1 node whose head is tip.
OnFinalizingChain(f, d, tip) ==
  /\ L1ByNumber(tip, L1Number[f.finalizedL1]) = f.finalizedL1
  /\ L1ByNumber(tip, L1Number[d.l1]) = d.l1
=============================================================================
