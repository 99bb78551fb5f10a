------------------------------- MODULE Chains -------------------------------
(***************************************************************************)
(* The L1 and L2 block trees that a rollup node (op-node) works on, and    *)
(* what derivation makes of them.  A block is its hash: eth.L1BlockRef and *)
(* eth.L2BlockRef are looked up in the functions below, and NoBlock is the *)
(* zero reference, whose number reads as 0.                                *)
(***************************************************************************)
EXTENDS Naturals, Sequences, FiniteSets

CONSTANTS
  L1Block, L1Number, L1Parent, L1Genesis,  \* the L1 tree
  L2Block, Number, Parent, Genesis,        \* the L2 tree
  L1Origin,    \* [L2Block -> L1Block]
  NoBlock,     \* the zero reference
  Batches,     \* [L1Block -> SUBSET L2Block]: the blocks whose batches it carries
  Concluding,  \* the blocks whose batch ends a span
  Invalid,     \* the blocks that the execution engine rejects
  DepositsOnly \* [Invalid -> L2Block]: what replaces a rejected block

\* Numbers follow parents, an L2 block's origin is its parent's or the next
\* one, an L1 block carries at most one batch for each parent, and neither
\* genesis nor deposits alone are ever rejected.
ASSUME ChainsAssumption ==
  /\ NoBlock \notin L1Block \cup L2Block
  /\ L1Genesis \in L1Block /\ Genesis \in L2Block
  /\ L1Number \in [L1Block \cup {NoBlock} -> Nat] /\ L1Number[NoBlock] = 0
  /\ Number \in [L2Block \cup {NoBlock} -> Nat] /\ Number[NoBlock] = 0
  /\ L1Parent \in [L1Block -> L1Block \cup {NoBlock}]
  /\ Parent \in [L2Block -> L2Block \cup {NoBlock}]
  /\ L1Origin \in [L2Block -> L1Block]
  /\ \A b \in L1Block : b # L1Genesis =>
       L1Parent[b] \in L1Block /\ L1Number[b] = L1Number[L1Parent[b]] + 1
  /\ \A b \in L2Block : b # Genesis =>
       /\ Parent[b] \in L2Block /\ Number[b] = Number[Parent[b]] + 1
       /\ \/ L1Origin[b] = L1Origin[Parent[b]]
          \/ L1Origin[b] # L1Genesis /\ L1Parent[L1Origin[b]] = L1Origin[Parent[b]]
  /\ L1Number[L1Genesis] = 0 /\ L1Origin[Genesis] = L1Genesis /\ Number[Genesis] = 0
  /\ Batches \in [L1Block -> SUBSET (L2Block \ {Genesis})]
  /\ \A b \in L1Block : \A x, y \in Batches[b] : Parent[x] = Parent[y] => x = y
  /\ Concluding \subseteq L2Block /\ Invalid \subseteq L2Block
  /\ Genesis \notin Invalid
  /\ DepositsOnly \in [Invalid -> L2Block \ Invalid]
  /\ \A x \in Invalid : Parent[DepositsOnly[x]] = Parent[x]

L1Ref == L1Block \cup {NoBlock}
L2Ref == L2Block \cup {NoBlock}

\* The chain that ends in a block, as a set.
L1Chain[b \in L1Block] ==
  IF b = L1Genesis THEN {b} ELSE {b} \cup L1Chain[L1Parent[b]]

L2Chain[b \in L2Block] ==
  IF b = Genesis THEN {b} ELSE {b} \cup L2Chain[Parent[b]]

Extends(b, a) == b = a \/ (b \in L2Block /\ a \in L2Chain[b])

\* L1BlockRefByNumber on a node whose head is tip; NoBlock is ethereum.NotFound.
L1ByNumber(tip, n) ==
  IF \E b \in L1Chain[tip] : L1Number[b] = n
    THEN CHOOSE b \in L1Chain[tip] : L1Number[b] = n
    ELSE NoBlock

\* PayloadByNumber on an engine whose head is tip.
L2ByNumber(tip, n) ==
  IF \E b \in L2Chain[tip] : Number[b] = n
    THEN CHOOSE b \in L2Chain[tip] : Number[b] = n
    ELSE NoBlock

\* The first block of its epoch has sequence number 0.
FirstOfEpoch(b) == b = Genesis \/ L1Origin[b] # L1Origin[Parent[b]]

-----------------------------------------------------------------------------
(* What the L1 chain says: the reference that the node is compared with. *)

Built(x) == IF x \in Invalid THEN DepositsOnly[x] ELSE x

\* The L2 blocks that derivation adds to the chain ending in tip while it reads b.
DeriveFrom[b \in L1Block, tip \in L2Block] ==
  IF \E x \in Batches[b] : Parent[x] = tip
    THEN LET x == CHOOSE x \in Batches[b] : Parent[x] = tip
         IN  DeriveFrom[b, Built(x)]
    ELSE tip

DerivedTip[b \in L1Block] ==
  IF b = L1Genesis THEN Genesis ELSE DeriveFrom[b, DerivedTip[L1Parent[b]]]

\* The L2 chain that the L1 chain ending in b determines.
Derived(b) == L2Chain[DerivedTip[b]]
=============================================================================
