---------------------------- MODULE OpNodeProofs ----------------------------
(***************************************************************************)
(* What holds of the node for all trees of blocks, whatever L1 carries and *)
(* however it reorganizes, whatever peers send, and any number of failed   *)
(* calls, manual resets and restarts: nothing is awaited that cannot come, *)
(* what becomes safe was built from a batch, and a reset finds canonical   *)
(* heads.  The safe head database keeps its entries in order and           *)
(* implements SafeHeadHistory, alone and inside the node, as long as it is *)
(* called in the order it relies on.                                       *)
(*                                                                         *)
(* The argument is about the event queue.  Each event carries only blocks  *)
(* that the engine may accept, and attributes of a batch that was read;    *)
(* until the first reset after a start, the queue holds a few kinds of     *)
(* events, in the order of their rounds, and derivation does not run; and  *)
(* who waits for an answer finds the event that will bring it.             *)
(***************************************************************************)
EXTENDS OpNode, Functions, WellFoundedInduction, TLAPS

-----------------------------------------------------------------------------
(* Least and greatest *)

\* A set of keys has a first element, and, if bounded, a last one.
LEMMA FirstIsLeast ==
  ASSUME NEW S \in SUBSET Nat, S # {}
  PROVE  First(S) \in S /\ \A j \in S : First(S) <= j
<1> DEFINE LessThan == {ss \in Nat \X Nat : ss[1] < ss[2]}
<1>a. IsWellFoundedOn(LessThan, Nat)
  BY NatLessThanWellFounded, Zenon DEF OpToRel
<1>1. PICK i \in S : \A j \in S : ~(<<j, i>> \in LessThan)
  <2> HIDE DEF LessThan
  <2> QED
    BY <1>a, WFMin, Zenon
<1>2. ASSUME NEW j \in S, ~(i <= j) PROVE FALSE
  <2>1. i \in Nat /\ j \in Nat
    OBVIOUS
  <2>2. <<j, i>> \in LessThan
    BY <1>2, <2>1
  <2> QED
    BY <1>1, <2>2
<1> QED
  BY <1>2 DEF First

LEMMA LastIsGreatest ==
  ASSUME NEW S \in SUBSET Nat, S # {}, NEW n \in Nat, \A k \in S : k <= n
  PROVE  Last(S) \in S /\ \A j \in S : j <= Last(S)
<1> DEFINE T == {n - k : k \in S}
<1>1. T \in SUBSET Nat /\ T # {}
  <2>1. ASSUME NEW k \in S PROVE n - k \in Nat
    OBVIOUS
  <2>2. T \subseteq Nat
    BY <2>1, Zenon
  <2>3. PICK k \in S : TRUE
    OBVIOUS
  <2>4. n - k \in T
    OBVIOUS
  <2> QED
    BY <2>2, <2>4, Zenon
<1>2. First(T) \in T /\ \A j \in T : First(T) <= j
  <2> HIDE DEF T
  <2> QED
    BY <1>1, FirstIsLeast
<1>3. PICK k \in S : First(T) = n - k
  BY <1>2
<1>4. \A j \in S : n - k <= n - j
  BY <1>2, <1>3
<1>5. \A j \in S : j <= k
  BY <1>4
<1> QED
  BY <1>5 DEF Last

-----------------------------------------------------------------------------
(* Trees of blocks *)

\* T is a tree of blocks with the root G, parents P and numbers N.
Tree(T, G, P, N) ==
  /\ G \in T
  /\ \A b \in T : N[b] \in Nat
  /\ \A b \in T : b # G => P[b] \in T /\ N[b] = N[P[b]] + 1

\* The function f gives the chain that ends in a block.
Chain(T, G, P, f) ==
  \A b \in T : f[b] = IF b = G THEN {b} ELSE {b} \cup f[P[b]]

\* It is the recursive function that defines them.
Unfolds(T, G, P, f) == f = [b \in T |-> IF b = G THEN {b} ELSE {b} \cup f[P[b]]]

\* What holds of the root, and of a block if it holds of its parent, holds of all.
LEMMA FromParents ==
  ASSUME NEW T, NEW G, NEW P, NEW N, Tree(T, G, P, N), NEW S \in SUBSET T,
         G \in S, \A b \in T : b # G /\ P[b] \in S => b \in S
  PROVE  S = T
<1> SUFFICES ASSUME NEW x \in T, x \notin S PROVE FALSE
  OBVIOUS
<1> DEFINE K == {N[b] : b \in T \ S}
<1>1. K \in SUBSET Nat /\ K # {}
  BY DEF Tree
<1>2. First(K) \in K /\ \A j \in K : First(K) <= j
  <2> HIDE DEF K
  <2> QED  BY <1>1, FirstIsLeast
<1>3. PICK b \in T \ S : N[b] = First(K)
  BY <1>2
<1>4. b # G /\ P[b] \in T \ S
  BY <1>3 DEF Tree
<1>5. N[P[b]] \in K /\ N[P[b]] \in Nat /\ N[b] = N[P[b]] + 1
  BY <1>4 DEF Tree
<1>6. N[b] <= N[P[b]]
  BY <1>2, <1>3, <1>5
<1> QED  BY <1>5, <1>6

\* The chains exist: the blocks that are in every set which holds b, and with a block
\* its parent.
LEMMA ChainExists ==
  ASSUME NEW T, NEW G, NEW P, G \in T, \A b \in T : b # G => P[b] \in T
  PROVE  \E f : Unfolds(T, G, P, f)
<1> DEFINE Closed(A) == \A x \in A : x # G => P[x] \in A
           C(b) == {c \in T : \A A \in SUBSET T : b \in A /\ Closed(A) => c \in A}
           f == [b \in T |-> C(b)]
<1>1. ASSUME NEW b \in T PROVE b \in C(b) /\ Closed(C(b)) /\ C(b) \in SUBSET T
  <2>1. b \in C(b)
    OBVIOUS
  <2>2. ASSUME NEW x \in C(b), x # G PROVE P[x] \in C(b)
    BY <2>2
  <2> QED  BY <2>1, <2>2
<1>2. ASSUME NEW b \in T, b = G PROVE C(b) = {b}
  <2>1. {b} \in SUBSET T /\ Closed({b})
    BY <1>2
  <2> QED  BY <1>1, <2>1
<1>3. ASSUME NEW b \in T, b # G PROVE C(b) = {b} \cup C(P[b])
  <2>0. P[b] \in T
    BY <1>3
  <2>1. C(P[b]) \subseteq C(b)
    BY <1>3
  <2>2. C(b) \subseteq {b} \cup C(P[b])
    <3> DEFINE A == {b} \cup C(P[b])
    <3>1. P[b] \in C(P[b]) /\ Closed(C(P[b])) /\ C(P[b]) \in SUBSET T
      BY <1>1, <2>0
    <3>2. A \in SUBSET T /\ b \in A /\ Closed(A)
      <4> HIDE DEF C
      <4> QED  BY <3>1
    <3> QED  BY <3>2
  <2> QED  BY <1>1, <2>1, <2>2
<1>4. \A b \in T : C(b) = IF b = G THEN {b} ELSE {b} \cup C(P[b])
  <2> HIDE DEF C
  <2> QED  BY <1>2, <1>3
<1>5. f = [b \in T |-> IF b = G THEN {b} ELSE {b} \cup f[P[b]]]
  <2> HIDE DEF C
  <2>1. \A b \in T : b # G => f[P[b]] = C(P[b])
    OBVIOUS
  <2>2. \A b \in T : C(b) = IF b = G THEN {b} ELSE {b} \cup f[P[b]]
    BY <1>4, <2>1
  <2> QED  BY <2>2
<1> HIDE DEF f
<1> QED  BY <1>5 DEF Unfolds

LEMMA L1Tree ==
  Tree(L1Block, L1Genesis, L1Parent, L1Number) /\ Chain(L1Block, L1Genesis, L1Parent, L1Chain)
<1>1. Tree(L1Block, L1Genesis, L1Parent, L1Number)
  BY ChainsAssumption DEF Tree
<1>r. L1Genesis \in L1Block /\ \A b \in L1Block : b # L1Genesis => L1Parent[b] \in L1Block
  BY <1>1 DEF Tree
<1>2. \E f : Unfolds(L1Block, L1Genesis, L1Parent, f)
  BY <1>r, ChainExists
<1>3. Unfolds(L1Block, L1Genesis, L1Parent, L1Chain)
  BY <1>2, Zenon DEF L1Chain, Unfolds
<1>4. Chain(L1Block, L1Genesis, L1Parent, L1Chain)
  BY <1>3, Zenon DEF Chain, Unfolds
<1> QED  BY <1>1, <1>4

LEMMA L2Tree ==
  Tree(L2Block, Genesis, Parent, Number) /\ Chain(L2Block, Genesis, Parent, L2Chain)
<1>1. Tree(L2Block, Genesis, Parent, Number)
  BY ChainsAssumption DEF Tree
<1>r. Genesis \in L2Block /\ \A b \in L2Block : b # Genesis => Parent[b] \in L2Block
  BY <1>1 DEF Tree
<1>2. \E f : Unfolds(L2Block, Genesis, Parent, f)
  BY <1>r, ChainExists
<1>3. Unfolds(L2Block, Genesis, Parent, L2Chain)
  BY <1>2, Zenon DEF L2Chain, Unfolds
<1>4. Chain(L2Block, Genesis, Parent, L2Chain)
  BY <1>3, Zenon DEF Chain, Unfolds
<1> QED  BY <1>1, <1>4

\* A chain starts at the root, ends in its block, and its blocks have lower numbers.
LEMMA ChainShape ==
  ASSUME NEW T, NEW G, NEW P, NEW N, NEW f, Tree(T, G, P, N), Chain(T, G, P, f)
  PROVE  \A b \in T : /\ f[b] \subseteq T /\ G \in f[b] /\ b \in f[b]
                      /\ \A c \in f[b] : N[c] <= N[b] /\ (N[c] = N[b] => c = b)
<1> DEFINE Good(b) == /\ f[b] \subseteq T /\ G \in f[b] /\ b \in f[b]
                      /\ \A c \in f[b] : N[c] <= N[b] /\ (N[c] = N[b] => c = b)
           S == {b \in T : Good(b)}
<1>r. f[G] = {G} /\ G \in T /\ N[G] \in Nat
  BY DEF Tree, Chain
<1>1. Good(G)
  BY <1>r
<1>2. ASSUME NEW b \in T, b # G, Good(P[b]) PROVE Good(b)
  <2>1. f[b] = {b} \cup f[P[b]] /\ P[b] \in T /\ N[P[b]] \in Nat /\ N[b] = N[P[b]] + 1
    BY <1>2 DEF Tree, Chain
  <2>2. \A c \in f[P[b]] : N[c] <= N[P[b]] /\ N[c] \in Nat
    BY <1>2 DEF Tree
  <2>3. \A c \in f[b] : N[c] <= N[b] /\ (N[c] = N[b] => c = b)
    BY <2>1, <2>2
  <2> QED  BY <1>2, <2>1, <2>3
<1>3. S = T
  <2>1. S \in SUBSET T /\ G \in S /\ \A b \in T : b # G /\ P[b] \in S => b \in S
    <3> HIDE DEF Good
    <3> QED  BY <1>1, <1>2 DEF Tree
  <2> HIDE DEF S
  <2> QED  BY <2>1, FromParents
<1> QED  BY <1>3

\* The chains that end in the blocks of a chain are its parts: any two of its blocks
\* are on one of them.
LEMMA ChainParts ==
  ASSUME NEW T, NEW G, NEW P, NEW N, NEW f, Tree(T, G, P, N), Chain(T, G, P, f)
  PROVE  \A b \in T : \A c, d \in f[b] :
           f[d] \subseteq f[b] /\ (N[c] <= N[d] => c \in f[d])
<1> DEFINE Good(b) == \A c, d \in f[b] : f[d] \subseteq f[b] /\ (N[c] <= N[d] => c \in f[d])
           S == {b \in T : Good(b)}
<1>r. f[G] = {G} /\ G \in T /\ N[G] \in Nat
  BY DEF Tree, Chain
<1>1. Good(G)
  BY <1>r
<1>2. ASSUME NEW b \in T, b # G, Good(P[b]) PROVE Good(b)
  <2>1. f[b] = {b} \cup f[P[b]] /\ P[b] \in T /\ N[P[b]] \in Nat /\ N[b] = N[P[b]] + 1
    BY <1>2 DEF Tree, Chain
  <2>2. \A c \in f[P[b]] : N[c] <= N[P[b]] /\ N[c] \in Nat
    BY <2>1, ChainShape DEF Tree
  <2>3. ASSUME NEW c \in f[b], NEW d \in f[b]
        PROVE  f[d] \subseteq f[b] /\ (N[c] <= N[d] => c \in f[d])
    <3>1. CASE d = b
      BY <3>1, <2>3
    <3>2. CASE d \in f[P[b]] /\ c = b
      BY <3>2, <1>2, <2>1, <2>2
    <3>3. CASE d \in f[P[b]] /\ c \in f[P[b]]
      BY <3>3, <1>2, <2>1
    <3> QED  BY <2>1, <3>1, <3>2, <3>3
  <2> QED  BY <2>3
<1>3. S = T
  <2>1. S \in SUBSET T /\ G \in S /\ \A b \in T : b # G /\ P[b] \in S => b \in S
    <3> HIDE DEF Good
    <3> QED  BY <1>1, <1>2 DEF Tree
  <2> HIDE DEF S
  <2> QED  BY <2>1, FromParents
<1> QED  BY <1>3

-----------------------------------------------------------------------------
(* The invariant *)

\* The L2 blocks on whose chain the engine rejects none.
Valid == {b \in L2Block : L2Chain[b] \cap Invalid = {}}
ValidRef == Valid \cup {NoBlock}

\* The attributes of a batch that an L1 block carries, or of its deposits-only form.
Carries(src, b) == \E x \in Batches[src] : b \in {x, Built(x)}
Carried == {a \in Attributes : Carries(a.from, a.block)}
Buildable == {a \in Carried : Parent[a.block] \in Valid}
Executed == {a \in Carried : a.block \in Valid}

\* The events of a build after its start, and all that carry attributes.
BuildTypes == {"BuildStart", "BuildStarted", "BuildSeal", "BuildSealed", "PayloadProcess"}

SignalEvent ==
  [t : {"Step", "Reset", "ResetEngineRequest", "EngineTemporaryError", "L1TemporaryError",
        "DeriverMore", "TryFinalize", "ConfirmReceivedAttributes", "ConfirmPipelineReset",
        "CriticalError", "UnsafeUpdate"}]

HeadsEvent ==
  [t : {"ForkchoiceUpdate"}, unsafe : ValidRef, safe : ValidRef, finalized : ValidRef]
  \cup [t : {"PendingSafeUpdate"}, pending : Valid, unsafe : ValidRef]
  \cup [t : {"PipelineStep"}, pending : Valid]

SafeEvent ==
  {m \in [t : {"SafeDerived", "LocalSafeUpdate"}, ref : Valid, source : L1Block] :
     Carries(m.source, m.ref)}

OtherEvent ==
  [t : {"EngineResetConfirmed"}, ref : Valid] \cup [t : {"PayloadInvalid"}, ref : L2Block]
  \cup [t : {"DeriverIdle"}, origin : L1Ref]

JobEvent ==
  [t : BuildTypes, attr : Buildable] \cup [t : {"PayloadSuccess"}, attr : Executed]
  \cup [t : {"BuildInvalid", "DepositsOnlyRequest", "PayloadSealExpired", "DerivedAttributes"},
        attr : Carried]

\* What may wait in the queue.
Event == SignalEvent \cup HeadsEvent \cup SafeEvent \cup OtherEvent \cup JobEvent

\* What may wait until the first reset of the engine.
StartEvent ==
  [t : {"Step", "Reset", "ResetEngineRequest", "TryFinalize"}]
  \cup [t : {"ForkchoiceUpdate"}, unsafe : {NoBlock}, safe : {NoBlock}, finalized : {NoBlock}]
  \cup [t : {"PendingSafeUpdate"}, pending : {NoBlock}, unsafe : {NoBlock}]
  \cup [t : {"PipelineStep"}, pending : {NoBlock}]

\* A step of the event loop asks for the pending-safe head, then the pipeline steps, and
\* resets the node.  No round is begun before the one before last is over.
Aside(m) == m.t \in {"ForkchoiceUpdate", "TryFinalize"}
Round(m) == CASE m.t = "Step" -> 0
              [] m.t = "PendingSafeUpdate" -> 1
              [] m.t = "PipelineStep" -> 2
              [] OTHER -> 3
InRounds(q) ==
  \A i, j \in DOMAIN q : i < j /\ ~Aside(q[i]) /\ ~Aside(q[j]) =>
    Round(q[i]) <= Round(q[j]) /\ Round(q[j]) <= Round(q[i]) + 1

ValidEngine == [head : Valid, safe : Valid, finalized : Valid]

\* The controller after the first reset.
RunningController ==
  [ unsafe : ValidRef, pending : Valid, localSafe : Valid, safe : Valid,
    finalized : Valid, needFCU : BOOLEAN ]

Handler == [attributes : Carried \cup {NoAttributes}, sent : BOOLEAN]

PipelineOK(p) ==
  /\ p \in Pipeline
  /\ p.last \in Carried \cup {NoAttributes}
  /\ p.resetting > 0 => p.traversal \in L1Block
  /\ p.resetL2Safe # NoBlock => p.origin \in L1Block
  /\ p.resetting = Stages /\ p.batch # NoBlock => p.batch \in Batches[p.traversal]

ValidData == [l2 : Valid, l1 : L1Block]
FinalizerOK(f) ==
  /\ f \in [finalizedL1 : L1Ref, lastFinalizedL2 : L2Ref, triedAt : Nat, data : Seq(ValidData)]
  /\ Len(f.data) <= FinalityLookback

\* Every entry of the safe head database is under the number of its L1 block.
DBTyped(d) ==
  DOMAIN d \subseteq Heights /\ \A n \in DOMAIN d : d[n] \in Entry /\ L1Number[d[n].l1] = n

\* The state that does not depend on whether the engine was reset.
Shape ==
  /\ l1 \in [head : L1Block, finalized : L1Block]
  /\ el \in ValidEngine
  /\ draining \in BOOLEAN /\ (draining => queue # <<>>)
  /\ sched \in [requested : BOOLEAN, delayed : BOOLEAN, retrying : BOOLEAN]
  /\ payloads \subseteq L2Block
  /\ att \in Handler
  /\ PipelineOK(pipe)
  /\ FinalizerOK(fin)
  /\ DBTyped(db)
  /\ budget \in Scenario

\* The node has started, and the engine was not reset yet: nothing is derived.
Starting ==
  /\ eng = NewController /\ att = NewHandler /\ pipe = NewPipeline /\ fin.data = <<>>
  /\ queue \in Seq(StartEvent) /\ InRounds(queue)
  /\ ~draining => \A m \in Range(queue) : m.t = "Step" \/ Aside(m)

\* The event m will end the wait for the build of block b.
Ends(m, b) ==
  \/ m.t \in {"EngineTemporaryError", "Reset", "CriticalError", "PayloadSealExpired",
              "DerivedAttributes"}
  \/ m.t \in BuildTypes \cup {"BuildInvalid", "DepositsOnlyRequest", "PayloadSuccess"}
     /\ m.attr.block = b

BuildEnds(a, e, q) ==
  a.sent => /\ a.attributes \in Carried
            /\ \/ Number[a.attributes.block] <= Number[e.pending]
               \/ \E m \in Range(q) : Ends(m, a.attributes.block)

ConfirmationComes(p, q) ==
  p.unconfirmed => \E m \in Range(q) : m.t \in {"DerivedAttributes", "ConfirmReceivedAttributes"}

Running ==
  /\ eng \in RunningController
  /\ queue \in Seq(Event)
  /\ BuildEnds(att, eng, queue)
  /\ ConfirmationComes(pipe, queue)

IInv == Shape /\ (Starting \/ Running)

-----------------------------------------------------------------------------
(* Blocks *)

LEMMA Blocks ==
  /\ NoBlock \notin L2Block /\ NoBlock \notin L1Block /\ Number[NoBlock] = 0
  /\ \A b \in L2Ref : Number[b] \in Nat
  /\ \A b \in L2Block : Parent[b] \in L2Ref /\ L1Origin[b] \in L1Block
  /\ \A b \in L1Ref : L1Number[b] \in Nat
  /\ Genesis \in L2Block /\ Number[Genesis] = 0
  /\ \A b \in L2Block : b # Genesis => Parent[b] \in L2Block /\ Number[b] = Number[Parent[b]] + 1
BY ChainsAssumption DEF L2Ref, L1Ref

LEMMA L2Chains ==
  \A b \in L2Block :
    /\ L2Chain[b] \subseteq L2Block /\ Genesis \in L2Chain[b] /\ b \in L2Chain[b]
    /\ \A c \in L2Chain[b] : Number[c] <= Number[b] /\ (Number[c] = Number[b] => c = b)
    /\ \A c, d \in L2Chain[b] :
         L2Chain[d] \subseteq L2Chain[b] /\ (Number[c] <= Number[d] => c \in L2Chain[d])
BY L2Tree, ChainShape, ChainParts

\* The parent of a block is on its chain.
LEMMA ParentOnChain ==
  ASSUME NEW b \in L2Block, b # Genesis
  PROVE  Parent[b] \in L2Chain[b] /\ L2Chain[b] = {b} \cup L2Chain[Parent[b]]
<1>1. L2Chain[b] = {b} \cup L2Chain[Parent[b]]
  BY L2Tree DEF Chain
<1>2. Parent[b] \in L2Chain[Parent[b]]
  BY L2Chains, Blocks
<1> QED  BY <1>1, <1>2

LEMMA ValidBlocks ==
  /\ Genesis \in Valid
  /\ \A b \in Valid : b \in L2Block /\ b \notin Invalid /\ L2Chain[b] \subseteq Valid
                      /\ (b # Genesis => Parent[b] \in Valid)
  /\ \A b \in L2Block : b \notin Invalid /\ Parent[b] \in Valid => b \in Valid
<1>1. Genesis \in Valid
  <2>1. L2Chain[Genesis] = {Genesis} /\ Genesis \in L2Block
    BY L2Tree, Blocks DEF Chain
  <2> QED  BY <2>1, ChainsAssumption DEF Valid
<1>2. ASSUME NEW b \in Valid
      PROVE  b \in L2Block /\ b \notin Invalid /\ L2Chain[b] \subseteq Valid
  <2>1. b \in L2Block /\ L2Chain[b] \cap Invalid = {} /\ L2Chain[b] \subseteq L2Block
        /\ b \in L2Chain[b] /\ \A c \in L2Chain[b] : L2Chain[c] \subseteq L2Chain[b]
    BY L2Chains DEF Valid
  <2> QED  BY <2>1 DEF Valid
<1>3. ASSUME NEW b \in L2Block, b \notin Invalid, Parent[b] \in Valid PROVE b \in Valid
  <2>1. CASE b = Genesis
    BY <2>1, <1>1
  <2>2. CASE b # Genesis
    BY <2>2, <1>3, ParentOnChain DEF Valid
  <2> QED  BY <2>1, <2>2
<1>4. ASSUME NEW b \in Valid, b # Genesis PROVE Parent[b] \in Valid
  BY <1>2, <1>4, ParentOnChain
<1> QED  BY <1>1, <1>2, <1>3, <1>4

\* A block that L1 carries has a parent, and its deposits-only form is carried too; if
\* the engine accepts it, it is what derivation makes of its batch.
LEMMA CarriedBlocks ==
  ASSUME NEW src \in L1Block, NEW b, Carries(src, b)
  PROVE  /\ b \in L2Block /\ Parent[b] \in L2Block /\ Carries(src, Built(b))
         /\ b \notin Invalid => \E x \in Batches[src] : b = Built(x)
<1>1. PICK x \in Batches[src] : b = x \/ b = Built(x)
  BY DEF Carries
<1>2. x \in L2Block /\ x # Genesis /\ Parent[x] \in L2Block
  BY ChainsAssumption
<1>3. /\ Built(x) \in L2Block /\ Built(x) \notin Invalid /\ Parent[Built(x)] = Parent[x]
      /\ x \notin Invalid => Built(x) = x
  BY <1>2, ChainsAssumption DEF Built
<1>4. Built(b) = Built(x)
  BY <1>1, <1>3 DEF Built
<1> QED  BY <1>1, <1>2, <1>3, <1>4 DEF Carries

\* L1BlockRefByNumber gives the block of the chain with that number, if there is one.
LEMMA L1Nodes ==
  ASSUME NEW tip \in L1Block
  PROVE  /\ \A n : \/ L1ByNumber(tip, n) = NoBlock
                   \/ L1ByNumber(tip, n) \in L1Chain[tip] /\ L1ByNumber(tip, n) \in L1Block
         /\ L1ByNumber(tip, 0) = L1Genesis
         /\ \A b \in L1Chain[tip] : b \in L1Block
<1>1. L1Chain[tip] \subseteq L1Block /\ L1Genesis \in L1Chain[tip]
  BY L1Tree, ChainShape
<1>2. \A n : \/ L1ByNumber(tip, n) = NoBlock
             \/ L1ByNumber(tip, n) \in L1Chain[tip] /\ L1ByNumber(tip, n) \in L1Block
  BY <1>1 DEF L1ByNumber
<1>3. \A b \in L1Block : L1Number[b] = 0 <=> b = L1Genesis
  <2>1. ASSUME NEW b \in L1Block, b # L1Genesis PROVE L1Number[b] # 0
    <3>1. L1Number[L1Parent[b]] \in Nat /\ L1Number[b] = L1Number[L1Parent[b]] + 1
      BY <2>1, L1Tree DEF Tree
    <3> QED  BY <3>1
  <2> QED  BY <2>1, ChainsAssumption
<1>4. L1ByNumber(tip, 0) = L1Genesis
  BY <1>1, <1>3 DEF L1ByNumber
<1> QED  BY <1>1, <1>2, <1>4

\* PayloadByNumber gives a block of the engine's chain.
LEMMA L2Nodes ==
  ASSUME NEW tip \in L2Block, NEW n, L2ByNumber(tip, n) # NoBlock
  PROVE  L2ByNumber(tip, n) \in L2Chain[tip]
BY DEF L2ByNumber

-----------------------------------------------------------------------------
(* Events *)

LEMMA Signals ==
  \A s \in {"Step", "Reset", "ResetEngineRequest", "EngineTemporaryError", "L1TemporaryError",
            "DeriverMore", "TryFinalize", "ConfirmReceivedAttributes", "ConfirmPipelineReset",
            "CriticalError", "UnsafeUpdate"} :
    Signal(s) \in Event /\ Signal(s).t = s /\ <<Signal(s)>> \in Seq(Event)
BY DEF Signal, Event, SignalEvent

\* The events that carry heads.
LEMMA HeadEvents ==
  ASSUME NEW e \in RunningController
  PROVE  /\ RequestPendingSafeUpdate(e) \in Event /\ RequestForkchoiceUpdate(e) \in Event
         /\ <<RequestPendingSafeUpdate(e)>> \in Seq(Event)
         /\ <<RequestForkchoiceUpdate(e)>> \in Seq(Event)
<1>1. /\ e.unsafe \in ValidRef /\ e.pending \in Valid /\ e.safe \in ValidRef
      /\ e.finalized \in ValidRef
  BY DEF RunningController, ValidRef
<1>2. RequestPendingSafeUpdate(e) \in HeadsEvent /\ RequestForkchoiceUpdate(e) \in HeadsEvent
  BY <1>1 DEF RequestPendingSafeUpdate, RequestForkchoiceUpdate, PendingSafeUpdate,
              ForkchoiceUpdate, HeadsEvent
<1> QED  BY <1>2 DEF Event

LEMMA JobEvents ==
  ASSUME NEW a \in Carried
  PROVE  /\ \A s \in {"BuildInvalid", "DepositsOnlyRequest", "PayloadSealExpired",
                      "DerivedAttributes"} :
              Job(s, a) \in Event /\ Job(s, a).t = s /\ Job(s, a).attr = a
         /\ Parent[a.block] \in Valid =>
              \A s \in BuildTypes : Job(s, a) \in Event /\ Job(s, a).t = s /\ Job(s, a).attr = a
         /\ a.block \in Valid =>
              Job("PayloadSuccess", a) \in Event /\ Job("PayloadSuccess", a).t = "PayloadSuccess"
              /\ Job("PayloadSuccess", a).attr = a
<1>1. \A s \in {"BuildInvalid", "DepositsOnlyRequest", "PayloadSealExpired", "DerivedAttributes"} :
        Job(s, a) \in JobEvent
  BY DEF Job, JobEvent
<1>2. Parent[a.block] \in Valid => \A s \in BuildTypes : Job(s, a) \in JobEvent
  BY DEF Job, JobEvent, Buildable
<1>3. a.block \in Valid => Job("PayloadSuccess", a) \in JobEvent
  BY DEF Job, JobEvent, Executed
<1>4. \A s : Job(s, a).t = s /\ Job(s, a).attr = a
  BY DEF Job
<1> QED  BY <1>1, <1>2, <1>3, <1>4 DEF Event

\* What an event of the queue carries.
LEMMA EventCarries ==
  ASSUME NEW m \in Event
  PROVE  /\ m.t = "ForkchoiceUpdate" =>
              m.unsafe \in ValidRef /\ m.safe \in ValidRef /\ m.finalized \in ValidRef
         /\ m.t = "PendingSafeUpdate" => m.pending \in Valid /\ m.unsafe \in ValidRef
         /\ m.t = "PipelineStep" => m.pending \in Valid
         /\ m.t \in {"SafeDerived", "LocalSafeUpdate"} =>
              m.ref \in Valid /\ m.source \in L1Block /\ Carries(m.source, m.ref)
         /\ m.t = "EngineResetConfirmed" => m.ref \in Valid
         /\ m.t = "PayloadInvalid" => m.ref \in L2Block
         /\ m.t = "DeriverIdle" => m.origin \in L1Ref
         /\ m.t \in BuildTypes => m.attr \in Buildable
         /\ m.t = "PayloadSuccess" => m.attr \in Executed
         /\ m.t \in {"BuildInvalid", "DepositsOnlyRequest", "PayloadSealExpired",
                     "DerivedAttributes"} => m.attr \in Carried
<1>1. CASE m \in SignalEvent
  BY <1>1 DEF SignalEvent, BuildTypes
<1>2. CASE m \in HeadsEvent
  BY <1>2 DEF HeadsEvent, BuildTypes
<1>3. CASE m \in SafeEvent
  BY <1>3 DEF SafeEvent, BuildTypes
<1>4. CASE m \in OtherEvent
  BY <1>4 DEF OtherEvent, BuildTypes
<1>5. CASE m \in JobEvent
  BY <1>5 DEF JobEvent, BuildTypes
<1> QED  BY <1>1, <1>2, <1>3, <1>4, <1>5 DEF Event

\* The attributes of a carried batch.
LEMMA CarriedAttributes ==
  ASSUME NEW a \in Carried
  PROVE  /\ a \in Attributes /\ a.block \in L2Block /\ a.concluding \in BOOLEAN
         /\ a.from \in L1Block /\ Parent[a.block] \in L2Block /\ Carries(a.from, a.block)
<1>1. a \in Attributes /\ Carries(a.from, a.block)
  BY DEF Carried
<1>2. a.block \in L2Block /\ a.concluding \in BOOLEAN /\ a.from \in L1Block
  BY <1>1 DEF Attributes
<1> QED  BY <1>1, <1>2, CarriedBlocks

\* The elements of a sequence that was put together.
LEMMA RangeConcat ==
  ASSUME NEW S, NEW a \in Seq(S), NEW b \in Seq(S)
  PROVE  Range(a \o b) = Range(a) \cup Range(b)
<1> DEFINE r == a \o b
<1>1. /\ Len(a) \in Nat /\ Len(b) \in Nat /\ DOMAIN a = 1 .. Len(a) /\ DOMAIN b = 1 .. Len(b)
      /\ DOMAIN r = 1 .. Len(a) + Len(b)
  OBVIOUS
<1>2. \A i \in DOMAIN a : i \in DOMAIN r /\ r[i] = a[i]
  BY <1>1
<1>3. \A i \in DOMAIN b : i + Len(a) \in DOMAIN r /\ r[i + Len(a)] = b[i]
  BY <1>1
<1>4. \A i \in DOMAIN r : \/ i \in DOMAIN a
                          \/ i - Len(a) \in DOMAIN b /\ (i - Len(a)) + Len(a) = i
  BY <1>1
<1> HIDE DEF r
<1>5. Range(r) = Range(a) \cup Range(b)
  BY <1>2, <1>3, <1>4 DEF Range
<1> QED  BY <1>5 DEF r

LEMMA Ranges ==
  /\ \A x : Range(<<x>>) = {x}
  /\ \A x, y : Range(<<x, y>>) = {x, y}
  /\ Range(<<>>) = {}
<1>2. \A x : Range(<<x>>) = {x}
  <2> TAKE x
  <2>1. DOMAIN <<x>> = {1} /\ <<x>>[1] = x  OBVIOUS
  <2> QED  BY <2>1 DEF Range
<1>3. \A x, y : Range(<<x, y>>) = {x, y}
  <2> TAKE x, y
  <2>1. DOMAIN <<x, y>> = {1, 2} /\ <<x, y>>[1] = x /\ <<x, y>>[2] = y  OBVIOUS
  <2> QED  BY <2>1 DEF Range
<1>4. Range(<<>>) = {}
  BY DEF Range
<1> QED  BY <1>2, <1>3, <1>4

-----------------------------------------------------------------------------
(* The event queue *)

\* The first event is taken and evs are added.
LEMMA Handled ==
  ASSUME NEW S, queue \in Seq(S), queue # <<>>, NEW T, Tail(queue) \in Seq(T),
         NEW evs \in Seq(T), Processed(evs)
  PROVE  /\ queue' \in Seq(T) /\ draining' \in BOOLEAN /\ (draining' => queue' # <<>>)
         /\ \A m \in Range(queue) : m = Head(queue) \/ m \in Range(queue')
         /\ \A m \in Range(evs) : m \in Range(queue')
<1> DEFINE tl == Tail(queue)
<1>1. queue' = tl \o evs /\ draining' = (queue' # <<>>) /\ tl \in Seq(T)
  BY DEF Processed
<1>2. Range(queue') = Range(tl) \cup Range(evs)
  <2> HIDE DEF tl
  <2> QED  BY <1>1, RangeConcat
<1>3. \A m \in Range(queue) : m = Head(queue) \/ m \in Range(tl)
  <2>1. /\ Len(queue) \in Nat \ {0} /\ DOMAIN queue = 1 .. Len(queue) /\ Head(queue) = queue[1]
        /\ DOMAIN tl = 1 .. Len(queue) - 1
        /\ \A i \in 1 .. Len(queue) - 1 : tl[i] = queue[i + 1]
    OBVIOUS
  <2>2. ASSUME NEW i \in DOMAIN queue, i # 1
        PROVE  i - 1 \in DOMAIN tl /\ tl[i - 1] = queue[i]
    BY <2>1, <2>2
  <2> HIDE DEF tl
  <2>3. ASSUME NEW i \in DOMAIN queue PROVE queue[i] = Head(queue) \/ queue[i] \in Range(tl)
    BY <2>1, <2>2 DEF Range
  <2> QED  BY <2>3, Zenon DEF Range
<1>4. queue' \in Seq(T)
  BY <1>1
<1>5. draining' \in BOOLEAN /\ (draining' => queue' # <<>>)
  BY <1>1, Zenon
<1> QED  BY <1>2, <1>3, <1>4, <1>5

LEMMA Head1 ==
  ASSUME NEW S, queue \in Seq(S), queue # <<>>
  PROVE  Head(queue) \in S /\ Tail(queue) \in Seq(S) /\ Head(queue) \in Range(queue)
<1>1. Head(queue) \in S /\ Tail(queue) \in Seq(S) /\ 1 \in DOMAIN queue /\ Head(queue) = queue[1]
  OBVIOUS
<1> QED  BY <1>1 DEF Range

\* A step of the running node that the wait for a build survives, and the wait for a
\* confirmation.
LEMMA BuildStillEnds ==
  ASSUME Running, queue # <<>>, NEW evs \in Seq(Event), Processed(evs),
         eng' \in RunningController, Number[eng.pending] <= Number[eng'.pending], att' = att,
         \A b \in L2Block : Ends(Head(queue), b) =>
           Number[b] <= Number[eng'.pending] \/ \E m \in Range(evs) : Ends(m, b)
  PROVE  BuildEnds(att', eng', queue')
<1>1. queue \in Seq(Event) /\ Tail(queue) \in Seq(Event)
  BY Head1 DEF Running
<1>2. /\ \A m \in Range(queue) : m = Head(queue) \/ m \in Range(queue')
      /\ \A m \in Range(evs) : m \in Range(queue')
  BY <1>1, Handled
<1> SUFFICES ASSUME att.sent
             PROVE  /\ att.attributes \in Carried
                    /\ \/ Number[att.attributes.block] <= Number[eng'.pending]
                       \/ \E m \in Range(queue') : Ends(m, att.attributes.block)
  BY DEF BuildEnds
<1>3. /\ att.attributes \in Carried
      /\ \/ Number[att.attributes.block] <= Number[eng.pending]
         \/ \E m \in Range(queue) : Ends(m, att.attributes.block)
  BY DEF Running, BuildEnds
<1>4. att.attributes.block \in L2Block
  BY <1>3, CarriedAttributes
<1>5. CASE Number[att.attributes.block] <= Number[eng.pending]
  <2>1. /\ Number[att.attributes.block] \in Nat /\ Number[eng.pending] \in Nat
        /\ Number[eng'.pending] \in Nat
    BY <1>4, Blocks DEF Running, RunningController, Valid, L2Ref
  <2> QED  BY <1>3, <1>5, <2>1
<1>6. CASE \E m \in Range(queue) : Ends(m, att.attributes.block)
  BY <1>3, <1>4, <1>6, <1>2
<1> QED  BY <1>3, <1>5, <1>6

LEMMA StillConfirmed ==
  ASSUME Running, queue # <<>>, NEW evs \in Seq(Event), Processed(evs),
         pipe'.unconfirmed => pipe.unconfirmed,
         Head(queue).t \in {"DerivedAttributes", "ConfirmReceivedAttributes"} =>
           \E m \in Range(evs) : m.t \in {"DerivedAttributes", "ConfirmReceivedAttributes"}
  PROVE  ConfirmationComes(pipe', queue')
<1>1. queue \in Seq(Event) /\ Tail(queue) \in Seq(Event)
  BY Head1 DEF Running
<1>2. /\ \A m \in Range(queue) : m = Head(queue) \/ m \in Range(queue')
      /\ \A m \in Range(evs) : m \in Range(queue')
  BY <1>1, Handled
<1> QED  BY <1>2 DEF Running, ConfirmationComes

\* Another goroutine adds events.
LEMMA EmittedRunning ==
  ASSUME Running, NEW evs \in Seq(Event), Emitted(evs), UNCHANGED <<eng, att>>,
         pipe'.unconfirmed => pipe.unconfirmed
  PROVE  Running'
<1>1. queue' = queue \o evs /\ draining' = draining /\ queue \in Seq(Event)
  BY DEF Emitted, Running
<1>2. queue' \in Seq(Event) /\ Range(queue') = Range(queue) \cup Range(evs)
  BY <1>1, RangeConcat
<1>3. BuildEnds(att', eng', queue')
  BY <1>2 DEF Running, BuildEnds
<1>4. ConfirmationComes(pipe', queue')
  BY <1>2 DEF Running, ConfirmationComes
<1> QED  BY <1>1, <1>2, <1>3, <1>4 DEF Running

-----------------------------------------------------------------------------
(* The engine controller *)

LEMMA ForkchoiceType ==
  ASSUME NEW e \in ValidEngine, NEW h \in Valid, NEW s, NEW f
  PROVE  Forkchoice(e, h, s, f).el \in ValidEngine
<1> DEFINE head == IF h \in L2Chain[e.head] THEN e.head ELSE h
<1>1. head \in Valid /\ L2Chain[head] \subseteq Valid
  BY ValidBlocks DEF ValidEngine
<1>2. e.safe \in Valid /\ e.finalized \in Valid
  BY DEF ValidEngine
<1> HIDE DEF head
<1>3. [head |-> head,
       finalized |-> IF f \in L2Chain[head] THEN f ELSE e.finalized,
       safe |-> IF f \in L2Chain[head] /\ s \in L2Chain[head] THEN s ELSE e.safe] \in ValidEngine
  BY <1>1, <1>2 DEF ValidEngine
<1> QED  BY <1>3 DEF Forkchoice, head

LEMMA UnknownsType ==
  ASSUME NEW e \in RunningController, NEW l \in ValidEngine
  PROVE  /\ InitializeUnknowns(e, l) \in RunningController
         /\ InitializeUnknowns(e, l).unsafe \in Valid
         /\ InitializeUnknowns(e, l).pending = e.pending
         /\ InitializeUnknowns(e, l).safe = e.safe
         /\ InitializeUnknowns(e, l).finalized = e.finalized
<1>1. /\ e.unsafe \in ValidRef /\ e.pending \in Valid /\ e.localSafe \in Valid /\ e.safe \in Valid
      /\ e.finalized \in Valid /\ e.needFCU \in BOOLEAN /\ l.head \in Valid
  BY DEF RunningController, ValidEngine
<1>2. \A b \in Valid : b # NoBlock
  BY Blocks, ValidBlocks
<1>3. /\ Known(e.safe, l.safe) = e.safe /\ Known(e.finalized, l.finalized) = e.finalized
      /\ Known(e.localSafe, e.safe) = e.localSafe /\ Known(e.unsafe, l.head) \in Valid
  BY <1>1, <1>2 DEF Known, ValidRef
<1>4. InitializeUnknowns(e, l) = [e EXCEPT !.unsafe = Known(e.unsafe, l.head)]
  BY <1>3, <1>1 DEF InitializeUnknowns, RunningController
<1>5. Known(e.unsafe, l.head) \in ValidRef
  BY <1>3 DEF ValidRef
<1> QED  BY <1>1, <1>3, <1>4, <1>5 DEF RunningController

LEMMA UpdateInternalType ==
  ASSUME NEW e \in RunningController, NEW l \in ValidEngine, NEW up
  PROVE  LET r == TryUpdateEngineInternal(e, l, up)
         IN  /\ r.eng \in RunningController /\ r.eng.pending = e.pending
             /\ r.eng.safe = e.safe /\ r.eng.finalized = e.finalized
             /\ r.el \in ValidEngine /\ r.evs \in Seq(Event)
             /\ r.err \in {"none", "temporary", "critical", "reset"}
<1> DEFINE k == InitializeUnknowns(e, l)
           fcu == Forkchoice(l, k.unsafe, k.safe, k.finalized)
           r == TryUpdateEngineInternal(e, l, up)
           k1 == [k EXCEPT !.needFCU = FALSE]
           nil == <<>>
           done == <<RequestForkchoiceUpdate(k)>>
           fatal == <<Signal("CriticalError")>>
<1>1. /\ k \in RunningController /\ k.unsafe \in Valid /\ k.pending = e.pending
      /\ k.safe = e.safe /\ k.finalized = e.finalized
  BY UnknownsType
<1>2. fcu.el \in ValidEngine
  BY <1>1, ForkchoiceType
<1>3. /\ k1 \in RunningController /\ k1.pending = e.pending
      /\ k1.safe = e.safe /\ k1.finalized = e.finalized
  BY <1>1 DEF RunningController
<1>4. done \in Seq(Event) /\ fatal \in Seq(Event) /\ nil \in Seq(Event)
  BY <1>1, HeadEvents, Signals
<1> HIDE DEF k, fcu
<1>5. \/ r = [eng |-> e, el |-> l, evs |-> nil, err |-> "none"]
      \/ r = [eng |-> e, el |-> l, evs |-> nil, err |-> "temporary"]
      \/ r = [eng |-> k, el |-> l, evs |-> fatal, err |-> "critical"]
      \/ r = [eng |-> k, el |-> fcu.el, evs |-> nil, err |-> "reset"]
      \/ r = [eng |-> k1, el |-> fcu.el, evs |-> done, err |-> "none"]
  BY DEF TryUpdateEngineInternal, k, fcu
<1> HIDE DEF r, k1, nil, done, fatal
<1>6. /\ r.eng \in RunningController /\ r.eng.pending = e.pending
      /\ r.eng.safe = e.safe /\ r.eng.finalized = e.finalized
      /\ r.el \in ValidEngine /\ r.evs \in Seq(Event)
      /\ r.err \in {"none", "temporary", "critical", "reset"}
  BY <1>1, <1>2, <1>3, <1>4, <1>5
<1> QED  BY <1>6 DEF r

\* tryUpdateEngine keeps the safe heads.
LEMMA UpdateType ==
  ASSUME NEW e \in RunningController, NEW l \in ValidEngine, NEW up
  PROVE  /\ TryUpdateEngine(e, l, up).eng \in RunningController
         /\ TryUpdateEngine(e, l, up).eng.pending = e.pending
         /\ TryUpdateEngine(e, l, up).eng.safe = e.safe
         /\ TryUpdateEngine(e, l, up).eng.finalized = e.finalized
         /\ TryUpdateEngine(e, l, up).el \in ValidEngine
         /\ TryUpdateEngine(e, l, up).evs \in Seq(Event)
<1> DEFINE r == TryUpdateEngineInternal(e, l, up)
<1>1. /\ r.eng \in RunningController /\ r.eng.pending = e.pending
      /\ r.eng.safe = e.safe /\ r.eng.finalized = e.finalized
      /\ r.el \in ValidEngine /\ r.evs \in Seq(Event)
  BY UpdateInternalType
<1> HIDE DEF r
<1>2. ErrorEvents(r.err) \in Seq(Event)
  BY Signals DEF ErrorEvents
<1>3. r.evs \o ErrorEvents(r.err) \in Seq(Event)
  BY <1>1, <1>2
<1>4. TryUpdateEngine(e, l, up) = [eng |-> r.eng, el |-> r.el, evs |-> r.evs \o ErrorEvents(r.err)]
  BY DEF TryUpdateEngine, r
<1> QED  BY <1>1, <1>3, <1>4

\* A promoted block is at most as high as the pending safe head after it.
LEMMA PromoteDerivedType ==
  ASSUME NEW e \in RunningController, NEW a \in Executed
  PROVE  /\ PromoteDerived(e, a).eng \in RunningController
         /\ PromoteDerived(e, a).evs \in Seq(Event)
         /\ Number[e.pending] <= Number[PromoteDerived(e, a).eng.pending]
         /\ Number[a.block] <= Number[PromoteDerived(e, a).eng.pending]
<1> DEFINE p == TryUpdatePendingSafe(e, a.block)
           q == TryUpdateLocalSafe(p.eng, a.block, a.concluding, a.from)
           e1 == [e EXCEPT !.pending = a.block]
           e2 == [p.eng EXCEPT !.localSafe = a.block]
           nil == <<>>
           pend == <<RequestPendingSafeUpdate(e1)>>
           loc == <<LocalSafeUpdate(a.block, a.from)>>
<1>1. a.block \in Valid /\ a.from \in L1Block /\ Carries(a.from, a.block)
  BY CarriedAttributes DEF Executed
<1>2. e1 \in RunningController /\ e1.pending = a.block
  BY <1>1 DEF RunningController
<1>3. pend \in Seq(Event)
  BY <1>2, HeadEvents
<1>0. nil \in Seq(Event)
  OBVIOUS
<1>n. Number[a.block] \in Nat /\ Number[e.pending] \in Nat
  BY <1>1, Blocks DEF RunningController, Valid, L2Ref
<1> HIDE DEF e1
<1>4. \/ p = [eng |-> e1, evs |-> pend]
         /\ Number[a.block] > Number[e.pending]
      \/ p = [eng |-> e, evs |-> nil] /\ ~(Number[a.block] > Number[e.pending])
  BY DEF TryUpdatePendingSafe, e1
<1> HIDE DEF nil, pend, p
<1>5. /\ p.eng \in RunningController /\ p.evs \in Seq(Event)
      /\ Number[e.pending] <= Number[p.eng.pending] /\ Number[a.block] <= Number[p.eng.pending]
  BY <1>0, <1>2, <1>3, <1>4, <1>n
<1>6. LocalSafeUpdate(a.block, a.from) \in Event
  BY <1>1 DEF LocalSafeUpdate, SafeEvent, Event
<1>7. loc \in Seq(Event)
  BY <1>6
<1>8. e2 \in RunningController /\ e2.pending = p.eng.pending
  BY <1>1, <1>5 DEF RunningController
<1> HIDE DEF e2
<1>9. \/ q = [eng |-> e2, evs |-> loc]
      \/ q = [eng |-> p.eng, evs |-> nil]
  BY DEF TryUpdateLocalSafe, e2, nil
<1> HIDE DEF loc, q
<1>10. /\ q.eng \in RunningController /\ q.eng.pending = p.eng.pending /\ q.evs \in Seq(Event)
       /\ p.evs \o q.evs \in Seq(Event)
  BY <1>0, <1>5, <1>7, <1>8, <1>9
<1>11. PromoteDerived(e, a) = [eng |-> q.eng, evs |-> p.evs \o q.evs]
  BY DEF PromoteDerived, p, q
<1> QED  BY <1>5, <1>10, <1>11

LEMMA PayloadSuccessType ==
  ASSUME NEW e \in RunningController, NEW l \in ValidEngine, NEW a \in Executed, NEW up
  PROVE  /\ PayloadSuccess(e, l, a, up).eng \in RunningController
         /\ PayloadSuccess(e, l, a, up).el \in ValidEngine
         /\ PayloadSuccess(e, l, a, up).evs \in Seq(Event)
         /\ Number[e.pending] <= Number[PayloadSuccess(e, l, a, up).eng.pending]
         /\ Number[a.block] <= Number[PayloadSuccess(e, l, a, up).eng.pending]
<1> DEFINE u == SetUnsafeHead(e, a.block)
           d == PromoteDerived(u, a)
           r == TryUpdateEngineInternal(d.eng, l, up)
<1>1. u \in RunningController /\ u.pending = e.pending
  BY DEF SetUnsafeHead, RunningController, Executed, ValidRef
<1>2. /\ d.eng \in RunningController /\ d.evs \in Seq(Event)
      /\ Number[e.pending] <= Number[d.eng.pending] /\ Number[a.block] <= Number[d.eng.pending]
  BY <1>1, PromoteDerivedType
<1> HIDE DEF d
<1>3. /\ r.eng \in RunningController /\ r.eng.pending = d.eng.pending
      /\ r.el \in ValidEngine /\ r.evs \in Seq(Event)
  BY <1>2, UpdateInternalType
<1> HIDE DEF r
<1>4. <<Signal("UnsafeUpdate")>> \o d.evs \o r.evs \in Seq(Event)
  BY <1>2, <1>3, Signals
<1>5. PayloadSuccess(e, l, a, up) =
        [eng |-> r.eng, el |-> r.el, evs |-> <<Signal("UnsafeUpdate")>> \o d.evs \o r.evs]
  BY DEF PayloadSuccess, d, r
<1> QED  BY <1>2, <1>3, <1>4, <1>5

LEMMA PromoteSafeType ==
  ASSUME NEW e \in RunningController, NEW l \in ValidEngine, NEW b \in Valid,
         NEW src \in L1Block, Carries(src, b), NEW up
  PROVE  /\ PromoteSafe(e, l, b, src, up).eng \in RunningController
         /\ PromoteSafe(e, l, b, src, up).eng.pending = e.pending
         /\ PromoteSafe(e, l, b, src, up).el \in ValidEngine
         /\ PromoteSafe(e, l, b, src, up).evs \in Seq(Event)
<1> DEFINE e1 == [e EXCEPT !.safe = b, !.needFCU = TRUE]
           r == TryUpdateEngine(e1, l, up)
<1>1. e1 \in RunningController /\ e1.pending = e.pending
  BY DEF RunningController
<1> HIDE DEF e1
<1>2. /\ r.eng \in RunningController /\ r.eng.pending = e.pending
      /\ r.el \in ValidEngine /\ r.evs \in Seq(Event)
  BY <1>1, UpdateType
<1>3. SafeDerived(b, src) \in Event
  BY DEF SafeDerived, SafeEvent, Event
<1>4. <<SafeDerived(b, src)>> \o r.evs \in Seq(Event)
  BY <1>2, <1>3
<1>5. r = [eng |-> r.eng, el |-> r.el, evs |-> r.evs]
  BY DEF TryUpdateEngine
<1> HIDE DEF r
<1>6. PromoteSafe(e, l, b, src, up) = [r EXCEPT !.evs = <<SafeDerived(b, src)>> \o r.evs]
  BY DEF PromoteSafe, r, e1
<1>7. PromoteSafe(e, l, b, src, up)
        = [eng |-> r.eng, el |-> r.el, evs |-> <<SafeDerived(b, src)>> \o r.evs]
  BY <1>5, <1>6
<1> QED  BY <1>2, <1>4, <1>7

LEMMA PromoteFinalizedType ==
  ASSUME NEW e \in RunningController, NEW l \in ValidEngine, NEW b \in Valid, NEW up
  PROVE  /\ PromoteFinalized(e, l, b, up).eng \in RunningController
         /\ PromoteFinalized(e, l, b, up).eng.pending = e.pending
         /\ PromoteFinalized(e, l, b, up).el \in ValidEngine
         /\ PromoteFinalized(e, l, b, up).evs \in Seq(Event)
<1> DEFINE e1 == [e EXCEPT !.finalized = b, !.needFCU = TRUE]
           nil == <<>>
           r == PromoteFinalized(e, l, b, up)
<1>1. e1 \in RunningController /\ e1.pending = e.pending
  BY DEF RunningController
<1> HIDE DEF e1
<1>2. r = [eng |-> e, el |-> l, evs |-> nil] \/ r = TryUpdateEngine(e1, l, up)
  BY DEF PromoteFinalized, e1
<1>3. nil \in Seq(Event)
  OBVIOUS
<1> HIDE DEF nil, r
<1>4. r.eng \in RunningController /\ r.eng.pending = e.pending
      /\ r.el \in ValidEngine /\ r.evs \in Seq(Event)
  BY <1>1, <1>2, <1>3, UpdateType
<1> QED  BY <1>4 DEF r

\* A payload is inserted if the engine accepts it.
LEMMA InsertType ==
  ASSUME NEW e \in RunningController, NEW l \in ValidEngine, NEW p \in L2Block,
         p \notin Invalid => p \in Valid, NEW up
  PROVE  /\ InsertUnsafePayload(e, l, p, up).eng \in RunningController
         /\ InsertUnsafePayload(e, l, p, up).eng.pending = e.pending
         /\ InsertUnsafePayload(e, l, p, up).el \in ValidEngine
         /\ InsertUnsafePayload(e, l, p, up).evs \in Seq(Event)
<1> DEFINE fcu == Forkchoice(l, p, e.safe, e.finalized)
           e1 == [e EXCEPT !.unsafe = p, !.needFCU = FALSE]
           r == InsertUnsafePayload(e, l, p, up)
<1>1. [t |-> "PayloadInvalid", ref |-> p] \in Event
  BY DEF OtherEvent, Event
<1>2. /\ <<Signal("EngineTemporaryError")>> \in Seq(Event) /\ <<Signal("Reset")>> \in Seq(Event)
      /\ <<[t |-> "PayloadInvalid", ref |-> p], Signal("EngineTemporaryError")>> \in Seq(Event)
  BY <1>1, Signals
<1>3. CASE ~up
  BY <1>2, <1>3 DEF InsertUnsafePayload
<1>4. CASE up /\ p \in Invalid
  BY <1>2, <1>4 DEF InsertUnsafePayload
<1>5. CASE up /\ p \notin Invalid
  <2>1. fcu.el \in ValidEngine
    BY <1>5, ForkchoiceType
  <2>2. e1 \in RunningController /\ e1.pending = e.pending
    BY <1>5 DEF RunningController, ValidRef
  <2>3. <<Signal("UnsafeUpdate"), RequestForkchoiceUpdate(e1)>> \in Seq(Event)
    BY <2>2, HeadEvents, Signals
  <2> HIDE DEF fcu, e1
  <2> DEFINE x == <<Signal("Reset")>>
             y == <<Signal("UnsafeUpdate"), RequestForkchoiceUpdate(e1)>>
  <2>4. r = [eng |-> e, el |-> fcu.el, evs |-> x] \/ r = [eng |-> e1, el |-> fcu.el, evs |-> y]
    BY <1>5 DEF InsertUnsafePayload, fcu, e1
  <2>6. x \in Seq(Event) /\ y \in Seq(Event)
    BY <1>2, <2>3
  <2> HIDE DEF r, x, y
  <2>5. /\ r.eng \in RunningController /\ r.eng.pending = e.pending
        /\ r.el \in ValidEngine /\ r.evs \in Seq(Event)
    BY <2>1, <2>2, <2>4, <2>6
  <2> QED  BY <2>5 DEF r
<1> QED  BY <1>3, <1>4, <1>5

-----------------------------------------------------------------------------
(* Resets *)

LEMMA LowestExists ==
  ASSUME NEW S \in SUBSET L2Block, S # {}
  PROVE  LowestOf(S) \in S /\ \A c \in S : Number[c] >= Number[LowestOf(S)]
<1> DEFINE K == {Number[b] : b \in S}
<1>1. K \in SUBSET Nat /\ K # {}
  BY Blocks DEF L2Ref
<1>2. First(K) \in K /\ \A j \in K : First(K) <= j
  <2> HIDE DEF K
  <2> QED  BY <1>1, FirstIsLeast
<1>3. PICK b \in S : Number[b] = First(K)
  BY <1>2
<1>4. \A c \in S : Number[c] >= Number[b]
  <2>1. \A c \in S : Number[c] \in K /\ Number[c] \in Nat
    BY Blocks DEF L2Ref
  <2> QED  BY <1>2, <1>3, <2>1
<1> QED  BY <1>4 DEF LowestOf

LEMMA HighestExists ==
  ASSUME NEW S \in SUBSET L2Block, S # {}, NEW n \in Nat, \A b \in S : Number[b] <= n
  PROVE  Highest(S) \in S /\ \A c \in S : Number[c] <= Number[Highest(S)]
<1> DEFINE K == {Number[b] : b \in S}
<1>1. K \in SUBSET Nat /\ K # {} /\ \A k \in K : k <= n
  BY Blocks DEF L2Ref
<1>2. Last(K) \in K /\ \A j \in K : j <= Last(K)
  <2> HIDE DEF K
  <2> QED  BY <1>1, LastIsGreatest
<1>3. PICK b \in S : Number[b] = Last(K)
  BY <1>2
<1>4. \A c \in S : Number[c] <= Number[b]
  <2>1. \A c \in S : Number[c] \in K
    OBVIOUS
  <2> QED  BY <1>2, <1>3, <2>1
<1> QED  BY <1>4 DEF Highest

\* A block of the L1 chain is what the L1 node gives for its number.
LEMMA L1NodeFinds ==
  ASSUME NEW tip \in L1Block, NEW b \in L1Chain[tip]
  PROVE  L1ByNumber(tip, L1Number[b]) = b
<1>1. L1Chain[tip] \subseteq L1Block
  BY L1Nodes
<1>2. \A c \in L1Block : /\ \A d \in L1Chain[c] : L1Number[d] = L1Number[c] => d = c
                         /\ c \in L1Chain[c]
  BY L1Tree, ChainShape
<1>3. \A c, d \in L1Chain[tip] : L1Number[c] <= L1Number[d] => c \in L1Chain[d]
  BY L1Tree, ChainParts
<1>4. \A c \in L1Chain[tip] : L1Number[c] = L1Number[b] => c = b
  <2> TAKE c \in L1Chain[tip]
  <2> SUFFICES ASSUME L1Number[c] = L1Number[b] PROVE c = b
    OBVIOUS
  <2>1. L1Number[c] \in Nat /\ L1Number[b] \in Nat
    BY <1>1, Blocks DEF L1Ref
  <2>2. c \in L1Chain[b]
    BY <1>3, <2>1
  <2> QED  BY <1>1, <1>2, <2>2
<1> QED  BY <1>4 DEF L1ByNumber

\* The origins of the blocks of an L2 chain are on the L1 chain of its last origin.
LEMMA OriginsFollow ==
  \A b \in L2Block : \A c \in L2Chain[b] : L1Origin[c] \in L1Chain[L1Origin[b]]
<1> DEFINE Good(b) == \A c \in L2Chain[b] : L1Origin[c] \in L1Chain[L1Origin[b]]
           S == {b \in L2Block : Good(b)}
<1>0. \A o \in L1Block : o \in L1Chain[o] /\ (o # L1Genesis => L1Chain[L1Parent[o]] \subseteq L1Chain[o])
  <2>1. \A o \in L1Block : o \in L1Chain[o]
    BY L1Tree, ChainShape
  <2>2. \A o \in L1Block : o # L1Genesis => L1Chain[L1Parent[o]] \subseteq L1Chain[o]
    BY L1Tree DEF Chain
  <2> QED  BY <2>1, <2>2
<1>1. Good(Genesis)
  <2>1. L2Chain[Genesis] = {Genesis} /\ L1Origin[Genesis] \in L1Block
    BY L2Tree, Blocks DEF Chain
  <2> QED  BY <1>0, <2>1
<1>2. ASSUME NEW b \in L2Block, b # Genesis, Good(Parent[b]) PROVE Good(b)
  <2>1. L2Chain[b] = {b} \cup L2Chain[Parent[b]] /\ L1Origin[b] \in L1Block
    BY <1>2, ParentOnChain, Blocks
  <2>2. L1Chain[L1Origin[Parent[b]]] \subseteq L1Chain[L1Origin[b]]
    <3>1. \/ L1Origin[b] = L1Origin[Parent[b]]
          \/ L1Origin[b] # L1Genesis /\ L1Parent[L1Origin[b]] = L1Origin[Parent[b]]
      BY <1>2, ChainsAssumption
    <3> QED  BY <1>0, <2>1, <3>1
  <2> QED  BY <1>0, <1>2, <2>1, <2>2
<1>3. S = L2Block
  <2>1. S \in SUBSET L2Block /\ Genesis \in S
        /\ \A b \in L2Block : b # Genesis /\ Parent[b] \in S => b \in S
    <3> HIDE DEF Good
    <3> QED  BY <1>1, <1>2, Blocks
  <2> HIDE DEF S
  <2> QED  BY <2>1, L2Tree, FromParents
<1> QED  BY <1>3

\* What FindL2Heads looks at is on the engine's chain; genesis is canonical.
LEMMA WalkedBlocks ==
  ASSUME NEW l \in ValidEngine, NEW tip \in L1Block
  PROVE  /\ l.head \in L2Block /\ l.safe \in L2Block /\ l.finalized \in L2Block
         /\ Walked(l) \subseteq L2Chain[l.head] /\ Walked(l) \subseteq Valid
         /\ NotCanonical(l, tip) \in SUBSET L2Block /\ NotCanonical(l, tip) \subseteq Walked(l)
         /\ Genesis \notin NotCanonical(l, tip)
         /\ NotCanonical(l, tip) # {} =>
              /\ LowestOf(NotCanonical(l, tip)) \in NotCanonical(l, tip)
              /\ \A c \in NotCanonical(l, tip) : Number[c] >= Number[LowestOf(NotCanonical(l, tip))]
         /\ ReadyForSafe(l, tip) # {} =>
              /\ Highest(ReadyForSafe(l, tip)) \in Canonical(l, tip)
              /\ Number[Highest(ReadyForSafe(l, tip))] > Number[l.finalized]
              /\ Highest(ReadyForSafe(l, tip)) # Genesis
<1>1. l.head \in Valid /\ l.safe \in Valid /\ l.finalized \in Valid
  BY DEF ValidEngine
<1>2. L2Chain[l.head] \subseteq Valid /\ Valid \subseteq L2Block
  BY <1>1, ValidBlocks
<1>3. Walked(l) \subseteq L2Chain[l.head] /\ \A b \in Walked(l) : Number[b] >= Number[l.finalized]
  BY DEF Walked
<1>4. NotCanonical(l, tip) \in SUBSET L2Block /\ NotCanonical(l, tip) \subseteq Walked(l)
  BY <1>2, <1>3 DEF NotCanonical
<1>5. Genesis \notin NotCanonical(l, tip)
  <2>1. Seen(Genesis, tip) = L1Origin[Genesis]
    BY L1Nodes, ChainsAssumption DEF Seen
  <2> QED  BY <2>1 DEF NotCanonical
<1>6. ASSUME ReadyForSafe(l, tip) # {}
      PROVE  /\ Highest(ReadyForSafe(l, tip)) \in Canonical(l, tip)
             /\ Number[Highest(ReadyForSafe(l, tip))] > Number[l.finalized]
             /\ Highest(ReadyForSafe(l, tip)) # Genesis
  <2>1. ReadyForSafe(l, tip) \in SUBSET L2Block
    BY <1>2, <1>3 DEF ReadyForSafe, Canonical
  <2>2. \A b \in ReadyForSafe(l, tip) :
          Number[b] <= Number[l.safe] /\ Number[b] > Number[l.finalized] /\ b \in Canonical(l, tip)
    BY DEF ReadyForSafe
  <2>3. Number[l.safe] \in Nat /\ Number[l.finalized] \in Nat /\ Number[Genesis] = 0
    BY <1>1, <1>2, Blocks DEF L2Ref
  <2>4. Highest(ReadyForSafe(l, tip)) \in ReadyForSafe(l, tip)
    BY <1>6, <2>1, <2>2, <2>3, HighestExists
  <2> QED  BY <2>2, <2>3, <2>4
<1> QED  BY <1>1, <1>2, <1>3, <1>4, <1>5, <1>6, LowestExists

LEMMA FindHeadsType ==
  ASSUME NEW l \in ValidEngine, NEW tip \in L1Block
  PROVE  FindL2Heads(l, tip) \in [unsafe : ValidRef, safe : Valid, finalized : Valid]
<1>1. l.head \in Valid /\ l.finalized \in Valid
  BY DEF ValidEngine
<1> DEFINE bad == NotCanonical(l, tip)
           ready == ReadyForSafe(l, tip)
<1>2. bad # {} => Parent[LowestOf(bad)] \in Valid
  BY WalkedBlocks, ValidBlocks
<1>3. ready # {} => Parent[Highest(ready)] \in Valid
  <2>1. Canonical(l, tip) \subseteq Valid
    BY WalkedBlocks DEF Canonical
  <2> QED  BY <2>1, WalkedBlocks, ValidBlocks
<1> DEFINE u == IF bad = {} THEN l.head
                ELSE IF l.finalized \in bad THEN NoBlock ELSE Parent[LowestOf(bad)]
           s == IF ready = {} THEN l.finalized ELSE Parent[Highest(ready)]
<1>4. u \in ValidRef /\ s \in Valid
  BY <1>1, <1>2, <1>3 DEF ValidRef
<1>5. \/ FindL2Heads(l, tip) = [unsafe |-> l.head, safe |-> l.head, finalized |-> l.head]
      \/ FindL2Heads(l, tip) = [unsafe |-> u, safe |-> s, finalized |-> l.finalized]
  BY DEF FindL2Heads
<1> HIDE DEF u, s
<1> QED  BY <1>1, <1>4, <1>5 DEF ValidRef

LEMMA ForceResetType ==
  ASSUME NEW l \in ValidEngine, NEW up,
         NEW h \in [unsafe : ValidRef, safe : Valid, finalized : Valid]
  PROVE  /\ ForceReset(l, h, up).eng \in RunningController
         /\ ForceReset(l, h, up).eng.safe = h.safe
         /\ ForceReset(l, h, up).eng.finalized = h.finalized
         /\ ForceReset(l, h, up).el \in ValidEngine
         /\ ForceReset(l, h, up).evs \in Seq(Event)
<1> DEFINE e == ForceEngineReset(h)
           r == TryUpdateEngine(e, l, up)
           before == <<Signal("ConfirmPipelineReset")>>
           after == <<EngineResetConfirmed(r.eng.safe)>>
<1>1. e \in RunningController /\ e.safe = h.safe /\ e.finalized = h.finalized
  BY DEF ForceEngineReset, RunningController
<1>2. /\ r.eng \in RunningController /\ r.eng.safe = h.safe /\ r.eng.finalized = h.finalized
      /\ r.el \in ValidEngine /\ r.evs \in Seq(Event)
  BY <1>1, UpdateType
<1>3. EngineResetConfirmed(r.eng.safe) \in Event
  BY <1>2 DEF EngineResetConfirmed, OtherEvent, Event
<1>4. before \in Seq(Event) /\ after \in Seq(Event)
  BY <1>3, Signals
<1>5. r = [eng |-> r.eng, el |-> r.el, evs |-> r.evs]
  BY DEF TryUpdateEngine
<1>6. ForceReset(l, h, up) = [r EXCEPT !.evs = before \o r.evs \o after]
  BY DEF ForceReset
<1> HIDE DEF r, before, after
<1>7. before \o r.evs \o after \in Seq(Event)
  BY <1>2, <1>4
<1>8. ForceReset(l, h, up) = [eng |-> r.eng, el |-> r.el, evs |-> before \o r.evs \o after]
  BY <1>5, <1>6
<1> QED  BY <1>2, <1>7, <1>8

\* If the engine was not rewound, and its finalized block is on its chain and canonical,
\* the heads that are found are canonical and extend each other.
LEMMA FindHeadsSound ==
  ASSUME NEW l \in ValidEngine, NEW tip \in L1Block, ~Rewound(l),
         l.finalized \in L2Chain[l.head], L1Origin[l.finalized] \in L1Chain[tip]
  PROVE  LET h == FindL2Heads(l, tip)
         IN  /\ h.unsafe \in L2Block /\ h.safe \in L2Chain[h.unsafe]
             /\ h.finalized \in L2Chain[h.safe]
             /\ L1Origin[h.safe] \in L1Chain[tip]
             /\ Seen(h.unsafe, tip) \in {NoBlock, L1Origin[h.unsafe]}
<1> DEFINE f == l.finalized
           bad == NotCanonical(l, tip)
           ready == ReadyForSafe(l, tip)
           low == LowestOf(bad)
           high == Highest(ready)
           u == IF bad = {} THEN l.head ELSE Parent[low]
           s == IF ready = {} THEN f ELSE Parent[high]
<1>0. l.head \in L2Block /\ f \in L2Block /\ Number[f] \in Nat /\ Number[l.head] \in Nat
      /\ L2Chain[l.head] \subseteq L2Block /\ l.head \in L2Chain[l.head]
      /\ \A b \in L2Chain[l.head] : Number[b] \in Nat
  BY WalkedBlocks, L2Chains, Blocks DEF L2Ref
<1>1. \A c, d \in L2Chain[l.head] : L2Chain[d] \subseteq L2Chain[l.head]
                                    /\ (Number[c] <= Number[d] => c \in L2Chain[d])
  BY <1>0, L2Chains
<1>2. \A b \in L2Chain[l.head] : L1Origin[b] \in L1Chain[tip] => b \notin bad
  BY L1NodeFinds DEF NotCanonical, Seen
<1>3. f \notin bad
  BY <1>2
<1>4. \A b \in L2Chain[l.head] : Number[b] >= Number[f] /\ b \notin bad =>
        Seen(b, tip) \in {NoBlock, L1Origin[b]}
  BY DEF NotCanonical, Walked
\* The parent of the lowest block that is not canonical was walked too.
<1>5. u \in L2Chain[l.head] /\ u \notin bad /\ Number[u] >= Number[f]
  <2>1. CASE bad = {}
    BY <1>0, <2>1 DEF Rewound
  <2>2. CASE bad # {}
    <3>1. low \in bad /\ low \in L2Chain[l.head] /\ low # Genesis /\ Number[low] >= Number[f]
          /\ \A c \in bad : Number[c] >= Number[low]
      BY <2>2, WalkedBlocks DEF Walked
    <3>2. /\ low \in L2Block /\ Parent[low] \in L2Chain[low] /\ Parent[low] \in L2Block
          /\ Number[low] = Number[Parent[low]] + 1 /\ Number[Parent[low]] \in Nat
      BY <1>0, <3>1, ParentOnChain, Blocks DEF L2Ref
    <3>3. Number[low] # Number[f]
      <4> SUFFICES ASSUME Number[low] = Number[f] PROVE FALSE
        OBVIOUS
      <4>1. low \in L2Chain[f]
        BY <1>0, <1>1, <3>1
      <4>2. low = f
        BY <1>0, <4>1, L2Chains
      <4> QED  BY <1>3, <3>1, <4>2
    <3>4. Parent[low] \in L2Chain[l.head]
      BY <1>1, <3>1, <3>2
    <3>5. Parent[low] \notin bad
      BY <3>1, <3>2
    <3>6. Number[Parent[low]] >= Number[f]
      BY <1>0, <3>1, <3>2, <3>3
    <3> QED  BY <2>2, <3>4, <3>5, <3>6
  <2> QED  BY <2>1, <2>2
\* The safe head is the parent of a canonical block, and below what is not canonical.
<1>6. s \in L2Chain[l.head] /\ Number[f] <= Number[s] /\ L1Origin[s] \in L1Chain[tip]
      /\ Number[s] <= Number[u]
  <2>1. CASE ready = {}
    BY <1>0, <1>5, <2>1
  <2>2. CASE ready # {}
    <3>1. high \in Canonical(l, tip) /\ Number[high] > Number[f] /\ high # Genesis
      BY <2>2, WalkedBlocks
    <3>2. high \in L2Chain[l.head] /\ Seen(high, tip) = L1Origin[high]
      BY <3>1 DEF Canonical, Walked
    <3>3. high \in L2Block /\ L1Origin[high] \in L1Block
      BY <1>0, <3>2, Blocks
    <3>4. L1Origin[high] \in L1Chain[tip]
      BY <3>2, <3>3, L1Nodes, Blocks DEF Seen
    <3>5. \A o \in L1Chain[L1Origin[high]] : o \in L1Chain[tip]
      BY <3>4, L1Tree, ChainParts
    <3>6. /\ Parent[high] \in L2Chain[high] /\ Parent[high] \in L2Block
          /\ Number[high] = Number[Parent[high]] + 1 /\ Number[Parent[high]] \in Nat
      BY <3>1, <3>3, ParentOnChain, Blocks DEF L2Ref
    <3>7. Parent[high] \in L2Chain[l.head] /\ L1Origin[Parent[high]] \in L1Chain[tip]
      BY <1>1, <3>2, <3>3, <3>5, <3>6, OriginsFollow
    <3>8. Number[f] <= Number[Parent[high]]
      BY <1>0, <3>1, <3>6
    <3>9. Number[Parent[high]] <= Number[u]
      <4>1. CASE bad = {}
        <5>1. \A c \in L2Chain[l.head] : Number[c] <= Number[l.head]
          BY <1>0, L2Chains
        <5> QED  BY <3>7, <4>1, <5>1
      <4>2. CASE bad # {}
        <5>1. low \in bad /\ low \in L2Chain[l.head] /\ low # Genesis
          BY <4>2, WalkedBlocks
        <5>2. low \notin L2Chain[high]
          <6> SUFFICES ASSUME low \in L2Chain[high] PROVE FALSE
            OBVIOUS
          <6>1. L1Origin[low] \in L1Chain[tip]
            BY <3>3, <3>5, OriginsFollow
          <6> QED  BY <1>2, <5>1, <6>1
        <5>3. ~(Number[low] <= Number[high])
          BY <1>1, <3>2, <5>1, <5>2
        <5>4. Number[low] = Number[Parent[low]] + 1 /\ Number[Parent[low]] \in Nat
          BY <1>0, <5>1, Blocks DEF L2Ref
        <5> QED  BY <1>0, <3>2, <3>6, <4>2, <5>1, <5>3, <5>4
      <4> QED  BY <4>1, <4>2
    <3> QED  BY <2>2, <3>7, <3>8, <3>9
  <2> QED  BY <2>1, <2>2
<1>7. FindL2Heads(l, tip) = [unsafe |-> u, safe |-> s, finalized |-> f]
  BY <1>3 DEF FindL2Heads
<1>8. u \in L2Block /\ s \in L2Chain[u] /\ f \in L2Chain[s]
  BY <1>0, <1>1, <1>5, <1>6
<1>9. Seen(u, tip) \in {NoBlock, L1Origin[u]}
  BY <1>4, <1>5
<1> HIDE DEF u, s
<1> QED  BY <1>6, <1>7, <1>8, <1>9

-----------------------------------------------------------------------------
(* The pipeline, the finalizer and the database inside the node *)

LEMMA ResetOriginType ==
  ASSUME NEW b \in L2Block
  PROVE  ResetOrigin(b) \in L1Block
<1> DEFINE old == {c \in L2Chain[b] : OldEnough(c, b)}
<1>1. old \in SUBSET L2Block /\ Genesis \in old /\ \A c \in old : Number[c] <= Number[b]
  BY L2Chains DEF OldEnough
<1>2. Number[b] \in Nat
  BY Blocks DEF L2Ref
<1> HIDE DEF old
<1>3. Highest(old) \in L2Block
  BY <1>1, <1>2, HighestExists
<1>4. ResetOrigin(b) = L1Origin[Highest(old)]
  BY DEF ResetOrigin, Highest, old
<1> QED  BY <1>3, <1>4, Blocks

LEMMA PipelineFields ==
  ASSUME NEW p, PipelineOK(p)
  PROVE  /\ p = [resetting |-> p.resetting, engineIsReset |-> p.engineIsReset,
                 origin |-> p.origin, resetL2Safe |-> p.resetL2Safe, traversal |-> p.traversal,
                 batch |-> p.batch, last |-> p.last, unconfirmed |-> p.unconfirmed]
         /\ p.resetting \in 0 .. 2 /\ p.engineIsReset \in BOOLEAN /\ p.origin \in L1Ref
         /\ p.resetL2Safe \in L2Ref /\ p.traversal \in L1Ref /\ p.batch \in L2Ref
         /\ p.last \in Carried \cup {NoAttributes} /\ p.unconfirmed \in BOOLEAN
BY DEF PipelineOK, Pipeline, Stages

LEMMA PipelineResetType ==
  ASSUME NEW p, PipelineOK(p)
  PROVE  PipelineOK(ResetPipeline(p)) /\ ResetPipeline(p).unconfirmed = p.unconfirmed
<1>1. ResetPipeline(p) = [p EXCEPT !.resetting = 0, !.resetL2Safe = NoBlock, !.engineIsReset = FALSE]
  BY DEF ResetPipeline
<1>2. p \in Pipeline
  BY DEF PipelineOK
<1>0. 0 \in 0 .. Stages /\ NoBlock \in L2Ref /\ FALSE \in BOOLEAN
  BY DEF Stages, L2Ref
<1>3. ResetPipeline(p) \in Pipeline
  BY <1>0, <1>1, <1>2 DEF Pipeline
<1> QED  BY <1>1, <1>2, <1>3 DEF PipelineOK, Pipeline, Stages

LEMMA ResetStageType ==
  ASSUME NEW p, PipelineOK(p), p.resetting < Stages, NEW b \in L2Block
  PROVE  /\ PipelineOK(ResetStage(InitialReset(p, b)))
         /\ ResetStage(InitialReset(p, b)).unconfirmed = p.unconfirmed
<1> DEFINE q == InitialReset(p, b)
<1>1. p \in Pipeline /\ p.resetting \in 0 .. 1 /\ b # NoBlock /\ b \in L2Ref
  BY Blocks DEF PipelineOK, Pipeline, Stages, L2Ref
<1>2. ResetOrigin(b) \in L1Block /\ ResetOrigin(b) \in L1Ref
  BY ResetOriginType DEF L1Ref
<1>3. /\ q \in Pipeline /\ q.resetting = p.resetting /\ q.origin \in L1Block
      /\ q.resetL2Safe = b /\ q.unconfirmed = p.unconfirmed /\ q.traversal = p.traversal
      /\ q.batch = p.batch /\ q.last = p.last
  BY <1>1, <1>2 DEF InitialReset, Pipeline, PipelineOK
<1> HIDE DEF q
<1>4. CASE p.resetting = 0
  <2> DEFINE r == [q EXCEPT !.resetting = @ + 1, !.traversal = q.origin]
  <2>1. ResetStage(q) = r
    BY <1>3, <1>4 DEF ResetStage
  <2>0. q.resetting + 1 = 1 /\ 1 \in 0 .. Stages /\ q.origin \in L1Ref
    BY <1>3, <1>4 DEF Stages, L1Ref
  <2>2. r \in Pipeline /\ r.resetting = 1 /\ r.traversal \in L1Block /\ r.origin \in L1Block
        /\ r.last = p.last /\ r.unconfirmed = p.unconfirmed
    BY <1>3, <2>0 DEF Pipeline
  <2> HIDE DEF r
  <2> QED  BY <2>1, <2>2 DEF PipelineOK, Stages, q
<1>5. CASE p.resetting = 1
  <2> DEFINE r == [q EXCEPT !.resetting = @ + 1, !.batch = NoBlock, !.last = NoAttributes]
  <2>1. ResetStage(q) = r
    BY <1>3, <1>5 DEF ResetStage
  <2>0. q.resetting + 1 = 2 /\ 2 \in 0 .. Stages /\ NoBlock \in L2Ref
    BY <1>3, <1>5 DEF Stages, L2Ref
  <2>2. r \in Pipeline /\ r.resetting = 2 /\ r.traversal = p.traversal /\ r.origin \in L1Block
        /\ r.last = NoAttributes /\ r.unconfirmed = p.unconfirmed /\ r.batch = NoBlock
    BY <1>3, <2>0 DEF Pipeline
  <2>3. p.traversal \in L1Block
    BY <1>5 DEF PipelineOK
  <2> HIDE DEF r
  <2> QED  BY <2>1, <2>2, <2>3 DEF PipelineOK, Stages, q
<1> QED  BY <1>1, <1>4, <1>5

\* The pipeline is ready and took over its origin from the traversal.
LEMMA DeriveType ==
  ASSUME NEW p, PipelineOK(p), p.resetting = Stages, NEW par \in L2Block,
         NEW tip \in L1Block, NEW up \in BOOLEAN,
         NextBatch(p, par) # NoBlock
  PROVE  LET r == NextAttributes(p, par, NextBatch(p, par), up)
         IN  /\ PipelineOK(r.pipe) /\ r.result \in {"reset", "temporary", "attributes"}
             /\ r.result = "attributes" => r.pipe.last \in Carried
             /\ r.pipe.unconfirmed => p.unconfirmed \/ r.result = "attributes"
<1> DEFINE b == NextBatch(p, par)
           c == b \in Concluding
           a == [block |-> b, concluding |-> c, from |-> p.traversal]
           held == [p EXCEPT !.batch = b]
           next == [p EXCEPT !.batch = NoBlock, !.unconfirmed = TRUE, !.last = a]
           r == NextAttributes(p, par, b, up)
<1>1. p \in Pipeline /\ p.traversal \in L1Block /\ p.resetting = 2
  BY DEF PipelineOK, Stages
<1>2. b \in Batches[p.traversal]
  BY <1>1 DEF NextBatch, PipelineOK
<1>3. b \in L2Block /\ b # NoBlock
  BY <1>1, <1>2, ChainsAssumption
<1> HIDE DEF b
<1>c. c \in BOOLEAN
  OBVIOUS
<1>r. Carries(p.traversal, b)
  BY <1>2 DEF Carries
<1> HIDE DEF c
<1>4. a \in Attributes /\ Carries(a.from, a.block)
  BY <1>1, <1>3, <1>c, <1>r DEF Attributes
<1>5. a \in Carried /\ a \in PipelineAttributes
  BY <1>4 DEF Carried, Attributes, PipelineAttributes
<1> HIDE DEF a
<1>6. /\ held \in Pipeline /\ held.batch = b /\ held.traversal = p.traversal
      /\ held.resetting = p.resetting /\ held.last = p.last /\ held.origin = p.origin
      /\ held.resetL2Safe = p.resetL2Safe /\ held.unconfirmed = p.unconfirmed
  BY <1>1, <1>3 DEF Pipeline, L2Ref
<1>7. /\ next \in Pipeline /\ next.batch = NoBlock /\ next.traversal = p.traversal
      /\ next.resetting = p.resetting /\ next.last = a /\ next.origin = p.origin
      /\ next.resetL2Safe = p.resetL2Safe
  BY <1>1, <1>5 DEF Pipeline, L2Ref
<1>8. \/ r = [pipe |-> held, result |-> "reset"]
      \/ r = [pipe |-> held, result |-> "temporary"]
      \/ r = [pipe |-> next, result |-> "attributes"]
  BY DEF NextAttributes, Outcome, a, c
<1> HIDE DEF held, next, r
<1>9. PipelineOK(held)
  BY <1>2, <1>6 DEF PipelineOK
<1>10. PipelineOK(next)
  BY <1>5, <1>7 DEF PipelineOK
<1>11. /\ PipelineOK(r.pipe) /\ r.result \in {"reset", "temporary", "attributes"}
       /\ r.result = "attributes" => r.pipe.last \in Carried
       /\ r.pipe.unconfirmed => p.unconfirmed \/ r.result = "attributes"
  BY <1>5, <1>6, <1>7, <1>8, <1>9, <1>10
<1> QED  BY <1>11 DEF r, b

LEMMA AdvanceType ==
  ASSUME NEW p, PipelineOK(p), p.resetting = Stages, p.batch = NoBlock,
         NEW tip \in L1Block, NEW up \in BOOLEAN
  PROVE  LET r == AdvanceL1Block(p, tip, up)
         IN  /\ PipelineOK(r.pipe) /\ r.result \in {"reset", "temporary", "idle", "more"}
             /\ r.pipe.unconfirmed = p.unconfirmed /\ r.pipe.origin = p.origin
<1> DEFINE next == L1ByNumber(tip, L1Number[p.traversal] + 1)
           q == [p EXCEPT !.traversal = next]
           r == AdvanceL1Block(p, tip, up)
<1>1. p \in Pipeline /\ p.traversal \in L1Block /\ p.resetting = 2
  BY DEF PipelineOK, Stages
<1>2. next = NoBlock \/ next \in L1Block
  BY L1Nodes
<1> HIDE DEF next
<1>3. next # NoBlock =>
        /\ q \in Pipeline /\ q.batch = p.batch /\ q.traversal = next
        /\ q.resetting = p.resetting /\ q.last = p.last /\ q.origin = p.origin
        /\ q.resetL2Safe = p.resetL2Safe /\ q.unconfirmed = p.unconfirmed
  BY <1>1, <1>2 DEF Pipeline, L1Ref
<1>4. \/ r = [pipe |-> p, result |-> "temporary"]
      \/ r = [pipe |-> p, result |-> "idle"]
      \/ r = [pipe |-> p, result |-> "reset"]
      \/ next # NoBlock /\ r = [pipe |-> q, result |-> "more"]
  BY DEF AdvanceL1Block, Outcome, next
<1> HIDE DEF q, r
<1>5. next # NoBlock => PipelineOK(q)
  BY <1>2, <1>3 DEF PipelineOK
<1>6. /\ PipelineOK(r.pipe) /\ r.result \in {"reset", "temporary", "idle", "more"}
      /\ r.pipe.unconfirmed = p.unconfirmed /\ r.pipe.origin = p.origin
  BY <1>3, <1>4, <1>5
<1> QED  BY <1>6 DEF r

\* DerivationPipeline.Step, asked for what builds on a block.
LEMMA StepType ==
  ASSUME NEW p, PipelineOK(p), NEW par \in L2Block, NEW tip \in L1Block, NEW up \in BOOLEAN
  PROVE  LET r == Step(p, par, tip, up)
         IN  /\ PipelineOK(r.pipe)
             /\ r.result \in {"reset", "temporary", "idle", "more", "attributes"}
             /\ r.result = "attributes" => r.pipe.last \in Carried
             /\ r.pipe.unconfirmed => p.unconfirmed \/ r.result = "attributes"
<1> DEFINE r == Step(p, par, tip, up)
           q == [p EXCEPT !.origin = p.traversal]
           b == NextBatch(q, par)
<1>1. CASE p.resetting < Stages
  <2> DEFINE s == ResetStage(InitialReset(p, par))
  <2>1. PipelineOK(s) /\ s.unconfirmed = p.unconfirmed
    BY <1>1, ResetStageType
  <2> HIDE DEF s
  <2>2. \/ r = [pipe |-> p, result |-> "reset"]
        \/ r = [pipe |-> p, result |-> "temporary"]
        \/ r = [pipe |-> s, result |-> "more"]
    BY <1>1 DEF Step, Outcome, s
  <2> HIDE DEF r
  <2>3. /\ PipelineOK(r.pipe) /\ r.result \in {"reset", "temporary", "more"}
        /\ r.pipe.unconfirmed => p.unconfirmed
    BY <2>1, <2>2
  <2> QED  BY <2>3 DEF r
<1>2. CASE p.resetting = Stages
  <2>1. p \in Pipeline /\ p.traversal \in L1Block /\ p.resetting = 2 /\ ~(p.resetting < Stages)
    BY <1>2 DEF PipelineOK, Stages
  <2>2. /\ q \in Pipeline /\ q.batch = p.batch /\ q.traversal = p.traversal
        /\ q.resetting = p.resetting /\ q.last = p.last /\ q.origin = p.traversal
        /\ q.resetL2Safe = p.resetL2Safe /\ q.unconfirmed = p.unconfirmed
    BY <2>1 DEF Pipeline, L1Ref
  <2> HIDE DEF q
  <2>3. PipelineOK(q) /\ q.resetting = Stages
    BY <1>2, <2>1, <2>2 DEF PipelineOK
  <2>4. b = NoBlock => q.batch = NoBlock
    BY DEF NextBatch
  <2> HIDE DEF b
  <2>5. \/ r = [pipe |-> p, result |-> "reset"]
        \/ b = NoBlock /\ r = AdvanceL1Block(q, tip, up)
        \/ b # NoBlock /\ r = NextAttributes(q, par, b, up)
    BY <2>1 DEF Step, Outcome, q, b
  <2> HIDE DEF r
  <2>6. CASE r = [pipe |-> p, result |-> "reset"]
    BY <2>6 DEF r
  <2>7. CASE b = NoBlock /\ r = AdvanceL1Block(q, tip, up)
    BY <2>2, <2>3, <2>4, <2>7, AdvanceType DEF r
  <2>8. CASE b # NoBlock /\ r = NextAttributes(q, par, b, up)
    <3>1. LET n == NextAttributes(q, par, b, up)
          IN  /\ PipelineOK(n.pipe) /\ n.result \in {"reset", "temporary", "attributes"}
              /\ n.result = "attributes" => n.pipe.last \in Carried
              /\ n.pipe.unconfirmed => q.unconfirmed \/ n.result = "attributes"
      BY <2>3, <2>8, DeriveType DEF b
    <3> QED  BY <2>2, <2>8, <3>1 DEF r
  <2> QED  BY <2>5, <2>6, <2>7, <2>8
<1>3. p.resetting < Stages \/ p.resetting = Stages
  BY DEF PipelineOK, Pipeline, Stages
<1> QED  BY <1>1, <1>2, <1>3

\* What the pipeline deriver emits, and that attributes are what it emits of attributes.
LEMMA StepEventsType ==
  ASSUME NEW r, PipelineOK(r.pipe),
         r.result \in {"reset", "temporary", "idle", "more", "attributes"},
         r.result = "attributes" => r.pipe.last \in Carried
  PROVE  /\ StepEvents(r) \in Seq(Event)
         /\ r.result = "attributes" => \E m \in Range(StepEvents(r)) : m.t = "DerivedAttributes"
<1>1. r.pipe.origin \in L1Ref
  BY DEF PipelineOK, Pipeline
<1>2. [t |-> "DeriverIdle", origin |-> r.pipe.origin] \in Event
  BY <1>1 DEF OtherEvent, Event
<1>3. CASE r.result = "attributes"
  <2> DEFINE j == Job("DerivedAttributes", r.pipe.last)
  <2>1. j \in Event /\ j.t = "DerivedAttributes"
    BY <1>3, JobEvents
  <2> HIDE DEF j
  <2>2. StepEvents(r) = <<j>>
    BY <1>3 DEF StepEvents, j
  <2> QED  BY <2>1, <2>2, Ranges
<1>4. CASE r.result = "idle"
  BY <1>2, <1>4 DEF StepEvents
<1>5. CASE r.result \in {"reset", "temporary", "more"}
  BY <1>5, Signals DEF StepEvents
<1> QED  BY <1>3, <1>4, <1>5

LEMMA DepositsOnlyType ==
  ASSUME NEW p, PipelineOK(p), NEW a, DepositsOnlyPossible(p, a)
  PROVE  PipelineOK(DepositsOnlyAttributes(p)) /\ DepositsOnlyAttributes(p).last \in Carried
<1> DEFINE l == [p.last EXCEPT !.block = Built(@)]
           q == DepositsOnlyAttributes(p)
<1>1. p \in Pipeline /\ p.last \in Carried
  BY DEF PipelineOK, DepositsOnlyPossible
<1>2. p.last \in Attributes /\ p.last.from \in L1Block /\ Carries(p.last.from, p.last.block)
  BY <1>1, CarriedAttributes
<1>3. Carries(p.last.from, Built(p.last.block)) /\ Built(p.last.block) \in L2Block
  BY <1>2, CarriedBlocks
<1>4. l \in Attributes /\ l.block = Built(p.last.block) /\ l.from = p.last.from
  BY <1>2, <1>3 DEF Attributes
<1>5. l \in Carried /\ l \in PipelineAttributes
  BY <1>3, <1>4 DEF Carried, Attributes, PipelineAttributes
<1> HIDE DEF l
<1>6. q = [p EXCEPT !.unconfirmed = TRUE, !.last = l]
  BY <1>1 DEF DepositsOnlyAttributes, Pipeline, l
<1>7. /\ q \in Pipeline /\ q.batch = p.batch /\ q.traversal = p.traversal
      /\ q.resetting = p.resetting /\ q.last = l /\ q.origin = p.origin
      /\ q.resetL2Safe = p.resetL2Safe
  BY <1>1, <1>5, <1>6 DEF Pipeline
<1> HIDE DEF q
<1>8. PipelineOK(q) /\ q.last \in Carried
  BY <1>5, <1>7 DEF PipelineOK
<1> QED  BY <1>8 DEF q

LEMMA DerivedSafeType ==
  ASSUME NEW f, FinalizerOK(f), NEW b \in Valid, NEW src \in L1Block
  PROVE  FinalizerOK(OnDerivedSafeBlock(f, b, src))
<1> DEFINE d == f.data
           n == Len(d)
           x == [l2 |-> b, l1 |-> src]
           kept == IF n >= FinalityLookback THEN SubSeq(d, 2, FinalityLookback) ELSE d
           added == Append(kept, x)
           changed == [d EXCEPT ![n].l2 = b]
           g == OnDerivedSafeBlock(f, b, src)
<1>1. /\ d \in Seq(ValidData) /\ n \in Nat /\ n <= FinalityLookback
      /\ FinalityLookback \in Nat /\ FinalityLookback >= 1
  BY FinalityAssumption DEF FinalizerOK
<1>2. x \in ValidData
  BY DEF ValidData
<1>3. added \in Seq(ValidData) /\ Len(added) <= FinalityLookback
  <2>1. CASE n >= FinalityLookback
    <3>1. /\ kept = SubSeq(d, 2, FinalityLookback) /\ n = FinalityLookback
      BY <1>1, <2>1
    <3>2. kept \in Seq(ValidData) /\ Len(kept) = FinalityLookback - 1
      BY <1>1, <3>1
    <3> HIDE DEF kept, x
    <3> QED  BY <1>1, <1>2, <3>2
  <2>2. CASE ~(n >= FinalityLookback)
    BY <1>1, <1>2, <2>2
  <2> QED  BY <2>1, <2>2
<1>4. n # 0 => changed \in Seq(ValidData) /\ Len(changed) = n
  <2> SUFFICES ASSUME n # 0 PROVE changed \in Seq(ValidData) /\ Len(changed) = n
    OBVIOUS
  <2>1. n \in 1 .. n /\ d[n] \in ValidData
    BY <1>1
  <2>2. [d[n] EXCEPT !.l2 = b] \in ValidData
    BY <2>1 DEF ValidData
  <2> QED  BY <1>1, <2>1, <2>2
<1>5. \/ g = [f EXCEPT !.data = added]
      \/ n # 0 /\ g = [f EXCEPT !.data = changed]
  BY DEF OnDerivedSafeBlock
<1> HIDE DEF added, changed
<1>6. \A s \in Seq(ValidData) : Len(s) <= FinalityLookback => FinalizerOK([f EXCEPT !.data = s])
  BY DEF FinalizerOK
<1> QED  BY <1>1, <1>3, <1>4, <1>5, <1>6

\* What the other handlers make of the finalizer.
LEMMA FinalizerKept ==
  ASSUME NEW f, FinalizerOK(f)
  PROVE  /\ FinalizerOK(OnReset(f))
         /\ \A b \in L1Block : FinalizerOK(OnL1FinalizedSignal(f, b))
         /\ \A b \in L2Ref : FinalizerOK([f EXCEPT !.lastFinalizedL2 = b])
         /\ \A n \in Nat : FinalizerOK([f EXCEPT !.triedAt = n])
<1>1. FinalityLookback \in Nat
  BY FinalityAssumption
<1>2. FinalizerOK(OnReset(f))
  <2> DEFINE nil == <<>>
  <2>1. nil \in Seq(ValidData) /\ Len(nil) <= FinalityLookback
    BY <1>1
  <2>2. \A s \in Seq(ValidData) :
          Len(s) <= FinalityLookback => FinalizerOK([f EXCEPT !.data = s, !.triedAt = 0])
    BY DEF FinalizerOK
  <2>3. OnReset(f) = [f EXCEPT !.data = nil, !.triedAt = 0]
    BY DEF OnReset
  <2> HIDE DEF nil
  <2> QED  BY <2>1, <2>2, <2>3, Zenon
<1>3. ASSUME NEW b \in L1Block PROVE FinalizerOK(OnL1FinalizedSignal(f, b))
  <2>1. \/ OnL1FinalizedSignal(f, b) = f
        \/ OnL1FinalizedSignal(f, b) = [f EXCEPT !.finalizedL1 = b, !.triedAt = 0]
    BY DEF OnL1FinalizedSignal
  <2>2. b \in L1Ref
    BY DEF L1Ref
  <2>3. FinalizerOK([f EXCEPT !.finalizedL1 = b, !.triedAt = 0])
    BY <2>2 DEF FinalizerOK
  <2> QED  BY <2>1, <2>3
<1>4. ASSUME NEW b \in L2Ref PROVE FinalizerOK([f EXCEPT !.lastFinalizedL2 = b])
  BY DEF FinalizerOK
<1>5. ASSUME NEW n \in Nat PROVE FinalizerOK([f EXCEPT !.triedAt = n])
  BY DEF FinalizerOK
<1> QED  BY <1>2, <1>3, <1>4, <1>5

\* Two numbers have a common bound.
LEMMA Bounds ==
  /\ \A a, b \in Nat : \E c \in Nat : a <= c /\ b <= c
  /\ \A a, b, c \in Nat : a <= b /\ b <= c => a <= c
<1>1. ASSUME NEW a \in Nat, NEW b \in Nat PROVE \E c \in Nat : a <= c /\ b <= c
  <2>1. a + b \in Nat /\ a <= a + b /\ b <= a + b
    OBVIOUS
  <2> QED  BY <2>1
<1> QED  BY <1>1

\* Of finitely many numbers, one is the greatest.
LEMMA Greatest ==
  ASSUME NEW len \in Nat, NEW g \in [1 .. len -> Nat], NEW S \in SUBSET (1 .. len), S # {}
  PROVE  \E i \in S : \A j \in S : g[j] <= g[i]
<1> DEFINE Bounded(m) == \E a \in Nat : \A i \in 1 .. m : g[i] <= a
           bad == {m \in 0 .. len : ~Bounded(m)}
           numbers == {g[i] : i \in S}
<1>1. bad = {}
  <2> SUFFICES ASSUME bad # {} PROVE FALSE
    OBVIOUS
  <2>1. bad \in SUBSET Nat
    OBVIOUS
  <2>2. PICK k \in bad : \A j \in bad : k <= j
    <3> HIDE DEF bad
    <3> QED  BY <2>1, FirstIsLeast
  <2>3. k \in 0 .. len /\ ~Bounded(k)
    OBVIOUS
  <2>4. k # 0
    <3>1. \A i \in 1 .. 0 : g[i] <= 0
      OBVIOUS
    <3> QED  BY <2>3, <3>1
  <2>5. k \in 1 .. len /\ k - 1 \in 0 .. len /\ ~(k <= k - 1)
    BY <2>3, <2>4
  <2>6. Bounded(k - 1)
    BY <2>2, <2>5
  <2>7. PICK a \in Nat : \A i \in 1 .. k - 1 : g[i] <= a
    BY <2>6
  <2>8. g[k] \in Nat
    BY <2>5
  <2>9. PICK c \in Nat : a <= c /\ g[k] <= c
    BY <2>8, Bounds
  <2>10. ASSUME NEW i \in 1 .. k PROVE g[i] <= c
    <3>1. CASE i = k
      BY <2>9, <3>1
    <3>2. CASE i # k
      <4>1. i \in 1 .. k - 1 /\ i \in 1 .. len
        BY <2>5, <3>2
      <4>2. g[i] \in Nat /\ g[i] <= a
        BY <2>7, <4>1
      <4> QED  BY <2>9, <4>2, Bounds
    <3> QED  BY <3>1, <3>2
  <2> QED  BY <2>3, <2>10, Zenon
<1>2. PICK n \in Nat : \A i \in 1 .. len : g[i] <= n
  <2>1. len \in 0 .. len
    OBVIOUS
  <2>2. Bounded(len)
    BY <1>1, <2>1
  <2> QED  BY <2>2
<1>3. numbers \in SUBSET Nat /\ numbers # {} /\ \A m \in numbers : m <= n
  BY <1>2
<1>4. Last(numbers) \in numbers /\ \A m \in numbers : m <= Last(numbers)
  <2> HIDE DEF numbers
  <2> QED  BY <1>3, LastIsGreatest
<1>5. PICK i \in S : Last(numbers) = g[i]
  BY <1>4
<1> QED  BY <1>4, <1>5

\* tryFinalize picks an entry, if there is one to finalize.
LEMMA PickType ==
  ASSUME NEW f, FinalizerOK(f), Finalizable(f) # {}
  PROVE  Pick(f).l2 \in Valid
<1> DEFINE d == f.data
           F == Finalizable(f)
           g == [i \in 1 .. Len(d) |-> Number[d[i].l2]]
           best == {i \in F : \A j \in F : Number[d[j].l2] <= Number[d[i].l2]}
<1>1. d \in Seq(ValidData) /\ Len(d) \in Nat
  BY DEF FinalizerOK
<1>2. ASSUME NEW i \in 1 .. Len(d) PROVE d[i].l2 \in Valid /\ Number[d[i].l2] \in Nat
  <2>1. d[i] \in ValidData
    BY <1>1
  <2>2. d[i].l2 \in Valid
    BY <2>1 DEF ValidData
  <2> QED  BY <2>2, Blocks DEF Valid, L2Ref
<1>3. F \in SUBSET (1 .. Len(d)) /\ F # {}
  BY DEF Finalizable
<1>4. g \in [1 .. Len(d) -> Nat] /\ \A i \in F : g[i] = Number[d[i].l2]
  BY <1>2, <1>3
<1> HIDE DEF F, g
<1>5. PICK i \in F : \A j \in F : g[j] <= g[i]
  <2> DEFINE len == Len(d)
  <2>1. len \in Nat /\ g \in [1 .. len -> Nat] /\ F \in SUBSET (1 .. len) /\ F # {}
    BY <1>1, <1>3, <1>4
  <2> HIDE DEF len
  <2> QED  BY <2>1, Greatest, Zenon
<1>6. best \in SUBSET Nat /\ best \subseteq 1 .. Len(d) /\ best # {}
  <2>1. ASSUME NEW j \in F PROVE Number[d[j].l2] <= Number[d[i].l2]
    <3>1. g[j] <= g[i] /\ g[j] = Number[d[j].l2] /\ g[i] = Number[d[i].l2]
      BY <1>4, <1>5
    <3> QED  BY <3>1
  <2>2. i \in best
    BY <2>1, Zenon
  <2>3. best \subseteq F /\ F \subseteq 1 .. Len(d) /\ 1 .. Len(d) \subseteq Nat
    BY <1>3
  <2> HIDE DEF best
  <2> QED  BY <2>2, <2>3
<1>7. Pick(f) = d[First(best)]
  BY DEF Pick, First, F
<1> HIDE DEF best
<1>8. First(best) \in 1 .. Len(d)
  BY <1>6, FirstIsLeast
<1> QED  BY <1>2, <1>7, <1>8

\* The database, whatever the order of the calls.
LEMMA DBUpdateType ==
  ASSUME NEW d, DBTyped(d), NEW b \in L2Block, NEW src \in L1Block
  PROVE  DBTyped(SafeHeadUpdated(d, b, src))
<1> DEFINE n == L1Number[src]
           e == [l1 |-> src, l2 |-> b]
           r == SafeHeadUpdated(d, b, src)
<1>1. n \in Heights /\ e \in Entry /\ L1Number[e.l1] = n
  BY DEF Heights, Entry
<1>2. DOMAIN r = DOMAIN d \cup {n} /\ \A m \in DOMAIN r : r[m] = IF m = n THEN e ELSE d[m]
  BY DEF SafeHeadUpdated
<1> HIDE DEF n, e, r
<1>3. DBTyped(r)
  BY <1>1, <1>2 DEF DBTyped
<1> QED  BY <1>3 DEF r

LEMMA DBResetType ==
  ASSUME NEW d, DBTyped(d), NEW s \in L2Block
  PROVE  DBTyped(SafeHeadReset(d, s))
<1>1. CASE MadeSafe(d, s) = {}
  BY <1>1 DEF SafeHeadReset
<1>2. CASE MadeSafe(d, s) # {}
  <2> DEFINE n == First(MadeSafe(d, s))
             r == SafeHeadReset(d, s)
  <2>1. MadeSafe(d, s) \in SUBSET Nat
    BY ChainsAssumption DEF MadeSafe, KeysFrom, DBTyped, Heights
  <2>2. n \in DOMAIN d
    BY <1>2, <2>1, FirstIsLeast DEF MadeSafe, KeysFrom
  <2>3. /\ DOMAIN r \subseteq DOMAIN d
        /\ \A m \in DOMAIN r : r[m] = IF m = n THEN [l1 |-> d[n].l1, l2 |-> s] ELSE d[m]
    BY <1>2, <2>2 DEF SafeHeadReset, KeysBelow
  <2>4. [l1 |-> d[n].l1, l2 |-> s] \in Entry
    BY <2>2 DEF DBTyped, Entry
  <2> HIDE DEF n, r
  <2>5. DBTyped(r)
    BY <2>2, <2>3, <2>4 DEF DBTyped
  <2> QED  BY <2>5 DEF r
<1> QED  BY <1>1, <1>2

LEMMA DroppedPayloads ==
  ASSUME NEW ps \in SUBSET L2Block, NEW u, NEW s, NEW kept \in DropInapplicable(ps, u, s)
  PROVE  kept \subseteq L2Block
BY DEF DropInapplicable, Lowest

\* What a call leaves of the scenario.
LEMMA CallType ==
  ASSUME budget \in Scenario, NEW up, Call(up)
  PROVE  budget' \in Scenario
<1>1. CASE up
  BY <1>1 DEF Call
<1>2. CASE ~up
  <2>1. budget.faults > 0 /\ budget' = [budget EXCEPT !.faults = @ - 1]
    BY <1>2 DEF Call
  <2>2. budget.faults - 1 \in Nat
    BY <2>1 DEF Scenario
  <2> QED  BY <2>1, <2>2 DEF Scenario
<1> QED  BY <1>1, <1>2
-----------------------------------------------------------------------------
(* Steps of the node after the first reset *)

QueueOK == draining \in BOOLEAN /\ (draining => queue # <<>>)
Scheduler == [requested : BOOLEAN, delayed : BOOLEAN, retrying : BOOLEAN]

StartTypes ==
  {"Step", "Reset", "ResetEngineRequest", "TryFinalize", "ForkchoiceUpdate",
   "PendingSafeUpdate", "PipelineStep"}

\* Until the first reset few kinds of events wait.
LEMMA Heads ==
  ASSUME IInv, queue # <<>>
  PROVE  /\ Head(queue).t \notin StartTypes => Running
         /\ Running => Head(queue) \in Event
         /\ Starting => Head(queue) \in StartEvent
<1>1. Starting => Head(queue) \in StartEvent
  BY Head1 DEF Starting
<1>2. Running => Head(queue) \in Event
  BY Head1 DEF Running
<1>3. Head(queue) \in StartEvent => Head(queue).t \in StartTypes
  BY DEF StartEvent, StartTypes
<1> QED  BY <1>1, <1>2, <1>3 DEF IInv

LEMMA SchedulerType ==
  ASSUME NEW s \in Scheduler, NEW r \in BOOLEAN
  PROVE  RequestStep(s, r) \in Scheduler
BY DEF RequestStep, Scheduler

LEMMA RunningStep ==
  ASSUME Running \/ (queue \in Seq(StartEvent) /\ Tail(queue) \in Seq(Event)), queue # <<>>,
         NEW evs \in Seq(Event), Processed(evs),
         eng' \in RunningController, BuildEnds(att', eng', queue'), ConfirmationComes(pipe', queue')
  PROVE  Running' /\ QueueOK'
<1>1. CASE Running
  <2>1. queue \in Seq(Event) /\ Tail(queue) \in Seq(Event)
    BY <1>1, Head1 DEF Running
  <2> QED  BY <2>1, Handled DEF Running, QueueOK
<1>2. CASE queue \in Seq(StartEvent) /\ Tail(queue) \in Seq(Event)
  BY <1>2, Handled DEF Running, QueueOK
<1> QED  BY <1>1, <1>2

\* A handler that builds nothing, drops nothing and confirms nothing.
LEMMA PlainStep ==
  ASSUME Running, queue # <<>>, NEW evs \in Seq(Event), Processed(evs),
         eng' \in RunningController, eng'.pending = eng.pending, att' = att,
         pipe'.unconfirmed => pipe.unconfirmed,
         Head(queue).t \in {"Step", "L1TemporaryError", "DeriverIdle", "DeriverMore",
           "SafeDerived", "EngineResetConfirmed", "PendingSafeUpdate", "PipelineStep",
           "ConfirmPipelineReset", "ResetEngineRequest", "UnsafeUpdate", "LocalSafeUpdate",
           "ForkchoiceUpdate", "PayloadInvalid", "TryFinalize"}
  PROVE  Running' /\ QueueOK'
<1>1. \A b \in L2Block : ~Ends(Head(queue), b)
  BY DEF Ends, BuildTypes
<1>2. Number[eng.pending] <= Number[eng'.pending]
  <2>1. Number[eng.pending] \in Nat
    BY Blocks DEF Running, RunningController, Valid, L2Ref
  <2> QED  BY <2>1
<1>3. BuildEnds(att', eng', queue')
  BY <1>1, <1>2, BuildStillEnds
<1>4. ConfirmationComes(pipe', queue')
  BY StillConfirmed
<1> QED  BY <1>3, <1>4, RunningStep

\* A handler after which no build is awaited.
LEMMA UnsentStep ==
  ASSUME Running, queue # <<>>, NEW evs \in Seq(Event), Processed(evs),
         eng' \in RunningController, ~att'.sent, pipe'.unconfirmed => pipe.unconfirmed,
         Head(queue).t \in {"DerivedAttributes", "ConfirmReceivedAttributes"} =>
           \E m \in Range(evs) : m.t \in {"DerivedAttributes", "ConfirmReceivedAttributes"}
  PROVE  Running' /\ QueueOK'
<1>1. BuildEnds(att', eng', queue')
  BY DEF BuildEnds
<1>2. ConfirmationComes(pipe', queue')
  BY StillConfirmed
<1> QED  BY <1>1, <1>2, RunningStep

\* A handler that takes a build on: what it emits ends the wait for the same block.
LEMMA BuildStep ==
  ASSUME Running, queue # <<>>, NEW evs \in Seq(Event), Processed(evs),
         UNCHANGED <<eng, att, pipe>>,
         Head(queue).t \in BuildTypes \cup {"BuildInvalid"},
         \E m \in Range(evs) : Ends(m, Head(queue).attr.block)
  PROVE  Running' /\ QueueOK'
<1>1. Number[eng.pending] \in Nat /\ eng \in RunningController
  BY Blocks DEF Running, RunningController, Valid, L2Ref
<1>2. \A b \in L2Block : Ends(Head(queue), b) => b = Head(queue).attr.block
  BY DEF Ends, BuildTypes
<1>3. BuildEnds(att', eng', queue')
  BY <1>1, <1>2, BuildStillEnds
<1>4. Head(queue).t \notin {"DerivedAttributes", "ConfirmReceivedAttributes"}
  BY DEF BuildTypes
<1>5. ConfirmationComes(pipe', queue')
  BY <1>4, StillConfirmed
<1> QED  BY <1>1, <1>3, <1>5, RunningStep

-----------------------------------------------------------------------------
(* Steps of the node before the first reset *)

\* What has a round, and which.
LEMMA StartRounds ==
  \A m \in StartEvent :
    /\ Round(m) \in 0 .. 3
    /\ m.t = "Step" => Round(m) = 0 /\ ~Aside(m)
    /\ m.t = "PendingSafeUpdate" => Round(m) = 1 /\ ~Aside(m)
    /\ m.t = "PipelineStep" => Round(m) = 2 /\ ~Aside(m)
    /\ m.t \in {"Reset", "ResetEngineRequest"} => Round(m) = 3 /\ ~Aside(m)
    /\ m.t \in {"ForkchoiceUpdate", "TryFinalize"} => Aside(m)
    /\ ~Aside(m) /\ Round(m) = 3 => m.t \in {"Reset", "ResetEngineRequest"}
<1>1. \A m \in StartEvent : m.t \in StartTypes
  BY DEF StartEvent, StartTypes
<1> QED  BY <1>1 DEF StartTypes, Round, Aside

\* The node handles an event before the first reset.
LEMMA StartingStep ==
  ASSUME Starting, queue # <<>>, NEW evs \in Seq(StartEvent), Processed(evs),
         UNCHANGED <<eng, att, pipe>>, fin'.data = <<>>,
         \/ evs = <<>> /\ Aside(Head(queue))
         \/ \E m \in StartEvent :
              /\ evs = <<m>> /\ ~Aside(m) /\ ~Aside(Head(queue))
              /\ Round(m) = Round(Head(queue)) + 1 \/ (Round(m) = 3 /\ Round(Head(queue)) = 3)
  PROVE  Starting' /\ QueueOK'
<1> DEFINE q == queue
           tl == Tail(queue)
           r == tl \o evs
<1>1. /\ q \in Seq(StartEvent) /\ InRounds(q) /\ Head(q) \in StartEvent
      /\ tl \in Seq(StartEvent) /\ queue' = r /\ draining' = (r # <<>>)
  BY Head1 DEF Starting, Processed
<1>2. /\ Len(q) \in Nat \ {0} /\ DOMAIN q = 1 .. Len(q) /\ q[1] = Head(q)
      /\ DOMAIN tl = 1 .. Len(q) - 1 /\ Len(tl) = Len(q) - 1 /\ Len(tl) \in Nat
      /\ \A i \in DOMAIN tl : i + 1 \in DOMAIN q /\ tl[i] = q[i + 1] /\ tl[i] \in StartEvent
  BY <1>1
<1>3. InRounds(tl)
  <2> SUFFICES ASSUME NEW i \in DOMAIN tl, NEW j \in DOMAIN tl, i < j, ~Aside(tl[i]), ~Aside(tl[j])
               PROVE  Round(tl[i]) <= Round(tl[j]) /\ Round(tl[j]) <= Round(tl[i]) + 1
    BY DEF InRounds
  <2>1. i + 1 < j + 1
    BY <1>2
  <2> QED  BY <1>1, <1>2, <2>1 DEF InRounds
<1>4. \A i \in DOMAIN tl :
        ~Aside(Head(q)) /\ ~Aside(tl[i]) =>
          Round(Head(q)) <= Round(tl[i]) /\ Round(tl[i]) <= Round(Head(q)) + 1
  <2> TAKE i \in DOMAIN tl
  <2>1. 1 \in DOMAIN q /\ i + 1 \in DOMAIN q /\ 1 < i + 1
    BY <1>2
  <2> QED  BY <1>1, <1>2, <2>1 DEF InRounds
<1>5. r \in Seq(StartEvent)
  BY <1>1
<1>6. InRounds(r)
  <2>1. CASE evs = <<>> /\ Aside(Head(queue))
    <3>1. r = tl
      BY <1>1, <2>1
    <3> QED  BY <1>3, <3>1
  <2>2. CASE evs # <<>>
    <3>1. PICK m \in StartEvent :
            /\ evs = <<m>> /\ ~Aside(m) /\ ~Aside(Head(queue))
            /\ Round(m) = Round(Head(queue)) + 1 \/ (Round(m) = 3 /\ Round(Head(queue)) = 3)
      BY <2>2
    <3>2. /\ DOMAIN r = 1 .. Len(tl) + 1 /\ r[Len(tl) + 1] = m
          /\ \A i \in DOMAIN tl : r[i] = tl[i]
      <4>1. evs = <<m>> /\ tl \in Seq(StartEvent)
        BY <1>1, <3>1
      <4>2. evs \in Seq(StartEvent) /\ Len(evs) = 1 /\ evs[1] = m /\ DOMAIN evs = {1}
        BY <4>1
      <4>3. Len(tl) \in Nat /\ DOMAIN tl = 1 .. Len(tl)
        BY <1>2
      <4> HIDE DEF tl
      <4> QED  BY <4>1, <4>2, <4>3
    <3>3. Round(m) \in 0 .. 3 /\ Round(Head(queue)) \in 0 .. 3
      BY <1>1, StartRounds
    <3> HIDE DEF q, tl, r
    <3> SUFFICES ASSUME NEW i \in DOMAIN r, NEW j \in DOMAIN r, i < j, ~Aside(r[i]), ~Aside(r[j])
                 PROVE  Round(r[i]) <= Round(r[j]) /\ Round(r[j]) <= Round(r[i]) + 1
      BY DEF InRounds
    <3>4. CASE j = Len(tl) + 1
      <4>1. i \in DOMAIN tl /\ r[i] = tl[i] /\ r[j] = m
        BY <1>2, <3>2, <3>4
      <4>2. Round(r[i]) \in 0 .. 3 /\ Round(Head(queue)) <= Round(r[i])
            /\ Round(r[i]) <= Round(Head(queue)) + 1
        BY <1>2, <1>4, <3>1, <4>1, StartRounds DEF q
      <4> QED  BY <3>1, <3>3, <4>1, <4>2
    <3>5. CASE j # Len(tl) + 1
      <4>1. i \in DOMAIN tl /\ j \in DOMAIN tl /\ r[i] = tl[i] /\ r[j] = tl[j]
        BY <1>2, <3>2, <3>5
      <4> QED  BY <1>3, <4>1 DEF InRounds
    <3> QED  BY <3>4, <3>5
  <2> QED  BY <2>1, <2>2
<1>7. ~draining' => \A m \in Range(queue') : m.t = "Step" \/ Aside(m)
  <2>1. ~draining' => queue' = <<>>
    BY <1>1
  <2> QED  BY <2>1, Ranges
<1>8. QueueOK'
  BY <1>1, Zenon DEF QueueOK
<1> QED  BY <1>1, <1>5, <1>6, <1>7, <1>8 DEF Starting

\* Another goroutine, or the event loop, adds an event before the first reset.
LEMMA StartingEmits ==
  ASSUME Starting, QueueOK, NEW m \in StartEvent, Emitted(<<m>>), UNCHANGED <<eng, att, pipe>>,
         fin'.data = <<>>,
         Aside(m) \/ (m.t = "Step" /\ ~draining)
  PROVE  Starting' /\ QueueOK'
<1> DEFINE q == queue
           r == q \o <<m>>
<1>1. /\ q \in Seq(StartEvent) /\ InRounds(q) /\ queue' = r /\ draining' = draining
  BY DEF Starting, Emitted
<1>2. /\ Len(q) \in Nat /\ DOMAIN q = 1 .. Len(q) /\ DOMAIN r = 1 .. Len(q) + 1
      /\ r[Len(q) + 1] = m /\ \A i \in DOMAIN q : r[i] = q[i] /\ q[i] \in StartEvent
  BY <1>1
<1>3. r \in Seq(StartEvent) /\ r # <<>>
  BY <1>1
<1>4. Range(r) = Range(q) \cup {m}
  <2>1. <<m>> \in Seq(StartEvent)
    OBVIOUS
  <2> DEFINE evs == <<m>>
  <2>2. evs \in Seq(StartEvent) /\ Range(evs) = {m}
    BY <2>1, Ranges
  <2> HIDE DEF q, evs
  <2>3. Range(q \o evs) = Range(q) \cup Range(evs)
    BY <1>1, <2>2, RangeConcat
  <2> QED  BY <2>2, <2>3 DEF evs
<1> HIDE DEF q, r
<1>5. InRounds(r)
  <2> SUFFICES ASSUME NEW i \in DOMAIN r, NEW j \in DOMAIN r, i < j, ~Aside(r[i]), ~Aside(r[j])
               PROVE  Round(r[i]) <= Round(r[j]) /\ Round(r[j]) <= Round(r[i]) + 1
    BY DEF InRounds
  <2>1. i \in DOMAIN q /\ r[i] = q[i] /\ q[i] \in StartEvent
    BY <1>2
  <2>2. CASE j = Len(q) + 1
    <3>1. m.t = "Step" /\ ~draining /\ r[j] = m
      BY <1>2, <2>2
    <3>2. q[i].t = "Step"
      <4>1. q[i] \in Range(q)
        BY <2>1 DEF Range
      <4> QED  BY <2>1, <3>1, <4>1 DEF Starting, q
    <3> QED  BY <2>1, <3>1, <3>2, StartRounds
  <2>3. CASE j # Len(q) + 1
    <3>1. j \in DOMAIN q /\ r[j] = q[j]
      BY <1>2, <2>3
    <3> QED  BY <1>1, <2>1, <3>1 DEF InRounds
  <2> QED  BY <2>2, <2>3
<1>6. ~draining' => \A x \in Range(queue') : x.t = "Step" \/ Aside(x)
  BY <1>1, <1>4 DEF Starting, q
<1>7. QueueOK'
  BY <1>1, <1>3 DEF QueueOK
<1> QED  BY <1>1, <1>3, <1>5, <1>6, <1>7 DEF Starting

\* When the first reset is handled, only what can be handled afterwards waits.
LEMMA FirstReset ==
  ASSUME Starting, Next1("ResetEngineRequest")
  PROVE  Tail(queue) \in Seq(Event)
<1> DEFINE q == queue
           tl == Tail(q)
<1>1. /\ q \in Seq(StartEvent) /\ q # <<>> /\ InRounds(q) /\ Head(q) \in StartEvent
      /\ tl \in Seq(StartEvent) /\ Head(q).t = "ResetEngineRequest"
  BY Head1 DEF Starting, Next1
<1>2. /\ DOMAIN q = 1 .. Len(q) /\ 1 \in DOMAIN q /\ q[1] = Head(q)
      /\ DOMAIN tl = 1 .. Len(tl) /\ Len(tl) \in Nat
      /\ \A i \in DOMAIN tl : i + 1 \in DOMAIN q /\ 1 < i + 1 /\ tl[i] = q[i + 1]
  BY <1>1
<1>3. ASSUME NEW i \in DOMAIN tl PROVE tl[i] \in Event
  <2>1. tl[i] \in StartEvent
    BY <1>1, <1>2
  <2>2. Aside(tl[i]) \/ Round(tl[i]) = 3
    <3>1. ~Aside(Head(q)) /\ Round(Head(q)) = 3 /\ Round(tl[i]) \in 0 .. 3
      BY <1>1, <2>1, StartRounds
    <3>2. ~Aside(tl[i]) => Round(Head(q)) <= Round(tl[i])
      BY <1>1, <1>2, <3>1 DEF InRounds
    <3> QED  BY <3>1, <3>2
  <2>3. tl[i].t \in {"Reset", "ResetEngineRequest", "TryFinalize", "ForkchoiceUpdate"}
    BY <2>1, <2>2, StartRounds DEF Aside
  <2> QED  BY <2>1, <2>3 DEF StartEvent, Event, SignalEvent, HeadsEvent, ValidRef
<1> HIDE DEF tl
<1>4. tl \in Seq(Event)
  BY <1>1, <1>2, <1>3
<1> QED  BY <1>4 DEF tl
-----------------------------------------------------------------------------
(* Every step of the node keeps the invariant *)

LEMMA NextSyncStep == ASSUME IInv, SyncStep PROVE IInv'
<1>1. Shape /\ queue # <<>> /\ Head(queue).t = "Step"
  BY DEF IInv, SyncStep, Next1
<1>2. PICK up : /\ Call(up)
                /\ eng' = TryUpdateEngine(eng, el, up).eng /\ el' = TryUpdateEngine(eng, el, up).el
                /\ Processed(TryUpdateEngine(eng, el, up).evs
                             \o <<RequestPendingSafeUpdate(TryUpdateEngine(eng, el, up).eng)>>)
  BY DEF SyncStep
<1>3. UNCHANGED <<l1, sched, payloads, att, pipe, fin, db>>
  BY DEF SyncStep
<1> DEFINE r == TryUpdateEngine(eng, el, up)
           evs == r.evs \o <<RequestPendingSafeUpdate(r.eng)>>
<1>4. budget' \in Scenario /\ el \in ValidEngine
  BY <1>1, <1>2, CallType DEF Shape
<1>5. CASE Running
  <2>1. /\ r.eng \in RunningController /\ r.eng.pending = eng.pending /\ r.el \in ValidEngine
        /\ r.evs \in Seq(Event)
    BY <1>4, <1>5, UpdateType DEF Running
  <2>2. evs \in Seq(Event)
    BY <2>1, HeadEvents
  <2>3. eng' = r.eng /\ el' = r.el /\ Processed(evs)
    BY <1>2
  <2> HIDE DEF evs, r
  <2>4. Running' /\ QueueOK'
    BY <1>1, <1>3, <1>5, <2>1, <2>2, <2>3, PlainStep
  <2>5. Shape'
    BY <1>1, <1>3, <1>4, <2>1, <2>3, <2>4 DEF Shape, QueueOK
  <2> QED  BY <2>4, <2>5 DEF IInv
<1>6. CASE Starting
  <2> DEFINE m == PendingSafeUpdate(NoBlock, NoBlock)
             nil == <<>>
             one == <<m>>
  <2>1. eng = NewController /\ eng.needFCU = FALSE
    BY <1>6 DEF Starting, NewController
  <2>2. r = [eng |-> eng, el |-> el, evs |-> nil \o ErrorEvents("none")]
    BY <2>1 DEF TryUpdateEngine, TryUpdateEngineInternal
  <2>3. nil \o ErrorEvents("none") = nil
    BY DEF ErrorEvents
  <2>4. RequestPendingSafeUpdate(eng) = m
    BY <2>1 DEF RequestPendingSafeUpdate, NewController
  <2>5. m \in StartEvent /\ m.t = "PendingSafeUpdate"
    BY DEF PendingSafeUpdate, StartEvent
  <2>6. nil \o one = one
    OBVIOUS
  <2> HIDE DEF m, nil
  <2>7. r.eng = eng /\ r.el = el /\ r.evs = nil
    BY <2>2, <2>3
  <2>8. evs = one /\ eng' = eng /\ el' = el /\ Processed(one) /\ one \in Seq(StartEvent)
    <3>1. eng' = r.eng /\ el' = r.el /\ Processed(evs)
      BY <1>2
    <3> HIDE DEF r
    <3>2. RequestPendingSafeUpdate(r.eng) = m
      BY <2>4, <2>7
    <3>3. evs = nil \o one
      BY <2>7, <3>2
    <3>4. one \in Seq(StartEvent)
      BY <2>5
    <3> HIDE DEF evs, one
    <3> QED  BY <2>6, <2>7, <3>1, <3>3, <3>4
  <2> HIDE DEF one, evs, r
  <2>9. Head(queue) \in StartEvent
    BY <1>1, <1>6, Heads DEF IInv
  <2>10. Round(m) = Round(Head(queue)) + 1 /\ ~Aside(m) /\ ~Aside(Head(queue))
    BY <1>1, <2>5, <2>9, StartRounds
  <2>11. fin'.data = <<>>
    BY <1>3, <1>6 DEF Starting
  <2>12. Starting' /\ QueueOK'
    BY <1>1, <1>3, <1>6, <2>5, <2>8, <2>10, <2>11, StartingStep DEF one
  <2>13. Shape'
    BY <1>1, <1>3, <1>4, <2>8, <2>12 DEF Shape, QueueOK
  <2> QED  BY <2>12, <2>13 DEF IInv
<1> QED  BY <1>5, <1>6 DEF IInv

LEMMA NextOnResetEvent == ASSUME IInv, OnResetEvent PROVE IInv'
<1> DEFINE m == Signal("ResetEngineRequest")
           one == <<m>>
<1>1. Shape /\ queue # <<>> /\ Head(queue).t = "Reset"
  BY DEF IInv, OnResetEvent, Next1
<1>2. /\ fin' = OnReset(fin) /\ att' = NewHandler /\ sched' = RequestStep(sched, FALSE)
      /\ Processed(one) /\ UNCHANGED <<l1, el, eng, payloads, pipe, budget, db>>
  BY DEF OnResetEvent
<1> HIDE DEF one
<1>3. /\ FinalizerOK(fin') /\ fin'.data = <<>> /\ att' \in Handler /\ att'.sent = FALSE
      /\ sched' \in Scheduler
  <2>1. FinalizerOK(fin)
    BY <1>1 DEF Shape
  <2>2. OnReset(fin).data = <<>>
    BY <2>1 DEF OnReset, FinalizerOK
  <2>3. sched \in Scheduler
    BY <1>1 DEF Shape, Scheduler
  <2> QED  BY <1>2, <2>1, <2>2, <2>3, FinalizerKept, SchedulerType DEF NewHandler, Handler
<1>4. ASSUME Running PROVE Running' /\ QueueOK'
  <2>1. one \in Seq(Event)
    BY Signals DEF one
  <2>2. eng' \in RunningController /\ pipe' = pipe
    BY <1>2, <1>4 DEF Running
  <2> QED  BY <1>1, <1>2, <1>3, <1>4, <2>1, <2>2, UnsentStep
<1>5. ASSUME Starting PROVE Starting' /\ QueueOK'
  <2>1. m \in StartEvent /\ m.t = "ResetEngineRequest"
    BY DEF Signal, StartEvent
  <2>2. Head(queue) \in StartEvent
    BY <1>1, <1>5, Heads DEF IInv
  <2> HIDE DEF m
  <2>3. Round(m) = 3 /\ Round(Head(queue)) = 3 /\ ~Aside(m) /\ ~Aside(Head(queue))
    BY <1>1, <2>1, <2>2, StartRounds
  <2>4. one \in Seq(StartEvent)
    BY <2>1 DEF one
  <2>5. att' = att
    BY <1>2, <1>5 DEF Starting
  <2> QED  BY <1>1, <1>2, <1>3, <1>5, <2>1, <2>3, <2>4, <2>5, StartingStep DEF one
<1>6. (Running' \/ Starting') /\ QueueOK'
  BY <1>4, <1>5 DEF IInv
<1>7. Shape'
  BY <1>1, <1>2, <1>3, <1>6 DEF Shape, QueueOK, Scheduler
<1> QED  BY <1>6, <1>7 DEF IInv

\* The handlers that only ask for another step of the loop.
LEMMA NextScheduling ==
  ASSUME IInv, OnEngineTemporaryError \/ OnL1TemporaryError \/ OnDeriverMore PROVE IInv'
<1> DEFINE nil == <<>>
<1>1. /\ Shape /\ queue # <<>> /\ Running
      /\ Head(queue).t \in {"EngineTemporaryError", "L1TemporaryError", "DeriverMore"}
  BY Heads DEF IInv, OnEngineTemporaryError, OnL1TemporaryError, OnDeriverMore, Next1, StartTypes
<1>2. /\ Processed(nil) /\ UNCHANGED <<l1, el, eng, payloads, pipe, fin, budget, db>>
      /\ sched' \in {RequestStep(sched, FALSE), RequestStep(sched, TRUE)}
      /\ \/ att' = [att EXCEPT !.sent = FALSE]
         \/ att' = att /\ Head(queue).t \in {"L1TemporaryError", "DeriverMore"}
  BY DEF OnEngineTemporaryError, OnL1TemporaryError, OnDeriverMore, Next1, components
<1>3. nil \in Seq(Event)
  OBVIOUS
<1> HIDE DEF nil
<1>4. sched' \in Scheduler
  <2>1. sched \in Scheduler
    BY <1>1 DEF Shape, Scheduler
  <2> QED  BY <1>2, <2>1, SchedulerType
<1>5. eng' \in RunningController /\ att \in Handler
  BY <1>1, <1>2 DEF Running, Shape
<1>6. CASE att' = [att EXCEPT !.sent = FALSE]
  <2>1. att' \in Handler /\ ~att'.sent
    BY <1>5, <1>6 DEF Handler
  <2>2. Head(queue).t \notin {"DerivedAttributes", "ConfirmReceivedAttributes"}
    BY <1>1
  <2>3. Running' /\ QueueOK'
    BY <1>1, <1>2, <1>3, <1>5, <2>1, <2>2, UnsentStep
  <2>4. Shape'
    BY <1>1, <1>2, <1>4, <2>1, <2>3 DEF Shape, QueueOK, Scheduler
  <2> QED  BY <2>3, <2>4 DEF IInv
<1>7. CASE att' = att /\ Head(queue).t \in {"L1TemporaryError", "DeriverMore"}
  <2>1. Running' /\ QueueOK'
    BY <1>1, <1>2, <1>3, <1>5, <1>7, PlainStep
  <2>2. Shape'
    BY <1>1, <1>2, <1>4, <1>7, <2>1 DEF Shape, QueueOK, Scheduler
  <2> QED  BY <2>1, <2>2 DEF IInv
<1> QED  BY <1>2, <1>6, <1>7

LEMMA NextOnDeriverIdle == ASSUME IInv, OnDeriverIdle PROVE IInv'
<1> DEFINE nil == <<>>
           try == <<Signal("TryFinalize")>>
<1>1. Shape /\ queue # <<>> /\ Running /\ Head(queue).t = "DeriverIdle"
  BY Heads DEF IInv, OnDeriverIdle, Next1, StartTypes
<1>2. /\ Processed(nil) \/ Processed(try)
      /\ fin' = fin \/ fin' = [fin EXCEPT !.triedAt = L1Number[Head(queue).origin]]
      /\ sched' = [sched EXCEPT !.retrying = FALSE]
      /\ UNCHANGED <<l1, el, eng, payloads, att, pipe, budget, db>>
  BY DEF OnDeriverIdle
<1>3. nil \in Seq(Event) /\ try \in Seq(Event)
  BY Signals
<1> HIDE DEF nil, try
<1>4. Running' /\ QueueOK'
  <2>1. eng' \in RunningController /\ eng'.pending = eng.pending /\ att' = att /\ pipe' = pipe
    BY <1>1, <1>2 DEF Running
  <2> QED  BY <1>1, <1>2, <1>3, <2>1, PlainStep
<1>5. FinalizerOK(fin')
  <2>1. FinalizerOK(fin)
    BY <1>1 DEF Shape
  <2>2. Head(queue).origin \in L1Ref
    BY <1>1, Heads, EventCarries
  <2>3. L1Number[Head(queue).origin] \in Nat
    BY <2>2, Blocks
  <2> QED  BY <1>2, <2>1, <2>3, FinalizerKept
<1>6. sched' \in Scheduler
  BY <1>1, <1>2 DEF Shape, Scheduler
<1>7. Shape'
  BY <1>1, <1>2, <1>4, <1>5, <1>6 DEF Shape, QueueOK, Scheduler
<1> QED  BY <1>4, <1>7 DEF IInv

LEMMA NextOnSafeDerived == ASSUME IInv, OnSafeDerived PROVE IInv'
<1> DEFINE nil == <<>>
           reset == <<Signal("Reset")>>
           b == Head(queue).ref
           src == Head(queue).source
<1>1. Shape /\ queue # <<>> /\ Running /\ Head(queue).t = "SafeDerived"
  BY Heads DEF IInv, OnSafeDerived, Next1, StartTypes
<1>2. /\ fin' = OnDerivedSafeBlock(fin, b, src)
      /\ \E up \in BOOLEAN : Call(up)
      /\ db' \in {db, SafeHeadUpdated(db, b, src)}
      /\ Processed(nil) \/ Processed(reset)
      /\ UNCHANGED <<l1, el, sched, eng, payloads, att, pipe>>
  BY DEF OnSafeDerived
<1>3. nil \in Seq(Event) /\ reset \in Seq(Event)
  BY Signals
<1> HIDE DEF nil, reset
<1>4. Running' /\ QueueOK'
  <2>1. eng' \in RunningController /\ eng'.pending = eng.pending /\ att' = att /\ pipe' = pipe
    BY <1>1, <1>2 DEF Running
  <2> QED  BY <1>1, <1>2, <1>3, <2>1, PlainStep
<1>5. b \in Valid /\ b \in L2Block /\ src \in L1Block
  BY <1>1, Heads, EventCarries DEF Valid
<1> HIDE DEF b, src
<1>6. FinalizerOK(fin')
  <2>1. FinalizerOK(fin)
    BY <1>1 DEF Shape
  <2> QED  BY <1>2, <1>5, <2>1, DerivedSafeType
<1>7. DBTyped(db')
  <2>1. DBTyped(db)
    BY <1>1 DEF Shape
  <2> QED  BY <1>2, <1>5, <2>1, DBUpdateType
<1>8. budget' \in Scenario
  BY <1>1, <1>2, CallType DEF Shape
<1>9. Shape'
  BY <1>1, <1>2, <1>4, <1>6, <1>7, <1>8 DEF Shape, QueueOK
<1> QED  BY <1>4, <1>9 DEF IInv

LEMMA NextOnEngineResetConfirmed == ASSUME IInv, OnEngineResetConfirmed PROVE IInv'
<1> DEFINE nil == <<>>
           confirm == <<Signal("ConfirmPipelineReset")>>
           s == Head(queue).ref
           reset == SafeHeadReset(db, s)
           first == L1ByNumber(l1.head, 0)
           recorded == SafeHeadUpdated(reset, s, first)
<1>1. Shape /\ queue # <<>> /\ Running /\ Head(queue).t = "EngineResetConfirmed"
  BY Heads DEF IInv, OnEngineResetConfirmed, Next1, StartTypes
<1>2. /\ Processed(nil) \/ Processed(confirm)
      /\ db' \in {db, reset, recorded}
      /\ Call(FALSE) \/ budget' = budget
      /\ UNCHANGED <<l1, el, sched, eng, payloads, att, pipe, fin>>
  BY DEF OnEngineResetConfirmed, components
<1>3. nil \in Seq(Event) /\ confirm \in Seq(Event)
  BY Signals
<1> HIDE DEF nil, confirm
<1>4. Running' /\ QueueOK'
  <2>1. eng' \in RunningController /\ eng'.pending = eng.pending /\ att' = att /\ pipe' = pipe
    BY <1>1, <1>2 DEF Running
  <2> QED  BY <1>1, <1>2, <1>3, <2>1, PlainStep
<1>5. s \in L2Block /\ first \in L1Block
  <2>1. s \in Valid
    BY <1>1, Heads, EventCarries
  <2>2. l1.head \in L1Block
    BY <1>1 DEF Shape
  <2> QED  BY <2>1, <2>2, L1Nodes, ChainsAssumption DEF Valid
<1>6. DBTyped(db')
  <2>1. DBTyped(db)
    BY <1>1 DEF Shape
  <2>2. DBTyped(reset)
    BY <1>5, <2>1, DBResetType
  <2> HIDE DEF reset, s, first
  <2>3. DBTyped(recorded)
    BY <1>5, <2>2, DBUpdateType
  <2> QED  BY <1>2, <2>1, <2>2, <2>3
<1>7. budget' \in Scenario
  BY <1>1, <1>2, CallType DEF Shape
<1>8. Shape'
  BY <1>1, <1>2, <1>4, <1>6, <1>7 DEF Shape, QueueOK
<1> QED  BY <1>4, <1>8 DEF IInv

LEMMA NextOnDerivedAttributes == ASSUME IInv, OnDerivedAttributes PROVE IInv'
<1> DEFINE evs == <<Signal("ConfirmReceivedAttributes"), RequestPendingSafeUpdate(eng)>>
<1>1. Shape /\ queue # <<>> /\ Running /\ Head(queue).t = "DerivedAttributes"
  BY Heads DEF IInv, OnDerivedAttributes, Next1, StartTypes
<1>2. /\ Processed(evs) /\ att' = [attributes |-> Head(queue).attr, sent |-> FALSE]
      /\ UNCHANGED <<l1, el, sched, eng, payloads, pipe, fin, budget, db>>
  BY DEF OnDerivedAttributes
<1>3. /\ evs \in Seq(Event)
      /\ \E m \in Range(evs) : m.t \in {"DerivedAttributes", "ConfirmReceivedAttributes"}
  <2>1. RequestPendingSafeUpdate(eng) \in Event
    BY <1>1, HeadEvents DEF Running
  <2>2. Signal("ConfirmReceivedAttributes") \in Event
        /\ Signal("ConfirmReceivedAttributes").t = "ConfirmReceivedAttributes"
    BY Signals
  <2> QED  BY <2>1, <2>2, Ranges
<1> HIDE DEF evs
<1>4. att' \in Handler /\ ~att'.sent
  <2>1. Head(queue).attr \in Carried
    BY <1>1, Heads, EventCarries
  <2> QED  BY <1>2, <2>1 DEF Handler
<1>5. Running' /\ QueueOK'
  <2>1. eng' \in RunningController /\ pipe' = pipe
    BY <1>1, <1>2 DEF Running
  <2> QED  BY <1>1, <1>2, <1>3, <1>4, <2>1, UnsentStep
<1>6. Shape'
  BY <1>1, <1>2, <1>4, <1>5 DEF Shape, QueueOK
<1> QED  BY <1>5, <1>6 DEF IInv

LEMMA NextOnPayloadSealExpired == ASSUME IInv, OnPayloadSealExpired PROVE IInv'
<1> DEFINE nil == <<>>
<1>1. Shape /\ queue # <<>> /\ Running /\ Head(queue).t = "PayloadSealExpired"
  BY Heads DEF IInv, OnPayloadSealExpired, Next1, StartTypes
<1>2. /\ Processed(nil) /\ att' = [att EXCEPT !.sent = FALSE]
      /\ UNCHANGED <<l1, el, sched, eng, payloads, pipe, fin, budget, db>>
  BY DEF OnPayloadSealExpired
<1>3. nil \in Seq(Event)
  OBVIOUS
<1> HIDE DEF nil
<1>4. att' \in Handler /\ ~att'.sent
  BY <1>1, <1>2 DEF Shape, Handler
<1>5. Running' /\ QueueOK'
  <2>1. eng' \in RunningController /\ pipe' = pipe
    BY <1>1, <1>2 DEF Running
  <2> QED  BY <1>1, <1>2, <1>3, <1>4, <2>1, UnsentStep
<1>6. Shape'
  BY <1>1, <1>2, <1>4, <1>5 DEF Shape, QueueOK
<1> QED  BY <1>5, <1>6 DEF IInv

LEMMA NextConfirmations ==
  ASSUME IInv, OnConfirmPipelineReset \/ OnConfirmReceivedAttributes PROVE IInv'
<1> DEFINE nil == <<>>
<1>1. /\ Shape /\ queue # <<>> /\ Running
      /\ Head(queue).t \in {"ConfirmPipelineReset", "ConfirmReceivedAttributes"}
  BY Heads DEF IInv, OnConfirmPipelineReset, OnConfirmReceivedAttributes, Next1, StartTypes
<1>2. /\ Processed(nil)
      /\ \/ pipe' = [pipe EXCEPT !.engineIsReset = TRUE] /\ Head(queue).t = "ConfirmPipelineReset"
         \/ pipe' = [pipe EXCEPT !.unconfirmed = FALSE]
      /\ UNCHANGED <<l1, el, sched, eng, payloads, att, fin, budget, db>>
  BY DEF OnConfirmPipelineReset, OnConfirmReceivedAttributes, Next1
<1>3. nil \in Seq(Event)
  OBVIOUS
<1> HIDE DEF nil
<1>4. PipelineOK(pipe) /\ pipe \in Pipeline
  BY <1>1 DEF Shape, PipelineOK
<1>5. /\ PipelineOK(pipe')
      /\ \/ pipe'.unconfirmed = pipe.unconfirmed /\ Head(queue).t = "ConfirmPipelineReset"
         \/ ~pipe'.unconfirmed
  BY <1>2, <1>4 DEF PipelineOK, Pipeline
<1>6. eng' \in RunningController /\ eng' = eng /\ att' = att
  BY <1>1, <1>2 DEF Running
<1>7. Running' /\ QueueOK'
  <2>1. CASE pipe'.unconfirmed = pipe.unconfirmed /\ Head(queue).t = "ConfirmPipelineReset"
    BY <1>1, <1>2, <1>3, <1>6, <2>1, PlainStep
  <2>2. CASE ~pipe'.unconfirmed
    <3>1. \A b \in L2Block : ~Ends(Head(queue), b)
      BY <1>1 DEF Ends, BuildTypes
    <3>2. Number[eng.pending] \in Nat
      BY <1>6, Blocks DEF RunningController, Valid, L2Ref
    <3>3. BuildEnds(att', eng', queue')
      BY <1>1, <1>2, <1>3, <1>6, <3>1, <3>2, BuildStillEnds
    <3>4. ConfirmationComes(pipe', queue')
      BY <2>2 DEF ConfirmationComes
    <3> QED  BY <1>1, <1>2, <1>3, <1>6, <3>3, <3>4, RunningStep
  <2> QED  BY <1>5, <2>1, <2>2
<1>8. Shape'
  BY <1>1, <1>2, <1>5, <1>7 DEF Shape, QueueOK
<1> QED  BY <1>7, <1>8 DEF IInv

\* onPendingSafeUpdate once the engine was reset: the attributes are kept, dropped,
\* consolidated or built.
LEMMA NextOnPendingSafeUpdate == ASSUME IInv, OnPendingSafeUpdate PROVE IInv'
<1> DEFINE p == Head(queue).pending
           u == Head(queue).unsafe
           a == att.attributes
           nil == <<>>
           reset == <<Signal("Reset")>>
           again == <<Signal("EngineTemporaryError")>>
           step == <<[t |-> "PipelineStep", pending |-> p]>>
           build == <<Job("BuildStart", a)>>
           r == PromoteDerived(eng, a)
           have == L2ByNumber(el.head, Number[p] + 1)
<1>1. Shape /\ queue # <<>> /\ Head(queue).t = "PendingSafeUpdate"
  BY DEF IInv, OnPendingSafeUpdate, Next1
<1>2. UNCHANGED <<l1, el, sched, payloads, pipe, fin, db>>
  BY DEF OnPendingSafeUpdate
<1>3. \/ /\ Processed(nil) \/ Processed(reset)
         /\ UNCHANGED <<eng, att, budget>>
      \/ /\ att' = NewHandler /\ Processed(step) /\ UNCHANGED <<eng, budget>>
         /\ ~(Number[u] < Number[p])
      \/ /\ NextHeight(a, p) /\ Parent[a.block] = p /\ att' = [att EXCEPT !.sent = TRUE]
         /\ Processed(build) /\ UNCHANGED <<eng, budget>>
      \/ Call(FALSE) /\ Processed(again) /\ UNCHANGED <<eng, att>>
      \/ /\ NextHeight(a, p) /\ have = a.block
         /\ eng' = r.eng /\ Processed(r.evs) /\ UNCHANGED <<att, budget>>
  BY DEF OnPendingSafeUpdate
<1>n. NextHeight(a, p) => a # NoAttributes
  BY DEF NextHeight
<1>4. budget' \in Scenario
  BY <1>1, <1>3, CallType DEF Shape
<1>5. att \in Handler /\ (a # NoAttributes => a \in Carried)
  BY <1>1 DEF Shape, Handler
<1>6. ASSUME Running
      PROVE  Running' /\ QueueOK' /\ att' \in Handler
  <2>1. p \in Valid /\ u \in ValidRef
    BY <1>1, <1>6, Heads, EventCarries
  <2>2. nil \in Seq(Event) /\ reset \in Seq(Event) /\ again \in Seq(Event)
    BY Signals
  <2>3. step \in Seq(Event)
    <3>1. [t |-> "PipelineStep", pending |-> p] \in Event
      BY <2>1 DEF HeadsEvent, Event
    <3> QED  BY <3>1
  <2> HIDE DEF nil, reset, again, step
  <2>4. CASE (Processed(nil) \/ Processed(reset) \/ Processed(again)) /\ UNCHANGED <<eng, att>>
    <3>1. eng' \in RunningController /\ eng'.pending = eng.pending /\ att' = att /\ pipe' = pipe
      BY <1>2, <1>6, <2>4 DEF Running
    <3> QED  BY <1>1, <1>5, <1>6, <2>2, <2>4, <3>1, PlainStep
  <2>5. CASE att' = NewHandler /\ Processed(step) /\ UNCHANGED eng
    <3>1. att' \in Handler /\ ~att'.sent
      BY <2>5 DEF NewHandler, Handler
    <3>2. eng' \in RunningController /\ pipe' = pipe
      BY <1>2, <1>6, <2>5 DEF Running
    <3> QED  BY <1>1, <1>6, <2>3, <2>5, <3>1, <3>2, UnsentStep
  <2>6. CASE /\ NextHeight(a, p) /\ Parent[a.block] = p /\ att' = [att EXCEPT !.sent = TRUE]
             /\ Processed(build) /\ UNCHANGED eng
    <3> DEFINE m == Job("BuildStart", a)
    <3>1. a \in Carried /\ Parent[a.block] \in Valid
      BY <1>n, <1>5, <2>1, <2>6
    <3>2. m \in Event /\ m.t = "BuildStart" /\ m.attr = a
      BY <3>1, JobEvents DEF BuildTypes
    <3>3. Ends(m, a.block)
      BY <3>2 DEF Ends, BuildTypes
    <3>4. build \in Seq(Event) /\ m \in Range(build)
      <4> HIDE DEF m
      <4>1. <<m>> \in Seq(Event) /\ m \in Range(<<m>>)
        BY <3>2, Ranges
      <4> QED  BY <4>1 DEF m
    <3> HIDE DEF m, build
    <3>5. m \in Range(queue')
      <4>1. queue \in Seq(Event) /\ Tail(queue) \in Seq(Event)
        BY <1>1, <1>6, Head1 DEF Running
      <4> QED  BY <1>1, <2>6, <3>4, <4>1, Handled
    <3>6. att' \in Handler /\ att'.attributes = a
      BY <1>5, <2>6 DEF Handler
    <3>7. BuildEnds(att', eng', queue')
      BY <3>1, <3>3, <3>5, <3>6 DEF BuildEnds
    <3>8. ConfirmationComes(pipe', queue')
      <4>1. Head(queue).t \notin {"DerivedAttributes", "ConfirmReceivedAttributes"}
        BY <1>1
      <4> QED  BY <1>1, <1>2, <1>6, <2>6, <3>4, <4>1, StillConfirmed
    <3>9. eng' \in RunningController
      BY <1>6, <2>6 DEF Running
    <3> QED  BY <1>1, <1>6, <2>6, <3>4, <3>6, <3>7, <3>8, <3>9, RunningStep
  <2>7. CASE NextHeight(a, p) /\ have = a.block /\ eng' = r.eng /\ Processed(r.evs) /\ att' = att
    <3>1. a \in Carried /\ a.block \in L2Block
      BY <1>n, <1>5, <2>7, CarriedAttributes
    <3>2. have \in Valid
      <4>1. have \in L2Chain[el.head]
        <5>1. have # NoBlock /\ el.head \in L2Block
          BY <1>1, <2>7, <3>1, Blocks DEF Shape, ValidEngine, Valid
        <5> QED  BY <5>1, L2Nodes
      <4> QED  BY <1>1, <4>1, ValidBlocks DEF Shape, ValidEngine
    <3>3. a \in Executed
      BY <2>7, <3>1, <3>2 DEF Executed
    <3>4. r.eng \in RunningController /\ r.evs \in Seq(Event) /\ Number[eng.pending] <= Number[r.eng.pending]
      BY <1>6, <3>3, PromoteDerivedType DEF Running
    <3>5. \A b \in L2Block : ~Ends(Head(queue), b)
      BY <1>1 DEF Ends, BuildTypes
    <3> HIDE DEF r
    <3>6. BuildEnds(att', eng', queue')
      BY <1>1, <1>6, <2>7, <3>4, <3>5, BuildStillEnds
    <3>7. ConfirmationComes(pipe', queue')
      <4>1. Head(queue).t \notin {"DerivedAttributes", "ConfirmReceivedAttributes"}
        BY <1>1
      <4> QED  BY <1>1, <1>2, <1>6, <2>7, <3>4, <4>1, StillConfirmed
    <3> QED  BY <1>1, <1>5, <1>6, <2>7, <3>4, <3>6, <3>7, RunningStep
  <2> QED  BY <1>3, <2>4, <2>5, <2>6, <2>7
<1>7. ASSUME Starting
      PROVE  Starting' /\ QueueOK' /\ att' \in Handler
  <2>1. /\ att = NewHandler /\ ~att.sent /\ a = NoAttributes
        /\ Head(queue) \in StartEvent /\ p = NoBlock /\ u = NoBlock
    <3>1. Head(queue) \in StartEvent /\ att = NewHandler
      BY <1>1, <1>7, Heads DEF IInv, Starting
    <3> QED  BY <1>1, <3>1 DEF StartEvent, NewHandler
  <2>2. Number[u] = 0 /\ Number[p] = 0 /\ ~NextHeight(a, p)
    BY <2>1, Blocks DEF NextHeight
  <2>3. att' = NewHandler /\ Processed(step) /\ UNCHANGED eng
    BY <2>1, <2>2 DEF OnPendingSafeUpdate
  <2> DEFINE m == [t |-> "PipelineStep", pending |-> p]
  <2>4. m \in StartEvent /\ m.t = "PipelineStep"
    BY <2>1 DEF StartEvent
  <2> HIDE DEF m
  <2>5. step = <<m>> /\ step \in Seq(StartEvent)
    BY <2>4 DEF m
  <2> HIDE DEF step
  <2>6. Round(m) = Round(Head(queue)) + 1 /\ ~Aside(m) /\ ~Aside(Head(queue))
    BY <1>1, <2>1, <2>4, StartRounds
  <2>7. eng' = eng /\ att' = att /\ pipe' = pipe /\ fin'.data = <<>>
    BY <1>2, <1>7, <2>1, <2>3 DEF Starting
  <2>8. Starting' /\ QueueOK'
    BY <1>1, <1>7, <2>3, <2>4, <2>5, <2>6, <2>7, StartingStep
  <2> QED  BY <1>5, <2>7, <2>8
<1>8. (Running' \/ Starting') /\ QueueOK' /\ att' \in Handler
  BY <1>6, <1>7 DEF IInv
<1>9. Shape'
  BY <1>1, <1>2, <1>4, <1>8 DEF Shape, QueueOK
<1> QED  BY <1>8, <1>9 DEF IInv

\* A step of the pipeline: before the first reset it can only ask for that reset.
LEMMA NextOnPipelineStep == ASSUME IInv, OnPipelineStep PROVE IInv'
<1> DEFINE par == Head(queue).pending
           nil == <<>>
           r(up) == Step(pipe, par, l1.head, up)
<1>1. Shape /\ queue # <<>> /\ Head(queue).t = "PipelineStep" /\ PipelineOK(pipe)
  BY DEF IInv, OnPipelineStep, Next1, Shape
<1>2. UNCHANGED <<l1, el, sched, eng, payloads, att, fin, db>>
  BY DEF OnPipelineStep
<1> DEFINE lost == <<Signal("Reset")>>
<1>3. \/ pipe.unconfirmed /\ Processed(nil) /\ UNCHANGED <<pipe, budget>>
      \/ /\ ~pipe.unconfirmed
         /\ \E up \in BOOLEAN :
              Call(up) /\ pipe' = r(up).pipe /\ Processed(StepEvents(r(up)))
      \/ pipe.engineIsReset /\ Call(FALSE) /\ Processed(lost) /\ UNCHANGED pipe
  BY DEF OnPipelineStep, WalksBack
<1>4. budget' \in Scenario /\ l1.head \in L1Block
  BY <1>1, <1>3, CallType DEF Shape
<1>5. ASSUME Running PROVE Running' /\ QueueOK' /\ PipelineOK(pipe')
  <2>1. par \in L2Block
    BY <1>1, <1>5, Heads, EventCarries DEF Valid
  <2>2. eng' \in RunningController /\ eng'.pending = eng.pending /\ att' = att
    BY <1>2, <1>5 DEF Running
  <2>3. CASE pipe.unconfirmed /\ Processed(nil) /\ UNCHANGED pipe
    <3>1. nil \in Seq(Event)
      OBVIOUS
    <3> HIDE DEF nil
    <3> QED  BY <1>1, <1>5, <2>2, <2>3, <3>1, PlainStep
  <2>4. CASE /\ ~pipe.unconfirmed
             /\ \E up \in BOOLEAN : pipe' = r(up).pipe /\ Processed(StepEvents(r(up)))
    <3>1. PICK up \in BOOLEAN : pipe' = r(up).pipe /\ Processed(StepEvents(r(up)))
      BY <2>4
    <3> DEFINE s == r(up)
               evs == StepEvents(s)
    <3>2. /\ PipelineOK(s.pipe)
          /\ s.result \in {"reset", "temporary", "idle", "more", "attributes"}
          /\ s.result = "attributes" => s.pipe.last \in Carried
          /\ s.pipe.unconfirmed => s.result = "attributes"
      BY <1>1, <1>4, <2>1, <2>4, StepType
    <3> HIDE DEF s
    <3>3. /\ evs \in Seq(Event)
          /\ s.result = "attributes" => \E m \in Range(evs) : m.t = "DerivedAttributes"
      BY <3>2, StepEventsType
    <3>4. pipe' = s.pipe /\ Processed(evs)
      BY <3>1 DEF s
    <3> HIDE DEF evs
    <3>5. queue \in Seq(Event) /\ Tail(queue) \in Seq(Event)
      BY <1>1, <1>5, Head1 DEF Running
    <3>6. ConfirmationComes(pipe', queue')
      <4> SUFFICES ASSUME pipe'.unconfirmed
                   PROVE  \E m \in Range(queue') :
                            m.t \in {"DerivedAttributes", "ConfirmReceivedAttributes"}
        BY DEF ConfirmationComes
      <4>1. PICK m \in Range(evs) : m.t = "DerivedAttributes"
        BY <3>2, <3>3, <3>4
      <4>2. m \in Range(queue')
        BY <1>1, <3>3, <3>4, <3>5, Handled
      <4> QED  BY <4>1, <4>2
    <3>7. \A b \in L2Block : ~Ends(Head(queue), b)
      BY <1>1 DEF Ends, BuildTypes
    <3>8. Number[eng.pending] <= Number[eng'.pending]
      <4>1. Number[eng.pending] \in Nat
        BY <1>5, Blocks DEF Running, RunningController, Valid, L2Ref
      <4> QED  BY <2>2, <4>1
    <3>9. BuildEnds(att', eng', queue')
      BY <1>1, <1>5, <2>2, <3>3, <3>4, <3>7, <3>8, BuildStillEnds
    <3> QED  BY <1>1, <1>5, <2>2, <3>2, <3>3, <3>4, <3>6, <3>9, RunningStep
  <2>5. CASE Processed(lost) /\ UNCHANGED pipe
    <3>1. Signal("Reset") \in Event
      BY Signals
    <3>2. lost \in Seq(Event)
      BY <3>1
    <3> HIDE DEF lost
    <3> QED  BY <1>1, <1>5, <2>2, <2>5, <3>2, PlainStep
  <2> QED  BY <1>1, <1>3, <2>3, <2>4, <2>5
<1>6. ASSUME Starting PROVE Starting' /\ QueueOK' /\ PipelineOK(pipe')
  <2> DEFINE m == Signal("Reset")
             one == <<m>>
  <2>1. /\ pipe = NewPipeline /\ ~pipe.unconfirmed /\ pipe.resetting = 0 /\ ~pipe.engineIsReset
    BY <1>6 DEF Starting, NewPipeline
  <2>2. \A up : r(up) = [pipe |-> pipe, result |-> "reset"]
    BY <2>1 DEF Step, Outcome, Stages
  <2>3. \A up : StepEvents(r(up)) = one
    BY <2>2 DEF StepEvents
  <2>4. m \in StartEvent /\ m.t = "Reset"
    BY DEF Signal, StartEvent
  <2>5. Head(queue) \in StartEvent
    BY <1>1, <1>6, Heads DEF IInv
  <2> HIDE DEF m, r
  <2>6. Round(m) = Round(Head(queue)) + 1 /\ ~Aside(m) /\ ~Aside(Head(queue))
    BY <1>1, <2>4, <2>5, StartRounds
  <2>7. one \in Seq(StartEvent)
    BY <2>4
  <2> HIDE DEF one
  <2>8. pipe' = pipe /\ Processed(one)
    BY <1>3, <2>1, <2>2, <2>3
  <2>9. fin'.data = <<>> /\ one = <<m>>
    BY <1>2, <1>6 DEF Starting, one
  <2> QED  BY <1>1, <1>2, <1>6, <2>4, <2>6, <2>7, <2>8, <2>9, StartingStep
<1>7. (Running' \/ Starting') /\ QueueOK' /\ PipelineOK(pipe')
  BY <1>5, <1>6 DEF IInv
<1>8. Shape'
  BY <1>1, <1>2, <1>4, <1>7 DEF Shape, QueueOK
<1> QED  BY <1>7, <1>8 DEF IInv

\* The deposits-only form of the attributes, or the sanity check failed.
LEMMA NextOnDepositsOnlyRequest == ASSUME IInv, OnDepositsOnlyRequest PROVE IInv'
<1> DEFINE a == Head(queue).attr
           m == Job("DerivedAttributes", DepositsOnlyAttributes(pipe).last)
           again == <<m>>
           fatal == <<Signal("CriticalError")>>
<1>1. Shape /\ queue # <<>> /\ Running /\ Head(queue).t = "DepositsOnlyRequest" /\ PipelineOK(pipe)
  BY Heads DEF IInv, OnDepositsOnlyRequest, Next1, StartTypes, Shape
<1>2. /\ UNCHANGED <<l1, el, sched, eng, payloads, att, fin, budget, db>>
      /\ \/ /\ DepositsOnlyPossible(pipe, a)
            /\ pipe' = DepositsOnlyAttributes(pipe) /\ Processed(again)
         \/ Processed(fatal) /\ UNCHANGED pipe
  BY DEF OnDepositsOnlyRequest
<1>3. eng' \in RunningController /\ eng' = eng /\ att' = att /\ Number[eng.pending] \in Nat
  BY <1>1, <1>2, Blocks DEF Running, RunningController, Valid, L2Ref
<1>4. CASE DepositsOnlyPossible(pipe, a) /\ pipe' = DepositsOnlyAttributes(pipe) /\ Processed(again)
  <2>1. PipelineOK(pipe') /\ DepositsOnlyAttributes(pipe).last \in Carried
    BY <1>1, <1>4, DepositsOnlyType
  <2>2. m \in Event /\ m.t = "DerivedAttributes"
    BY <2>1, JobEvents
  <2> HIDE DEF m
  <2>3. again \in Seq(Event) /\ m \in Range(again)
    BY <2>2, Ranges
  <2> HIDE DEF again
  <2>4. \A b : Ends(m, b)
    BY <2>2 DEF Ends
  <2>5. BuildEnds(att', eng', queue')
    BY <1>1, <1>3, <1>4, <2>3, <2>4, BuildStillEnds
  <2>6. ConfirmationComes(pipe', queue')
    <3>1. queue \in Seq(Event) /\ Tail(queue) \in Seq(Event)
      BY <1>1, Head1 DEF Running
    <3>2. m \in Range(queue')
      BY <1>1, <1>4, <2>3, <3>1, Handled
    <3> QED  BY <2>2, <3>2 DEF ConfirmationComes
  <2>7. Running' /\ QueueOK'
    BY <1>1, <1>3, <1>4, <2>3, <2>5, <2>6, RunningStep
  <2>8. Shape'
    BY <1>1, <1>2, <2>1, <2>7 DEF Shape, QueueOK
  <2> QED  BY <2>7, <2>8 DEF IInv
<1>5. CASE Processed(fatal) /\ UNCHANGED pipe
  <2> DEFINE f == Signal("CriticalError")
  <2>1. f \in Event /\ f.t = "CriticalError"
    BY Signals
  <2> HIDE DEF f
  <2>2. fatal \in Seq(Event) /\ f \in Range(fatal)
    <3>1. <<f>> \in Seq(Event) /\ f \in Range(<<f>>)
      BY <2>1, Ranges
    <3> QED  BY <3>1 DEF f
  <2> HIDE DEF fatal
  <2>3. \A b : Ends(f, b)
    BY <2>1 DEF Ends
  <2>4. BuildEnds(att', eng', queue')
    BY <1>1, <1>3, <1>5, <2>2, <2>3, BuildStillEnds
  <2>5. ConfirmationComes(pipe', queue')
    <3>1. Head(queue).t \notin {"DerivedAttributes", "ConfirmReceivedAttributes"}
      BY <1>1
    <3> QED  BY <1>1, <1>5, <2>2, <3>1, StillConfirmed
  <2>6. Running' /\ QueueOK'
    BY <1>1, <1>3, <1>5, <2>2, <2>4, <2>5, RunningStep
  <2>7. Shape'
    BY <1>1, <1>2, <1>5, <2>6 DEF Shape, QueueOK
  <2> QED  BY <2>6, <2>7 DEF IInv
<1> QED  BY <1>2, <1>4, <1>5

\* A reset of the engine, the first one or a later one.
LEMMA NextOnResetEngineRequest == ASSUME IInv, OnResetEngineRequest PROVE IInv'
<1> DEFINE m == Signal("Reset")
           again == <<m>>
           h == FindL2Heads(el, l1.head)
<1>1. Shape /\ Next1("ResetEngineRequest") /\ queue # <<>> /\ Head(queue).t = "ResetEngineRequest"
  BY DEF IInv, OnResetEngineRequest, Next1
<1>2. UNCHANGED <<l1, sched, payloads, fin, db>>
  BY DEF OnResetEngineRequest
<1>3. \/ /\ Call(FALSE) \/ budget' = budget
         /\ Processed(again) /\ UNCHANGED <<el, eng, att, pipe>>
      \/ \E up \in BOOLEAN :
           /\ Call(up)
           /\ att' = NewHandler /\ pipe' = ResetPipeline(pipe)
           /\ eng' = ForceReset(el, h, up).eng /\ el' = ForceReset(el, h, up).el
           /\ Processed(ForceReset(el, h, up).evs)
  BY DEF OnResetEngineRequest
<1>4. budget' \in Scenario
  BY <1>1, <1>3, CallType DEF Shape
<1>5. CASE Processed(again) /\ UNCHANGED <<el, eng, att, pipe>>
  <2>1. ASSUME Running PROVE Running' /\ QueueOK'
    <3>1. again \in Seq(Event)
      BY Signals
    <3> HIDE DEF again
    <3>2. eng' \in RunningController /\ eng'.pending = eng.pending /\ att' = att /\ pipe' = pipe
      BY <1>5, <2>1 DEF Running
    <3> QED  BY <1>1, <1>5, <2>1, <3>1, <3>2, PlainStep
  <2>2. ASSUME Starting PROVE Starting' /\ QueueOK'
    <3>1. m \in StartEvent /\ m.t = "Reset"
      BY DEF Signal, StartEvent
    <3>2. Head(queue) \in StartEvent
      BY <1>1, <2>2, Heads DEF IInv
    <3> HIDE DEF m
    <3>3. Round(m) = 3 /\ Round(Head(queue)) = 3 /\ ~Aside(m) /\ ~Aside(Head(queue))
      BY <1>1, <3>1, <3>2, StartRounds
    <3>4. again \in Seq(StartEvent) /\ again = <<m>>
      BY <3>1
    <3> HIDE DEF again
    <3>5. fin'.data = <<>> /\ eng' = eng /\ att' = att /\ pipe' = pipe
      BY <1>2, <1>5, <2>2 DEF Starting
    <3> QED  BY <1>1, <1>5, <2>2, <3>1, <3>3, <3>4, <3>5, StartingStep
  <2>3. (Running' \/ Starting') /\ QueueOK'
    BY <2>1, <2>2 DEF IInv
  <2> HIDE DEF again
  <2>4. Shape'
    BY <1>1, <1>2, <1>4, <1>5, <2>3 DEF Shape, QueueOK
  <2> QED  BY <2>3, <2>4 DEF IInv
<1>6. CASE \E up \in BOOLEAN :
             /\ att' = NewHandler /\ pipe' = ResetPipeline(pipe)
             /\ eng' = ForceReset(el, h, up).eng /\ el' = ForceReset(el, h, up).el
             /\ Processed(ForceReset(el, h, up).evs)
  <2>1. PICK up \in BOOLEAN :
             /\ att' = NewHandler /\ pipe' = ResetPipeline(pipe)
             /\ eng' = ForceReset(el, h, up).eng /\ el' = ForceReset(el, h, up).el
             /\ Processed(ForceReset(el, h, up).evs)
    BY <1>6
  <2>2. h \in [unsafe : ValidRef, safe : Valid, finalized : Valid] /\ el \in ValidEngine
    BY <1>1, FindHeadsType DEF Shape
  <2> HIDE DEF h
  <2> DEFINE evs == ForceReset(el, h, up).evs
  <2>3. eng' \in RunningController /\ el' \in ValidEngine /\ evs \in Seq(Event)
    BY <2>1, <2>2, ForceResetType
  <2>4. att' \in Handler /\ ~att'.sent
    BY <2>1 DEF NewHandler, Handler
  <2>5. PipelineOK(pipe') /\ pipe'.unconfirmed = pipe.unconfirmed
    BY <1>1, <2>1, PipelineResetType DEF Shape
  <2>6. Processed(evs)
    BY <2>1
  <2> HIDE DEF evs
  <2>7. Running' /\ QueueOK'
    <3>1. CASE Running
      <4>1. Head(queue).t \notin {"DerivedAttributes", "ConfirmReceivedAttributes"}
        BY <1>1
      <4> QED  BY <1>1, <2>3, <2>4, <2>5, <2>6, <3>1, <4>1, UnsentStep
    <3>2. CASE Starting
      <4>1. queue \in Seq(StartEvent) /\ Tail(queue) \in Seq(Event)
        BY <1>1, <3>2, FirstReset DEF Starting
      <4>2. BuildEnds(att', eng', queue')
        BY <2>4 DEF BuildEnds
      <4>3. ConfirmationComes(pipe', queue')
        BY <2>5, <3>2 DEF Starting, NewPipeline, ConfirmationComes
      <4> QED  BY <1>1, <2>3, <2>6, <4>1, <4>2, <4>3, RunningStep
    <3> QED  BY <3>1, <3>2 DEF IInv
  <2>8. Shape'
    BY <1>1, <1>2, <1>4, <2>3, <2>4, <2>5, <2>7 DEF Shape, QueueOK
  <2> QED  BY <2>7, <2>8 DEF IInv
<1> QED  BY <1>3, <1>5, <1>6

\* The handlers of the unsafe and of the local-safe head.
LEMMA NextOnUnsafeUpdate == ASSUME IInv, OnUnsafeUpdate PROVE IInv'
<1>1. Shape /\ queue # <<>> /\ Running /\ Head(queue).t = "UnsafeUpdate"
  BY Heads DEF IInv, OnUnsafeUpdate, Next1, StartTypes
<1>2. PICK up : /\ Call(up)
                /\ eng' = TryUpdateEngine(eng, el, up).eng /\ el' = TryUpdateEngine(eng, el, up).el
                /\ Processed(TryUpdateEngine(eng, el, up).evs)
  BY DEF OnUnsafeUpdate
<1>3. UNCHANGED <<l1, sched, payloads, att, pipe, fin, db>>
  BY DEF OnUnsafeUpdate
<1> DEFINE evs == TryUpdateEngine(eng, el, up).evs
<1>4. /\ eng' \in RunningController /\ eng'.pending = eng.pending /\ el' \in ValidEngine
      /\ evs \in Seq(Event) /\ Processed(evs)
  BY <1>1, <1>2, UpdateType DEF Running, Shape
<1>5. budget' \in Scenario
  BY <1>1, <1>2, CallType DEF Shape
<1> HIDE DEF evs
<1>6. Running' /\ QueueOK'
  BY <1>1, <1>3, <1>4, PlainStep
<1>7. Shape'
  BY <1>1, <1>3, <1>4, <1>5, <1>6 DEF Shape, QueueOK
<1> QED  BY <1>6, <1>7 DEF IInv

LEMMA NextOnLocalSafeUpdate == ASSUME IInv, OnLocalSafeUpdate PROVE IInv'
<1> DEFINE b == Head(queue).ref
           src == Head(queue).source
<1>1. Shape /\ queue # <<>> /\ Running /\ Head(queue).t = "LocalSafeUpdate"
  BY Heads DEF IInv, OnLocalSafeUpdate, Next1, StartTypes
<1>2. PICK up : /\ Call(up)
                /\ eng' = PromoteSafe(eng, el, b, src, up).eng
                /\ el' = PromoteSafe(eng, el, b, src, up).el
                /\ Processed(PromoteSafe(eng, el, b, src, up).evs)
  BY DEF OnLocalSafeUpdate
<1>3. UNCHANGED <<l1, sched, payloads, att, pipe, fin, db>>
  BY DEF OnLocalSafeUpdate
<1>4. b \in Valid /\ src \in L1Block /\ Carries(src, b)
  BY <1>1, Heads, EventCarries
<1> HIDE DEF b, src
<1> DEFINE evs == PromoteSafe(eng, el, b, src, up).evs
<1>5. /\ eng' \in RunningController /\ eng'.pending = eng.pending /\ el' \in ValidEngine
      /\ evs \in Seq(Event) /\ Processed(evs)
  BY <1>1, <1>2, <1>4, PromoteSafeType DEF Running, Shape
<1>6. budget' \in Scenario
  BY <1>1, <1>2, CallType DEF Shape
<1> HIDE DEF evs
<1>7. Running' /\ QueueOK'
  BY <1>1, <1>3, <1>5, PlainStep
<1>8. Shape'
  BY <1>1, <1>3, <1>5, <1>6, <1>7 DEF Shape, QueueOK
<1> QED  BY <1>7, <1>8 DEF IInv

LEMMA NextOnPayloadSuccess == ASSUME IInv, OnPayloadSuccess PROVE IInv'
<1> DEFINE a == Head(queue).attr
<1>1. Shape /\ queue # <<>> /\ Running /\ Head(queue).t = "PayloadSuccess"
  BY Heads DEF IInv, OnPayloadSuccess, Next1, StartTypes
<1>2. PICK up : /\ Call(up)
                /\ eng' = PayloadSuccess(eng, el, a, up).eng
                /\ el' = PayloadSuccess(eng, el, a, up).el
                /\ Processed(PayloadSuccess(eng, el, a, up).evs)
  BY DEF OnPayloadSuccess
<1>3. UNCHANGED <<l1, sched, payloads, att, pipe, fin, db>>
  BY DEF OnPayloadSuccess
<1>4. a \in Executed
  BY <1>1, Heads, EventCarries
<1>5. \A b \in L2Block : Ends(Head(queue), b) => b = a.block
  BY <1>1 DEF Ends, BuildTypes
<1> HIDE DEF a
<1> DEFINE evs == PayloadSuccess(eng, el, a, up).evs
<1>6. /\ eng' \in RunningController /\ el' \in ValidEngine
      /\ Number[eng.pending] <= Number[eng'.pending] /\ Number[a.block] <= Number[eng'.pending]
      /\ evs \in Seq(Event) /\ Processed(evs)
  BY <1>1, <1>2, <1>4, PayloadSuccessType DEF Running, Shape
<1>7. budget' \in Scenario
  BY <1>1, <1>2, CallType DEF Shape
<1> HIDE DEF evs
<1>8. BuildEnds(att', eng', queue')
  BY <1>1, <1>3, <1>5, <1>6, BuildStillEnds
<1>9. ConfirmationComes(pipe', queue')
  <2>1. Head(queue).t \notin {"DerivedAttributes", "ConfirmReceivedAttributes"}
    BY <1>1
  <2> QED  BY <1>1, <1>3, <1>6, <2>1, StillConfirmed
<1>10. Running' /\ QueueOK'
  BY <1>1, <1>6, <1>8, <1>9, RunningStep
<1>11. Shape'
  BY <1>1, <1>3, <1>6, <1>7, <1>10 DEF Shape, QueueOK
<1> QED  BY <1>10, <1>11 DEF IInv

\* One event that ends the wait for any build.
LEMMA EndingSignals ==
  \A s \in {"EngineTemporaryError", "Reset", "CriticalError"} :
    /\ <<Signal(s)>> \in Seq(Event)
    /\ \A b : \E m \in Range(<<Signal(s)>>) : Ends(m, b)
<1> TAKE s \in {"EngineTemporaryError", "Reset", "CriticalError"}
<1>1. Signal(s).t = s /\ Signal(s) \in Event
  BY Signals
<1>2. \A b : Ends(Signal(s), b)
  BY <1>1 DEF Ends
<1> QED  BY <1>1, <1>2, Ranges

\* One event that takes the build of the attributes a on.
LEMMA EndingJobs ==
  ASSUME NEW a \in Carried, NEW s,
         \/ s \in {"BuildInvalid", "DepositsOnlyRequest", "PayloadSealExpired"}
         \/ s \in BuildTypes /\ Parent[a.block] \in Valid
         \/ s = "PayloadSuccess" /\ a.block \in Valid
  PROVE  /\ <<Job(s, a)>> \in Seq(Event) /\ Job(s, a) \in Event
         /\ Ends(Job(s, a), a.block)
         /\ \E m \in Range(<<Job(s, a)>>) : Ends(m, a.block)
<1>1. Job(s, a) \in Event /\ Job(s, a).t = s /\ Job(s, a).attr = a
  BY JobEvents
<1>2. Ends(Job(s, a), a.block)
  BY <1>1 DEF Ends
<1> QED  BY <1>1, <1>2, Ranges

LEMMA NextOnBuildStart == ASSUME IInv, OnBuildStart PROVE IInv'
<1> DEFINE a == Head(queue).attr
           p == Parent[a.block]
           fcu == Forkchoice(el, p, eng.safe, eng.finalized)
           fatal == <<Signal("CriticalError")>>
           again == <<Signal("EngineTemporaryError")>>
           reset == <<Signal("Reset")>>
           invalid == <<Job("BuildInvalid", a)>>
           started == <<ForkchoiceUpdate(p, eng.safe, eng.finalized), Job("BuildStarted", a)>>
           Continues(evs) == evs \in Seq(Event) /\ \E m \in Range(evs) : Ends(m, a.block)
<1>1. Shape /\ queue # <<>> /\ Running /\ Head(queue).t = "BuildStart"
  BY Heads DEF IInv, OnBuildStart, Next1, StartTypes
<1>2. UNCHANGED <<l1, sched, components, db>>
  BY DEF OnBuildStart
<1>3. /\ \/ Processed(fatal) \/ Processed(again) \/ Processed(reset) \/ Processed(invalid)
         \/ Processed(started)
      /\ el' = el \/ el' = fcu.el
      /\ Call(FALSE) \/ budget' = budget
  BY DEF OnBuildStart
<1>4. a \in Carried /\ p \in Valid
  BY <1>1, Heads, EventCarries DEF BuildTypes, Buildable
<1>5. el \in ValidEngine /\ fcu.el \in ValidEngine
  BY <1>1, <1>4, ForkchoiceType DEF Shape
<1>6. Continues(fatal) /\ Continues(again) /\ Continues(reset)
  BY EndingSignals
<1>7. Continues(invalid)
  BY <1>4, EndingJobs
<1>8. Continues(started)
  <2> DEFINE x == ForkchoiceUpdate(p, eng.safe, eng.finalized)
             j == Job("BuildStarted", a)
  <2>1. x \in Event
    <3>1. p \in ValidRef /\ eng.safe \in ValidRef /\ eng.finalized \in ValidRef
      BY <1>1, <1>4 DEF Running, RunningController, ValidRef
    <3> QED  BY <3>1 DEF ForkchoiceUpdate, HeadsEvent, Event
  <2>2. j \in Event /\ Ends(j, a.block)
    BY <1>4, EndingJobs DEF BuildTypes
  <2> HIDE DEF x, j
  <2>3. <<x, j>> \in Seq(Event) /\ Range(<<x, j>>) = {x, j}
    BY <2>1, <2>2, Ranges
  <2> QED  BY <2>2, <2>3 DEF x, j
<1> HIDE DEF fatal, again, reset, invalid, started
<1>9. PICK evs : Processed(evs) /\ evs \in Seq(Event) /\ \E m \in Range(evs) : Ends(m, a.block)
  BY <1>3, <1>6, <1>7, <1>8
<1>10. Running' /\ QueueOK'
  <2>1. Head(queue).t \in BuildTypes
    BY <1>1 DEF BuildTypes
  <2> QED  BY <1>1, <1>2, <1>9, <2>1, BuildStep DEF components
<1>11. el' \in ValidEngine /\ budget' \in Scenario
  BY <1>1, <1>3, <1>5, CallType DEF Shape
<1>12. Shape'
  BY <1>1, <1>2, <1>10, <1>11 DEF Shape, QueueOK, components
<1> QED  BY <1>10, <1>12 DEF IInv

\* The further steps of a build, each of which emits what goes on with it.
LEMMA NextBuild ==
  ASSUME IInv,
         \/ OnBuildStarted \/ OnBuildSeal \/ OnBuildSealed \/ OnBuildInvalid \/ OnPayloadProcess
  PROVE  IInv'
<1> DEFINE a == Head(queue).attr
<1>1. /\ Shape /\ queue # <<>> /\ Running
      /\ Head(queue).t \in {"BuildStarted", "BuildSeal", "BuildSealed", "PayloadProcess",
                            "BuildInvalid"}
  BY Heads DEF IInv, OnBuildStarted, OnBuildSeal, OnBuildSealed, OnBuildInvalid, OnPayloadProcess,
               Next1, StartTypes
<1>2. a \in Carried /\ (Head(queue).t # "BuildInvalid" => Parent[a.block] \in Valid)
  BY <1>1, Heads, EventCarries DEF BuildTypes, Buildable
<1>3. UNCHANGED <<l1, el, sched, components, db>>
  BY DEF OnBuildStarted, OnBuildSeal, OnBuildSealed, OnBuildInvalid, OnPayloadProcess
<1>4. budget' = budget \/ (\E up \in BOOLEAN : Call(up))
  BY DEF OnBuildStarted, OnBuildSeal, OnBuildSealed, OnBuildInvalid, OnPayloadProcess
<1>5. PICK evs : Processed(evs) /\ evs \in Seq(Event) /\ \E m \in Range(evs) : Ends(m, a.block)
  <2>1. CASE OnBuildStarted
    <3>1. Parent[a.block] \in Valid /\ Processed(<<Job("BuildSeal", a)>>)
      BY <1>2, <2>1 DEF OnBuildStarted, Next1
    <3> QED  BY <1>2, <3>1, EndingJobs DEF BuildTypes
  <2>2. CASE OnBuildSeal
    <3>1. /\ Parent[a.block] \in Valid
          /\ Processed(<<Job("BuildSealed", a)>>) \/ Processed(<<Job("PayloadSealExpired", a)>>)
      BY <1>2, <2>2 DEF OnBuildSeal, Next1
    <3> QED  BY <1>2, <3>1, EndingJobs DEF BuildTypes
  <2>3. CASE OnBuildSealed
    <3>1. Parent[a.block] \in Valid /\ Processed(<<Job("PayloadProcess", a)>>)
      BY <1>2, <2>3 DEF OnBuildSealed, Next1
    <3> QED  BY <1>2, <3>1, EndingJobs DEF BuildTypes
  <2>4. CASE OnBuildInvalid
    <3>1. Processed(<<Job("DepositsOnlyRequest", a)>>)
      BY <2>4 DEF OnBuildInvalid
    <3> QED  BY <1>2, <3>1, EndingJobs
  <2>5. CASE OnPayloadProcess
    <3>1. /\ Parent[a.block] \in Valid
          /\ \/ Processed(<<Signal("EngineTemporaryError")>>)
             \/ Processed(<<Job("DepositsOnlyRequest", a)>>)
             \/ Processed(<<Job("PayloadSuccess", a)>>) /\ a.block \notin Invalid
      BY <1>2, <2>5 DEF OnPayloadProcess, Next1
    <3>2. a.block \notin Invalid => a.block \in Valid
      BY <1>2, <3>1, CarriedAttributes, ValidBlocks
    <3>3. CASE Processed(<<Signal("EngineTemporaryError")>>)
      BY <3>3, EndingSignals
    <3>4. CASE Processed(<<Job("DepositsOnlyRequest", a)>>)
      BY <1>2, <3>4, EndingJobs
    <3>5. CASE Processed(<<Job("PayloadSuccess", a)>>) /\ a.block \notin Invalid
      BY <1>2, <3>2, <3>5, EndingJobs
    <3> QED  BY <3>1, <3>3, <3>4, <3>5
  <2> QED  BY <2>1, <2>2, <2>3, <2>4, <2>5
<1>6. Running' /\ QueueOK'
  <2>1. Head(queue).t \in BuildTypes \cup {"BuildInvalid"}
    BY <1>1 DEF BuildTypes
  <2> QED  BY <1>1, <1>3, <1>5, <2>1, BuildStep DEF components
<1>7. budget' \in Scenario
  BY <1>1, <1>4, CallType DEF Shape
<1>8. Shape'
  BY <1>1, <1>3, <1>6, <1>7 DEF Shape, QueueOK, components
<1> QED  BY <1>6, <1>8 DEF IInv

\* The engine's heads as the node knows them; the next payload may be inserted.
LEMMA NextOnForkchoiceUpdate == ASSUME IInv, OnForkchoiceUpdate PROVE IInv'
<1> DEFINE ev == Head(queue)
           nil == <<>>
           next(kept) == {p \in Lowest(kept) : /\ Parent[p] = ev.unsafe
                                               /\ Number[p] = Number[ev.unsafe] + 1
                                               /\ p # eng.unsafe}
           r(p, up) == InsertUnsafePayload(eng, el, p, up)
<1>1. /\ Shape /\ queue # <<>> /\ Head(queue).t = "ForkchoiceUpdate" /\ FinalizerOK(fin)
      /\ payloads \subseteq L2Block
  BY DEF IInv, OnForkchoiceUpdate, Next1, Shape
<1>2. PICK kept \in DropInapplicable(payloads, ev.unsafe, ev.safe) :
        /\ payloads' = kept
        /\ \/ Processed(nil) /\ UNCHANGED <<eng, el, budget>>
           \/ \E p \in next(kept), up \in BOOLEAN :
                /\ Call(up) /\ eng' = r(p, up).eng /\ el' = r(p, up).el
                /\ Processed(r(p, up).evs)
  BY DEF OnForkchoiceUpdate
<1>3. /\ UNCHANGED <<l1, sched, att, pipe, db>>
      /\ fin' = [fin EXCEPT !.lastFinalizedL2 = ev.finalized]
  BY DEF OnForkchoiceUpdate
<1>4. budget' \in Scenario
  BY <1>1, <1>2, CallType DEF Shape
<1>5. kept \subseteq L2Block
  BY <1>1, <1>2, DroppedPayloads
<1>6. ev.finalized \in L2Ref => FinalizerOK(fin')
  BY <1>1, <1>3, FinalizerKept
<1>7. ASSUME NEW p \in next(kept)
      PROVE  p \in L2Block /\ p # Genesis /\ Parent[p] \in L2Block /\ Parent[p] = ev.unsafe
  <2>1. /\ p \in L2Block /\ Parent[p] = ev.unsafe /\ Number[p] = Number[ev.unsafe] + 1
    BY <1>5 DEF Lowest
  <2>2. Number[Parent[p]] \in Nat
    BY <2>1, Blocks
  <2>3. Number[p] # 0
    BY <2>1, <2>2
  <2> QED  BY <2>1, <2>3, Blocks
<1>8. ASSUME Running PROVE Running' /\ QueueOK' /\ el' \in ValidEngine /\ ev.finalized \in L2Ref
  <2>1. ev.unsafe \in ValidRef /\ ev.finalized \in ValidRef
    BY <1>1, <1>8, Heads, EventCarries
  <2>2. ev.finalized \in L2Ref
    BY <2>1 DEF ValidRef, Valid, L2Ref
  <2>3. CASE Processed(nil) /\ UNCHANGED <<eng, el>>
    <3>1. nil \in Seq(Event)
      OBVIOUS
    <3> HIDE DEF nil
    <3>2. /\ eng' \in RunningController /\ eng'.pending = eng.pending /\ att' = att /\ pipe' = pipe
          /\ el' \in ValidEngine
      BY <1>1, <1>3, <1>8, <2>3 DEF Running, Shape
    <3> QED  BY <1>1, <1>8, <2>2, <2>3, <3>1, <3>2, PlainStep
  <2>4. CASE \E p \in next(kept), up \in BOOLEAN :
               eng' = r(p, up).eng /\ el' = r(p, up).el /\ Processed(r(p, up).evs)
    <3>1. PICK p \in next(kept), up \in BOOLEAN :
                eng' = r(p, up).eng /\ el' = r(p, up).el /\ Processed(r(p, up).evs)
      BY <2>4
    <3>2. p \in L2Block /\ (p \notin Invalid => p \in Valid)
      <4>1. p \in L2Block /\ Parent[p] \in L2Block /\ Parent[p] = ev.unsafe
        BY <1>7
      <4>2. Parent[p] \in Valid
        BY <2>1, <4>1, Blocks DEF ValidRef
      <4> QED  BY <4>1, <4>2, ValidBlocks
    <3> DEFINE evs == InsertUnsafePayload(eng, el, p, up).evs
    <3>3. /\ eng' \in RunningController /\ eng'.pending = eng.pending /\ el' \in ValidEngine
          /\ evs \in Seq(Event) /\ Processed(evs)
      BY <1>1, <1>8, <3>1, <3>2, InsertType DEF Running, Shape
    <3> HIDE DEF evs
    <3> QED  BY <1>1, <1>3, <1>8, <2>2, <3>3, PlainStep
  <2> QED  BY <1>2, <2>3, <2>4
<1>9. ASSUME Starting PROVE Starting' /\ QueueOK' /\ el' \in ValidEngine /\ ev.finalized \in L2Ref
  <2>1. Head(queue) \in StartEvent
    BY <1>1, <1>9, Heads DEF IInv
  <2>2. ev.unsafe = NoBlock /\ ev.finalized = NoBlock /\ Aside(Head(queue))
    BY <1>1, <2>1, StartRounds DEF StartEvent
  <2>3. next(kept) = {}
    <3>1. \A p \in next(kept) : FALSE
      BY <1>7, <2>2, Blocks
    <3> QED  BY <3>1
  <2> HIDE DEF next
  <2>4. Processed(nil) /\ UNCHANGED <<eng, el>>
    BY <1>2, <2>3
  <2>5. nil \in Seq(StartEvent) /\ nil = <<>>
    OBVIOUS
  <2> HIDE DEF nil
  <2>6. fin'.data = <<>> /\ UNCHANGED <<eng, att, pipe>> /\ el' \in ValidEngine
    BY <1>1, <1>3, <1>9, <2>4 DEF Starting, FinalizerOK, Shape
  <2>7. Starting' /\ QueueOK'
    BY <1>1, <1>9, <2>2, <2>4, <2>5, <2>6, StartingStep
  <2> QED  BY <2>2, <2>6, <2>7 DEF L2Ref
<1>10. (Running' \/ Starting') /\ QueueOK' /\ el' \in ValidEngine /\ ev.finalized \in L2Ref
  BY <1>8, <1>9 DEF IInv
<1>11. Shape'
  BY <1>1, <1>2, <1>3, <1>4, <1>5, <1>6, <1>10 DEF Shape, QueueOK
<1> QED  BY <1>10, <1>11 DEF IInv

LEMMA NextOnPayloadInvalid == ASSUME IInv, OnPayloadInvalid PROVE IInv'
<1> DEFINE nil == <<>>
<1>1. Shape /\ queue # <<>> /\ Running /\ Head(queue).t = "PayloadInvalid"
  BY Heads DEF IInv, OnPayloadInvalid, Next1, StartTypes
<1>2. /\ Processed(nil) /\ payloads' \subseteq payloads
      /\ UNCHANGED <<l1, el, sched, eng, att, pipe, fin, budget, db>>
  BY DEF OnPayloadInvalid
<1>3. nil \in Seq(Event)
  OBVIOUS
<1> HIDE DEF nil
<1>4. eng' \in RunningController /\ eng'.pending = eng.pending /\ att' = att /\ pipe' = pipe
  BY <1>1, <1>2 DEF Running
<1>5. Running' /\ QueueOK'
  BY <1>1, <1>2, <1>3, <1>4, PlainStep
<1>6. Shape'
  BY <1>1, <1>2, <1>5 DEF Shape, QueueOK
<1> QED  BY <1>5, <1>6 DEF IInv

LEMMA NextOnTryFinalize == ASSUME IInv, OnTryFinalize PROVE IInv'
<1> DEFINE nil == <<>>
           again == <<Signal("L1TemporaryError")>>
           reset == <<Signal("Reset")>>
           r(up) == PromoteFinalized(eng, el, Pick(fin).l2, up)
<1>1. Shape /\ queue # <<>> /\ Head(queue).t = "TryFinalize" /\ FinalizerOK(fin)
  BY DEF IInv, OnTryFinalize, Next1, Shape
<1>2. UNCHANGED <<l1, sched, payloads, att, pipe, fin, db>>
  BY DEF OnTryFinalize
<1>3. \/ Finalizable(fin) = {} /\ Processed(nil) /\ UNCHANGED <<el, eng, budget>>
      \/ /\ Processed(again) \/ Processed(reset)
         /\ Call(FALSE) \/ budget' = budget
         /\ Finalizable(fin) # {} /\ UNCHANGED <<el, eng>>
      \/ /\ Finalizable(fin) # {}
         /\ \E up \in BOOLEAN :
              Call(up) /\ eng' = r(up).eng /\ el' = r(up).el /\ Processed(r(up).evs)
  BY DEF OnTryFinalize
<1>4. budget' \in Scenario
  BY <1>1, <1>3, CallType DEF Shape
<1>5. ASSUME Running PROVE Running' /\ QueueOK' /\ el' \in ValidEngine
  <2>1. nil \in Seq(Event) /\ again \in Seq(Event) /\ reset \in Seq(Event)
    BY Signals
  <2> HIDE DEF nil, again, reset
  <2>2. CASE (Processed(nil) \/ Processed(again) \/ Processed(reset)) /\ UNCHANGED <<el, eng>>
    <3>1. /\ eng' \in RunningController /\ eng'.pending = eng.pending /\ att' = att /\ pipe' = pipe
          /\ el' \in ValidEngine
      BY <1>1, <1>2, <1>5, <2>2 DEF Running, Shape
    <3> QED  BY <1>1, <1>5, <2>1, <2>2, <3>1, PlainStep
  <2>3. CASE /\ Finalizable(fin) # {}
             /\ \E up \in BOOLEAN : eng' = r(up).eng /\ el' = r(up).el /\ Processed(r(up).evs)
    <3>1. PICK up \in BOOLEAN : eng' = r(up).eng /\ el' = r(up).el /\ Processed(r(up).evs)
      BY <2>3
    <3>2. Pick(fin).l2 \in Valid
      BY <1>1, <2>3, PickType
    <3> DEFINE evs == PromoteFinalized(eng, el, Pick(fin).l2, up).evs
    <3>3. /\ eng' \in RunningController /\ eng'.pending = eng.pending /\ el' \in ValidEngine
          /\ evs \in Seq(Event) /\ Processed(evs)
      BY <1>1, <1>5, <3>1, <3>2, PromoteFinalizedType DEF Running, Shape
    <3> HIDE DEF evs
    <3> QED  BY <1>1, <1>2, <1>5, <3>3, PlainStep
  <2> QED  BY <1>3, <2>2, <2>3
<1>6. ASSUME Starting PROVE Starting' /\ QueueOK' /\ el' \in ValidEngine
  <2>1. Finalizable(fin) = {}
    <3>1. Len(fin.data) = 0
      BY <1>6 DEF Starting
    <3> QED  BY <3>1 DEF Finalizable
  <2>2. Aside(Head(queue))
    BY <1>1 DEF Aside
  <2>3. nil \in Seq(StartEvent) /\ nil = <<>>
    OBVIOUS
  <2> HIDE DEF nil
  <2>4. Processed(nil) /\ UNCHANGED <<el, eng>>
    BY <1>3, <2>1
  <2>5. fin'.data = <<>> /\ UNCHANGED <<eng, att, pipe>> /\ el' \in ValidEngine
    BY <1>1, <1>2, <1>6, <2>4 DEF Starting, Shape
  <2> QED  BY <1>1, <1>6, <2>2, <2>3, <2>4, <2>5, StartingStep
<1>7. (Running' \/ Starting') /\ QueueOK' /\ el' \in ValidEngine
  BY <1>5, <1>6 DEF IInv
<1>8. Shape'
  BY <1>1, <1>2, <1>4, <1>7 DEF Shape, QueueOK
<1> QED  BY <1>7, <1>8 DEF IInv

\* The event loop attempts a step, a peer sends a block, L1 reports finality: an event is
\* added to whatever waits.
LEMMA NextEmitted ==
  ASSUME IInv, AttemptStep \/ ReceivePayload \/ OnL1Finalized PROVE IInv'
<1>1. Shape /\ QueueOK
  BY DEF IInv, Shape, QueueOK
<1>2. PICK x : /\ Emitted(<<x>>) /\ UNCHANGED <<eng, att, pipe, el, db>>
               /\ x \in {Signal("Step"), RequestForkchoiceUpdate(eng), Signal("TryFinalize")}
               /\ x = Signal("Step") => ~draining
  <2>1. CASE AttemptStep
    BY <2>1 DEF AttemptStep, components
  <2>2. CASE ReceivePayload
    <3>1. RequestForkchoiceUpdate(eng) # Signal("Step")
      <4>1. RequestForkchoiceUpdate(eng).t = "ForkchoiceUpdate" /\ Signal("Step").t = "Step"
        BY DEF RequestForkchoiceUpdate, ForkchoiceUpdate, Signal
      <4> QED  BY <4>1
    <3> QED  BY <2>2, <3>1 DEF ReceivePayload
  <2>3. CASE OnL1Finalized
    <3>1. Signal("TryFinalize") # Signal("Step")
      <4>1. Signal("TryFinalize").t = "TryFinalize" /\ Signal("Step").t = "Step"
        BY DEF Signal
      <4> QED  BY <4>1
    <3> QED  BY <2>3, <3>1 DEF OnL1Finalized
  <2> QED  BY <2>1, <2>2, <2>3
<1>3. /\ l1' \in [head : L1Block, finalized : L1Block] /\ sched' \in Scheduler
      /\ payloads' \subseteq L2Block /\ FinalizerOK(fin') /\ budget' \in Scenario
      /\ fin'.data = fin.data
  <2>1. sched \in Scheduler
    BY <1>1 DEF Shape, Scheduler
  <2>2. CASE AttemptStep
    <3>1. sched' \in Scheduler
      BY <2>1, <2>2 DEF AttemptStep, Scheduler
    <3> QED  BY <1>1, <2>2, <3>1 DEF AttemptStep, components, Shape
  <2>3. CASE ReceivePayload
    <3>1. PICK p \in budget.gossip : /\ payloads' = payloads \cup {p}
                                     /\ budget' = [budget EXCEPT !.gossip = @ \ {p}]
      BY <2>3 DEF ReceivePayload
    <3>2. p \in L2Block /\ budget' \in Scenario
      BY <1>1, <3>1 DEF Shape, Scenario
    <3> QED  BY <1>1, <2>1, <2>3, <3>1, <3>2 DEF ReceivePayload, Shape
  <2>4. CASE OnL1Finalized
    <3>1. PICK b \in budget.finalizing : /\ l1' = [l1 EXCEPT !.finalized = b]
                                         /\ fin' = OnL1FinalizedSignal(fin, b)
      BY <2>4 DEF OnL1Finalized
    <3>2. b \in L1Block
      BY <1>1, <3>1 DEF Shape, Scenario
    <3>3. FinalizerOK(fin') /\ l1' \in [head : L1Block, finalized : L1Block]
      BY <1>1, <3>1, <3>2, FinalizerKept DEF Shape
    <3>4. fin'.data = fin.data
      BY <1>1, <3>1 DEF OnL1FinalizedSignal, Shape, FinalizerOK
    <3>5. sched' \in Scheduler
      BY <2>1, <2>4, SchedulerType DEF OnL1Finalized
    <3> QED  BY <1>1, <2>4, <3>3, <3>4, <3>5 DEF OnL1Finalized, Shape
  <2> QED  BY <2>2, <2>3, <2>4
<1>4. ASSUME Running PROVE Running' /\ QueueOK'
  <2>1. x \in Event
    BY <1>2, <1>4, Signals, HeadEvents DEF Running
  <2> DEFINE evs == <<x>>
  <2>2. evs \in Seq(Event) /\ Emitted(evs) /\ Len(evs) = 1
    BY <1>2, <2>1
  <2> HIDE DEF evs
  <2>3. Running'
    BY <1>2, <1>4, <2>2, EmittedRunning
  <2>4. QueueOK'
    <3>1. queue \in Seq(Event)
      BY <1>4 DEF Running
    <3>2. queue \o evs # <<>>
      BY <2>2, <3>1
    <3> QED  BY <1>1, <2>2, <3>2 DEF Emitted, QueueOK
  <2> QED  BY <2>3, <2>4
<1>5. ASSUME Starting PROVE Starting' /\ QueueOK'
  <2>1. RequestForkchoiceUpdate(eng) = ForkchoiceUpdate(NoBlock, NoBlock, NoBlock)
    BY <1>5 DEF Starting, NewController, RequestForkchoiceUpdate
  <2>2. x \in StartEvent /\ (Aside(x) \/ (x.t = "Step" /\ ~draining))
    <3>1. Signal("Step") \in StartEvent /\ Signal("Step").t = "Step"
      BY DEF Signal, StartEvent
    <3>2. Signal("TryFinalize") \in StartEvent /\ Signal("TryFinalize").t = "TryFinalize"
      BY DEF Signal, StartEvent
    <3>3. /\ ForkchoiceUpdate(NoBlock, NoBlock, NoBlock) \in StartEvent
          /\ ForkchoiceUpdate(NoBlock, NoBlock, NoBlock).t = "ForkchoiceUpdate"
      BY DEF ForkchoiceUpdate, StartEvent
    <3>4. \/ x = Signal("Step") /\ ~draining
          \/ x = Signal("TryFinalize")
          \/ x = ForkchoiceUpdate(NoBlock, NoBlock, NoBlock)
      BY <1>2, <2>1
    <3>5. CASE x = Signal("Step") /\ ~draining
      BY <3>1, <3>5 DEF Aside
    <3>6. CASE x = Signal("TryFinalize")
      BY <3>2, <3>6 DEF Aside
    <3>7. CASE x = ForkchoiceUpdate(NoBlock, NoBlock, NoBlock)
      BY <3>3, <3>7 DEF Aside
    <3> QED  BY <3>4, <3>5, <3>6, <3>7
  <2>3. fin'.data = <<>>
    BY <1>3, <1>5 DEF Starting
  <2> QED  BY <1>1, <1>2, <1>5, <2>2, <2>3, StartingEmits
<1>6. (Running' \/ Starting') /\ QueueOK'
  BY <1>4, <1>5 DEF IInv
<1>7. Shape'
  BY <1>1, <1>2, <1>3, <1>6 DEF Shape, QueueOK, Scheduler
<1> QED  BY <1>6, <1>7 DEF IInv

\* A node that was just started.
LEMMA FreshNode ==
  /\ NewScheduler \in Scheduler /\ NewHandler \in Handler /\ PipelineOK(NewPipeline)
  /\ FinalizerOK(NewFinalizer) /\ NewFinalizer.data = <<>>
  /\ InRounds(<<>>)
<1>1. NewScheduler \in Scheduler /\ NewHandler \in Handler
  BY DEF NewScheduler, Scheduler, NewHandler, Handler
<1>2. PipelineOK(NewPipeline)
  <2>1. NewPipeline \in Pipeline
    <3>1. 0 \in 0 .. Stages /\ NoBlock \in L1Ref /\ NoBlock \in L2Ref
      BY DEF Stages, L1Ref, L2Ref
    <3> QED  BY <3>1 DEF NewPipeline, Pipeline
  <2> QED  BY <2>1 DEF PipelineOK, NewPipeline, Stages
<1>3. FinalizerOK(NewFinalizer) /\ NewFinalizer.data = <<>>
  <2> DEFINE nil == <<>>
  <2>1. nil \in Seq(ValidData) /\ Len(nil) <= FinalityLookback
    BY FinalityAssumption
  <2> HIDE DEF nil
  <2>2. NewFinalizer = [ finalizedL1 |-> NoBlock, lastFinalizedL2 |-> NoBlock, triedAt |-> 0,
                         data |-> nil ]
    BY DEF NewFinalizer, nil
  <2>3. NoBlock \in L1Ref /\ NoBlock \in L2Ref
    BY DEF L1Ref, L2Ref
  <2>4. FinalizerOK(NewFinalizer) /\ NewFinalizer.data = nil
    BY <2>1, <2>2, <2>3 DEF FinalizerOK
  <2> QED  BY <2>4 DEF nil
<1>4. InRounds(<<>>)
  BY DEF InRounds
<1> QED  BY <1>1, <1>2, <1>3, <1>4

\* The steps of the environment that touch no event: L1 changes, its head is signalled,
\* or an operator resets the pipeline.
LEMMA NextAround ==
  ASSUME IInv, OnL1Unsafe \/ L1Advance \/ L1Reorg \/ ManualReset PROVE IInv'
<1>1. Shape
  BY DEF IInv
<1>2. UNCHANGED <<el, queue, draining, eng, payloads, att, fin, db>>
  BY DEF OnL1Unsafe, L1Advance, L1Reorg, ManualReset, components
<1>3. /\ l1' \in [head : L1Block, finalized : L1Block] /\ sched' \in Scheduler
      /\ budget' \in Scenario
  <2>1. sched \in Scheduler
    BY <1>1 DEF Shape, Scheduler
  <2>2. CASE OnL1Unsafe
    BY <1>1, <2>1, <2>2, SchedulerType DEF OnL1Unsafe, Shape
  <2>3. CASE L1Advance
    BY <1>1, <2>1, <2>3 DEF L1Advance, Shape
  <2>4. CASE L1Reorg
    <3>1. budget' \in Scenario
      BY <1>1, <2>4 DEF L1Reorg, Shape, Scenario
    <3> QED  BY <1>1, <2>1, <2>4, <3>1 DEF L1Reorg, Shape
  <2>5. CASE ManualReset
    <3>1. budget' \in Scenario
      BY <1>1, <2>5 DEF ManualReset, Shape, Scenario
    <3> QED  BY <1>1, <2>1, <2>5, <3>1 DEF ManualReset, Shape
  <2> QED  BY <2>2, <2>3, <2>4, <2>5
<1>4. /\ PipelineOK(pipe') /\ pipe'.unconfirmed = pipe.unconfirmed
      /\ pipe = NewPipeline => pipe' = NewPipeline
  <2>1. PipelineOK(pipe)
    BY <1>1 DEF Shape
  <2>2. pipe' = pipe \/ pipe' = ResetPipeline(pipe)
    BY DEF OnL1Unsafe, L1Advance, L1Reorg, ManualReset, components
  <2>3. ResetPipeline(NewPipeline) = NewPipeline
    <3> DEFINE p == NewPipeline
    <3>1. PipelineOK(p)
      BY FreshNode
    <3>2. /\ p = [resetting |-> p.resetting, engineIsReset |-> p.engineIsReset,
                  origin |-> p.origin, resetL2Safe |-> p.resetL2Safe, traversal |-> p.traversal,
                  batch |-> p.batch, last |-> p.last, unconfirmed |-> p.unconfirmed]
          /\ p.resetting = 0 /\ p.engineIsReset = FALSE /\ p.resetL2Safe = NoBlock
      BY <3>1, PipelineFields DEF NewPipeline
    <3>3. ResetPipeline(p)
            = [resetting |-> 0, engineIsReset |-> FALSE, origin |-> p.origin,
               resetL2Safe |-> NoBlock, traversal |-> p.traversal, batch |-> p.batch,
               last |-> p.last, unconfirmed |-> p.unconfirmed]
      BY <3>2 DEF ResetPipeline
    <3> QED  BY <3>2, <3>3
  <2> QED  BY <2>1, <2>2, <2>3, PipelineResetType
<1>5. Shape'
  BY <1>1, <1>2, <1>3, <1>4 DEF Shape, Scheduler
<1>6. Running => Running'
  BY <1>2, <1>4 DEF Running, BuildEnds, ConfirmationComes
<1>7. Starting => Starting'
  BY <1>2, <1>4 DEF Starting
<1> QED  BY <1>5, <1>6, <1>7 DEF IInv

LEMMA NextRestart == ASSUME IInv, Restart PROVE IInv'
<1>1. Shape
  BY DEF IInv
<1>2. /\ queue' = <<>> /\ draining' = FALSE /\ sched' = NewScheduler
      /\ eng' = NewController /\ payloads' = {} /\ att' = NewHandler
      /\ pipe' = NewPipeline /\ fin' = NewFinalizer /\ UNCHANGED <<l1, el, db>>
  BY DEF Restart
<1>3. budget' \in Scenario
  BY <1>1 DEF Restart, Shape, Scenario
<1>4. Shape'
  BY <1>1, <1>2, <1>3, FreshNode DEF Shape, Scheduler
<1>5. queue' \in Seq(StartEvent) /\ Range(queue') = {}
  BY <1>2, Ranges
<1>6. Starting'
  BY <1>2, <1>5, FreshNode DEF Starting
<1> QED  BY <1>4, <1>6 DEF IInv

LEMMA InitIInv == Init => IInv
<1> SUFFICES ASSUME Init PROVE IInv
  OBVIOUS
<1>1. Genesis \in Valid /\ L1Genesis \in L1Block
  BY ValidBlocks, ChainsAssumption
<1>2. l1 \in [head : L1Block, finalized : L1Block] /\ el \in ValidEngine
  BY <1>1 DEF Init, ValidEngine
<1>3. DBTyped(db)
  BY DEF Init, NewSafeDB, DBTyped
<1>4. budget \in Scenario
  BY OpNodeAssumption DEF Init
<1>5. Shape
  BY <1>2, <1>3, <1>4, FreshNode DEF Init, Shape, Scheduler
<1>6. queue \in Seq(StartEvent) /\ Range(queue) = {}
  BY Ranges DEF Init
<1>7. Starting
  BY <1>6, FreshNode DEF Init, Starting
<1> QED  BY <1>5, <1>7 DEF IInv

LEMMA NextIInv == ASSUME IInv, [Next]_vars PROVE IInv'
<1>1. CASE Handle
  BY <1>1, NextSyncStep, NextOnResetEvent, NextScheduling, NextOnDeriverIdle, NextOnSafeDerived,
     NextOnEngineResetConfirmed, NextOnPendingSafeUpdate, NextOnDerivedAttributes,
     NextOnPayloadSealExpired, NextOnPipelineStep, NextConfirmations, NextOnDepositsOnlyRequest,
     NextOnResetEngineRequest, NextOnUnsafeUpdate, NextOnLocalSafeUpdate, NextOnBuildStart,
     NextBuild, NextOnPayloadSuccess, NextOnForkchoiceUpdate, NextOnPayloadInvalid,
     NextOnTryFinalize DEF Handle
<1>2. CASE AttemptStep \/ ReceivePayload \/ OnL1Finalized
  BY <1>2, NextEmitted
<1>3. CASE OnL1Unsafe \/ L1Advance \/ L1Reorg \/ ManualReset
  BY <1>3, NextAround
<1>4. CASE Restart
  BY <1>4, NextRestart
<1>5. CASE UNCHANGED vars
  <2>1. Shape => Shape'
    BY <1>5 DEF vars, Shape
  <2>2. Running => Running'
    BY <1>5 DEF vars, Running, BuildEnds, ConfirmationComes
  <2>3. Starting => Starting'
    BY <1>5 DEF vars, Starting
  <2> QED  BY <2>1, <2>2, <2>3 DEF IInv
<1> QED  BY <1>1, <1>2, <1>3, <1>4, <1>5 DEF Next

\* The node's invariant: either the engine was not reset yet, and only what asks for that
\* reset waits; or every event carries blocks that the engine accepts and that L1 carries,
\* and every wait is for an event on its way.
THEOREM NodeInvariant == Spec => []IInv
<1>1. IInv /\ [Next]_vars => IInv'
  BY NextIInv
<1> QED  BY <1>1, InitIInv, PTL DEF Spec
-----------------------------------------------------------------------------
(* The safe head database: its answers *)

\* Numbers are natural, and the keys are numbers.
LEMMA Numbers ==
  /\ \A b \in L1Block : L1Number[b] \in Nat /\ L1Number[b] \in Heights
  /\ \A b \in L2Block : Number[b] \in Nat /\ L1Origin[b] \in L1Block
  /\ Heights \subseteq Nat
BY ChainsAssumption DEF Heights

\* The answer for a height is the entry with the greatest key up to it.
LEMMA AnswerIsLastEntry ==
  ASSUME NEW d, DOMAIN d \subseteq Heights, NEW n \in Heights,
         NEW k \in DOMAIN d, k <= n, \A m \in DOMAIN d : m <= n => m <= k
  PROVE  SafeHeadAtL1(d, n) = d[k]
<1>0. n \in Nat /\ \A m \in DOMAIN d : m \in Nat
  BY Numbers
<1>1. k \in KeysBelow(d, n + 1)
  BY <1>0 DEF KeysBelow
<1>2. \A m \in KeysBelow(d, n + 1) : m <= k
  BY <1>0 DEF KeysBelow
<1>3. KeysBelow(d, n + 1) \in SUBSET Nat
  BY <1>0 DEF KeysBelow
<1>4. /\ Last(KeysBelow(d, n + 1)) \in KeysBelow(d, n + 1)
      /\ k <= Last(KeysBelow(d, n + 1))
  BY <1>1, <1>2, <1>3, LastIsGreatest
<1>5. Last(KeysBelow(d, n + 1)) = k
  BY <1>2, <1>3, <1>4, <1>1
<1> QED
  BY <1>1, <1>5 DEF SafeHeadAtL1

LEMMA AnswerExists ==
  ASSUME NEW d, DOMAIN d \subseteq Heights, NEW n \in Heights
  PROVE  \/ SafeHeadAtL1(d, n) = NotFound /\ \A m \in DOMAIN d : ~(m <= n)
         \/ \E k \in DOMAIN d : /\ SafeHeadAtL1(d, n) = d[k]
                                /\ k <= n
                                /\ \A m \in DOMAIN d : m <= n => m <= k
<1>0. n \in Nat /\ \A m \in DOMAIN d : m \in Nat
  BY Numbers
<1>3. KeysBelow(d, n + 1) \in SUBSET Nat /\ \A k \in KeysBelow(d, n + 1) : k <= n
  BY <1>0 DEF KeysBelow
<1>4. \A m \in DOMAIN d : m <= n <=> m \in KeysBelow(d, n + 1)
  BY <1>0 DEF KeysBelow
<1>1. CASE KeysBelow(d, n + 1) = {}
  BY <1>1, <1>4 DEF SafeHeadAtL1
<1>2. CASE KeysBelow(d, n + 1) # {}
  <2>1. /\ Last(KeysBelow(d, n + 1)) \in KeysBelow(d, n + 1)
        /\ \A j \in KeysBelow(d, n + 1) : j <= Last(KeysBelow(d, n + 1))
    BY <1>2, <1>3, Numbers, LastIsGreatest
  <2>2. Last(KeysBelow(d, n + 1)) \in DOMAIN d
    BY <2>1 DEF KeysBelow
  <2> QED
    BY <1>2, <1>3, <1>4, <2>1, <2>2 DEF SafeHeadAtL1
<1> QED
  BY <1>1, <1>2

\* Two databases with the same entries up to n give the same answer for n.
LEMMA AnswerDependsBelow ==
  ASSUME NEW d, NEW e, NEW n \in Heights,
         DOMAIN d \subseteq Heights, DOMAIN e \subseteq Heights,
         \A m \in Heights : m <= n =>
           (m \in DOMAIN d <=> m \in DOMAIN e) /\ (m \in DOMAIN d => d[m] = e[m])
  PROVE  SafeHeadAtL1(d, n) = SafeHeadAtL1(e, n)
<1>1. CASE SafeHeadAtL1(e, n) = NotFound /\ \A m \in DOMAIN e : ~(m <= n)
  <2>1. \A m \in DOMAIN d : ~(m <= n)
    BY <1>1
  <2> QED
    BY <1>1, <2>1, AnswerExists
<1>2. CASE \E k \in DOMAIN e : /\ SafeHeadAtL1(e, n) = e[k]
                               /\ k <= n
                               /\ \A m \in DOMAIN e : m <= n => m <= k
  <2>1. PICK k \in DOMAIN e : /\ SafeHeadAtL1(e, n) = e[k]
                              /\ k <= n
                              /\ \A m \in DOMAIN e : m <= n => m <= k
    BY <1>2
  <2>2. k \in DOMAIN d /\ d[k] = e[k] /\ \A m \in DOMAIN d : m <= n => m <= k
    BY <2>1
  <2> QED
    BY <2>1, <2>2, AnswerIsLastEntry
<1> QED
  BY <1>1, <1>2, AnswerExists

-----------------------------------------------------------------------------
(* The safe head database: its entries *)

DBInv == DBTypeOK /\ EntriesAscend

LEMMA InitDBInv == DBInit => DBInv
BY DEF DBInit, DBInv, DBTypeOK, EntriesAscend, NewSafeDB

\* SafeHeadUpdated writes one entry, above all others.
LEMMA UpdateDBInv ==
  ASSUME DBInv, NEW b \in L2Block, NEW src \in L1Block,
         UpdateInOrder(db, b, src), db' = SafeHeadUpdated(db, b, src)
  PROVE  DBInv'
<1> DEFINE n == L1Number[src]
<1>1. /\ DOMAIN db' = DOMAIN db \cup {n}
      /\ db'[n] = [l1 |-> src, l2 |-> b]
      /\ \A m \in DOMAIN db : m # n => db'[m] = db[m]
  BY DEF SafeHeadUpdated
<1>2. DBTypeOK'
  BY <1>1, Numbers DEF DBInv, DBTypeOK, Entry
<1>3. ASSUME NEW k \in DOMAIN db', NEW m \in DOMAIN db', k <= m
      PROVE  Number[db'[k].l2] <= Number[db'[m].l2]
  <2>1. CASE m = n
    <3>1. CASE k = n
      BY <1>1, <2>1, <3>1, Numbers
    <3>2. CASE k # n
      BY <1>1, <2>1, <3>2 DEF UpdateInOrder
    <3> QED
      BY <3>1, <3>2
  <2>2. CASE m # n
    <3>1. m \in DOMAIN db /\ m <= n /\ m \in Nat /\ k \in Nat /\ n \in Nat
      BY <1>1, <2>2, Numbers DEF UpdateInOrder, DBInv, DBTypeOK
    <3>2. k # n /\ k \in DOMAIN db
      BY <1>1, <1>3, <2>2, <3>1
    <3> QED
      BY <1>1, <1>3, <2>2, <3>1, <3>2 DEF DBInv, EntriesAscend
  <2> QED
    BY <2>1, <2>2
<1> QED
  BY <1>2, <1>3 DEF DBInv, EntriesAscend

\* The database d keeps what db has below n, and s at n unless nothing is below.
CutAt(n, s, d) ==
  /\ \A m \in DOMAIN db : m < n => Number[db[m].l2] <= Number[s]
  /\ \/ KeysBelow(db, n) = {} /\ DOMAIN d = {}
     \/ /\ KeysBelow(db, n) # {} /\ DOMAIN d = KeysBelow(db, n) \cup {n}
        /\ d[n] = [l1 |-> db[n].l1, l2 |-> s]
  /\ \A m \in DOMAIN d : m < n => d[m] = db[m]

\* What SafeHeadReset does when it finds an entry: n is the first that made s safe.
LEMMA ResetCut ==
  ASSUME DBInv, NEW s \in L2Block, ResetInOrder(db, s), MadeSafe(db, s) # {}
  PROVE  \E n \in DOMAIN db : CutAt(n, s, SafeHeadReset(db, s))
<1> DEFINE d == SafeHeadReset(db, s)
<1> DEFINE n == First(MadeSafe(db, s))
<1>1. n \in MadeSafe(db, s) /\ \A m \in MadeSafe(db, s) : n <= m
  BY Numbers, FirstIsLeast DEF MadeSafe, KeysFrom, DBInv, DBTypeOK
<1>2. n \in DOMAIN db /\ n \in Nat
  BY <1>1, Numbers DEF MadeSafe, KeysFrom, DBInv, DBTypeOK
<1>3. ASSUME NEW m \in DOMAIN db, m < n
      PROVE  Number[db[m].l2] <= Number[s]
  <2>1. m \in Nat /\ L1Number[L1Origin[s]] \in Nat /\ Number[db[m].l2] \in Nat
        /\ Number[s] \in Nat
    BY Numbers DEF DBInv, DBTypeOK, Entry
  <2>2. CASE m < L1Number[L1Origin[s]]
    BY <2>2 DEF ResetInOrder, KeysBelow
  <2>3. CASE ~(m < L1Number[L1Origin[s]])
    <3>1. m \notin MadeSafe(db, s)
      BY <1>1, <1>2, <1>3, <2>1
    <3> QED
      BY <2>1, <2>3, <3>1 DEF MadeSafe, KeysFrom
  <2> QED
    BY <2>2, <2>3
<1>4. /\ KeysBelow(db, n) = {} => DOMAIN d = {}
      /\ KeysBelow(db, n) # {} =>
           /\ DOMAIN d = KeysBelow(db, n) \cup {n}
           /\ d[n] = [l1 |-> db[n].l1, l2 |-> s]
      /\ \A m \in DOMAIN d : m # n => d[m] = db[m]
  BY DEF SafeHeadReset
<1>5. \A m \in DOMAIN d : m < n => m # n
  BY <1>2
<1> HIDE DEF n, d
<1>6. CutAt(n, s, d)
  BY <1>2, <1>3, <1>4, <1>5 DEF CutAt
<1> QED
  BY <1>2, <1>6 DEF d

LEMMA ResetDBInv ==
  ASSUME DBInv, NEW s \in L2Block, ResetInOrder(db, s), db' = SafeHeadReset(db, s)
  PROVE  DBInv'
<1>1. CASE MadeSafe(db, s) = {}
  BY <1>1 DEF SafeHeadReset, DBInv, DBTypeOK, EntriesAscend
<1>2. CASE MadeSafe(db, s) # {}
  <2>0. PICK n \in DOMAIN db : CutAt(n, s, SafeHeadReset(db, s))
    BY <1>2, ResetCut
  <2>1. /\ \A m \in DOMAIN db : m < n => Number[db[m].l2] <= Number[s]
        /\ \/ KeysBelow(db, n) = {} /\ DOMAIN db' = {}
           \/ /\ KeysBelow(db, n) # {} /\ DOMAIN db' = KeysBelow(db, n) \cup {n}
              /\ db'[n] = [l1 |-> db[n].l1, l2 |-> s]
        /\ \A m \in DOMAIN db' : m < n => db'[m] = db[m]
    BY <2>0 DEF CutAt
  <2>2. n \in Nat /\ \A m \in DOMAIN db' : m \in DOMAIN db /\ m \in Nat /\ (m = n \/ m < n)
    BY <2>1, Numbers DEF KeysBelow, DBInv, DBTypeOK
  <2>3. \A m \in DOMAIN db' : m = n => db'[m] = [l1 |-> db[n].l1, l2 |-> s]
    BY <2>1
  <2>4. DBTypeOK'
    BY <2>1, <2>2, <2>3, Numbers DEF DBInv, DBTypeOK, Entry
  <2>5. ASSUME NEW k \in DOMAIN db', NEW m \in DOMAIN db', k <= m
        PROVE  Number[db'[k].l2] <= Number[db'[m].l2]
    <3>1. CASE k = n
      <4>1. m = n
        BY <2>2, <2>5, <3>1
      <4> QED
        BY <2>3, <3>1, <4>1, Numbers
    <3>2. CASE k < n /\ m = n
      <4>1. db'[k] = db[k] /\ db'[m].l2 = s
        BY <2>1, <2>3, <3>2
      <4> QED
        BY <2>1, <2>2, <3>2, <4>1
    <3>3. CASE k < n /\ m < n
      BY <2>1, <2>2, <2>5, <3>3 DEF DBInv, EntriesAscend
    <3> QED
      BY <2>2, <3>1, <3>2, <3>3
  <2> QED
    BY <2>4, <2>5 DEF DBInv, EntriesAscend
<1> QED
  BY <1>1, <1>2

LEMMA NextDBInv == DBInv /\ [DBNext]_db => DBInv'
<1> SUFFICES ASSUME DBInv, [DBNext]_db PROVE DBInv'
  OBVIOUS
<1>1. CASE DBUpdate
  BY <1>1, UpdateDBInv DEF DBUpdate
<1>2. CASE DBReset
  BY <1>2, ResetDBInv DEF DBReset
<1>3. CASE ELSyncStarted
  BY <1>3 DEF ELSyncStarted, SafeHeadClear, NewSafeDB, DBInv, DBTypeOK, EntriesAscend
<1>4. CASE UNCHANGED db
  BY <1>4 DEF DBInv, DBTypeOK, EntriesAscend
<1> QED
  BY <1>1, <1>2, <1>3, <1>4 DEF DBNext

LEMMA SpecDBInv == DBSpec => []DBInv
BY InitDBInv, NextDBInv, PTL DEF DBSpec

\* Every entry stays under the number of its own L1 block, through updates, resets
\* and the clearing at the start of EL sync.
THEOREM TypeCorrect == DBSpec => []DBTypeOK
<1>1. DBInv => DBTypeOK
  BY DEF DBInv
<1> QED
  BY <1>1, SpecDBInv, PTL

\* A later L1 block never has a lower safe head, whatever resets cut off.
THEOREM Ascending == DBSpec => []EntriesAscend
<1>1. DBInv => EntriesAscend
  BY DEF DBInv
<1> QED
  BY <1>1, SpecDBInv, PTL

-----------------------------------------------------------------------------
(* The safe head database: what it implements *)

Answers == [n \in Heights |-> SafeHeadAtL1(db, n)]

\* An update, seen through SafeHeadAtL1, answers every height from its own on.
LEMMA UpdateLearns ==
  ASSUME DBInv, DBInv', NEW b \in L2Block, NEW src \in L1Block,
         UpdateInOrder(db, b, src), db' = SafeHeadUpdated(db, b, src)
  PROVE  History!Learn(L1Number[src], [l1 |-> src, l2 |-> b])
<1> DEFINE n == L1Number[src]
           a == [l1 |-> src, l2 |-> b]
<1>1. /\ DOMAIN db' = DOMAIN db \cup {n}
      /\ db'[n] = a
      /\ \A m \in DOMAIN db : m # n => db'[m] = db[m]
  BY DEF SafeHeadUpdated
<1>2. n \in Heights /\ n \in Nat /\ DOMAIN db \subseteq Heights /\ DOMAIN db' \subseteq Heights
  BY Numbers DEF DBInv, DBTypeOK
<1>3. ASSUME NEW m \in Heights, m < n PROVE SafeHeadAtL1(db', m) = SafeHeadAtL1(db, m)
  <2>1. \A k \in Heights : k <= m => k # n
    BY <1>2, <1>3, Numbers
  <2>2. \A k \in Heights : k <= m =>
          (k \in DOMAIN db' <=> k \in DOMAIN db) /\ (k \in DOMAIN db' => db'[k] = db[k])
    BY <1>1, <2>1
  <2> QED
    BY <1>2, <2>2, AnswerDependsBelow
<1>4. ASSUME NEW m \in Heights, ~(m < n) PROVE SafeHeadAtL1(db', m) = a
  <2>1. n <= m /\ \A k \in DOMAIN db' : k <= n
    BY <1>1, <1>2, <1>4, Numbers DEF UpdateInOrder
  <2> QED
    BY <1>1, <1>2, <2>1, AnswerIsLastEntry
<1>5. ASSUME NEW m \in Heights, SafeHeadAtL1(db, m) # NotFound
      PROVE  /\ SafeHeadAtL1(db, m) \in Entry
             /\ Number[SafeHeadAtL1(db, m).l2] <= Number[b]
  <2>1. PICK k \in DOMAIN db : SafeHeadAtL1(db, m) = db[k]
    BY <1>2, <1>5, AnswerExists
  <2> QED
    BY <2>1 DEF UpdateInOrder, DBInv, DBTypeOK
<1>6. a \in Entry
  BY DEF Entry
<1>7. Answers' = [m \in Heights |-> IF m < n THEN Answers[m] ELSE a]
  BY <1>3, <1>4 DEF Answers
<1> QED
  BY <1>5, <1>6, <1>7 DEF Answers, History!Learn, History!Known

\* A reset answers every height from its cut on with the new safe head, or none.
LEMMA ResetLearns ==
  ASSUME DBInv, DBInv', NEW s \in L2Block, ResetInOrder(db, s),
         db' = SafeHeadReset(db, s), MadeSafe(db, s) # {}
  PROVE  History!Forget \/ \E n \in Heights, a \in Entry : History!Learn(n, a)
<1>1. PICK n \in DOMAIN db : CutAt(n, s, db')
  BY ResetCut
<1>2. n \in Heights /\ n \in Nat /\ DOMAIN db \subseteq Heights /\ DOMAIN db' \subseteq Heights
      /\ \A m \in Heights : m \in Nat
  BY Numbers DEF DBInv, DBTypeOK
<1>3. CASE DOMAIN db' = {}
  <2>1. \A m \in Heights : SafeHeadAtL1(db', m) = NotFound
    BY <1>3 DEF SafeHeadAtL1, KeysBelow
  <2> QED
    BY <2>1 DEF History!Forget
<1>4. CASE /\ DOMAIN db' = KeysBelow(db, n) \cup {n}
           /\ db'[n] = [l1 |-> db[n].l1, l2 |-> s]
  <2> DEFINE a == [l1 |-> db[n].l1, l2 |-> s]
  <2>1. a \in Entry
    BY DEF Entry, DBInv, DBTypeOK
  <2>2. ASSUME NEW m \in Heights, m < n PROVE SafeHeadAtL1(db', m) = SafeHeadAtL1(db, m)
    <3>1. \A k \in Heights : k <= m =>
            (k \in DOMAIN db' <=> k \in DOMAIN db) /\ (k \in DOMAIN db' => db'[k] = db[k])
      BY <1>1, <1>2, <1>4, <2>2 DEF KeysBelow, CutAt
    <3> QED
      BY <1>2, <3>1, AnswerDependsBelow
  <2>3. ASSUME NEW m \in Heights, ~(m < n) PROVE SafeHeadAtL1(db', m) = a
    <3>1. n <= m /\ n \in DOMAIN db' /\ \A k \in DOMAIN db' : k <= n
      BY <1>2, <1>4, <2>3 DEF KeysBelow
    <3> QED
      BY <1>2, <1>4, <3>1, AnswerIsLastEntry
  <2>4. ASSUME NEW m \in Heights, m < n, SafeHeadAtL1(db, m) # NotFound
        PROVE  /\ SafeHeadAtL1(db, m) \in Entry
               /\ Number[SafeHeadAtL1(db, m).l2] <= Number[s]
    <3>1. PICK k \in DOMAIN db : SafeHeadAtL1(db, m) = db[k] /\ k <= m
      BY <1>2, <2>4, AnswerExists
    <3>2. k < n
      BY <1>2, <2>4, <3>1
    <3> QED
      BY <1>1, <3>1, <3>2 DEF CutAt, DBInv, DBTypeOK
  <2>5. Answers' = [m \in Heights |-> IF m < n THEN Answers[m] ELSE a]
    BY <2>2, <2>3 DEF Answers
  <2>6. History!Learn(n, a)
    BY <2>1, <2>4, <2>5 DEF Answers, History!Learn, History!Known
  <2> QED
    BY <1>2, <2>1, <2>6
<1> QED
  BY <1>1, <1>3, <1>4 DEF CutAt

LEMMA StepImplements ==
  DBInv /\ DBInv' /\ [DBNext]_db => [History!Next]_Answers
<1> SUFFICES ASSUME DBInv, DBInv', [DBNext]_db PROVE [History!Next]_Answers
  OBVIOUS
<1>1. CASE DBUpdate
  <2>1. PICK b \in L2Block, src \in L1Block :
          UpdateInOrder(db, b, src) /\ db' = SafeHeadUpdated(db, b, src)
    BY <1>1 DEF DBUpdate
  <2>2. History!Learn(L1Number[src], [l1 |-> src, l2 |-> b])
    BY <2>1, UpdateLearns
  <2>3. L1Number[src] \in Heights /\ [l1 |-> src, l2 |-> b] \in Entry
    BY Numbers DEF Entry
  <2> QED
    BY <2>2, <2>3 DEF History!Next
<1>2. CASE DBReset
  <2>1. PICK s \in L2Block : ResetInOrder(db, s) /\ db' = SafeHeadReset(db, s)
    BY <1>2 DEF DBReset
  <2>2. CASE MadeSafe(db, s) = {}
    BY <2>1, <2>2 DEF SafeHeadReset, Answers
  <2>3. CASE MadeSafe(db, s) # {}
    BY <2>1, <2>3, ResetLearns DEF History!Next
  <2> QED
    BY <2>2, <2>3
<1>3. CASE ELSyncStarted
  <2>1. \A m \in Heights : SafeHeadAtL1(db', m) = NotFound
    BY <1>3 DEF ELSyncStarted, SafeHeadClear, NewSafeDB, SafeHeadAtL1, KeysBelow
  <2> QED
    BY <2>1 DEF History!Next, History!Forget
<1>4. CASE UNCHANGED db
  BY <1>4 DEF Answers
<1> QED
  BY <1>1, <1>2, <1>3, <1>4 DEF DBNext

\* The database, asked through SafeHeadAtL1, keeps the promise of SafeHeadHistory:
\* no operation changes an answer below the height it is about, and answers never
\* decrease with the height.
THEOREM Implements == DBSpec => ImplementsHistory
<1>1. DBInit => History!Init
  BY DEF DBInit, NewSafeDB, SafeHeadAtL1, KeysBelow, History!Init
<1> QED
  BY <1>1, SpecDBInv, StepImplements, PTL DEF DBSpec, ImplementsHistory, History!Spec, Answers

-----------------------------------------------------------------------------
(* The node: its properties *)

\* What the components hold keeps the shape the code gives it: heads are blocks, what the
\* finalizer keeps is bounded by its lookback, an entry of the safe head database is under
\* the number of its L1 block, and the event loop is inside Drain only if events wait.
THEOREM NodeTypeCorrect == Spec => []TypeOK
<1>1. ASSUME IInv PROVE TypeOK
  <2>1. Shape
    BY <1>1 DEF IInv
  <2>2. eng \in Controller
    <3>1. Valid \subseteq L2Ref /\ ValidRef \subseteq L2Ref
      BY ValidBlocks DEF ValidRef, L2Ref
    <3>2. CASE eng = NewController
      BY <3>2 DEF NewController, Controller, L2Ref
    <3>3. CASE eng \in RunningController
      BY <3>1, <3>3 DEF RunningController, Controller
    <3> QED  BY <1>1, <3>2, <3>3 DEF IInv, Starting, Running
  <2>3. el \in Engine
    BY <2>1, ValidBlocks DEF Shape, ValidEngine, Engine
  <2>4. att \in [attributes : Attributes \cup {NoAttributes}, sent : BOOLEAN]
    BY <2>1 DEF Shape, Handler, Carried
  <2>5. fin \in FinalizerState /\ Len(fin.data) <= FinalityLookback
    <3>1. /\ fin \in [finalizedL1 : L1Ref, lastFinalizedL2 : L2Ref, triedAt : Nat,
                      data : Seq(ValidData)]
          /\ Len(fin.data) <= FinalityLookback
      BY <2>1 DEF Shape, FinalizerOK
    <3>2. ValidData \subseteq FinalityData
      BY ValidBlocks DEF ValidData, FinalityData
    <3>3. fin.data \in Seq(FinalityData)
      BY <3>1, <3>2
    <3> QED  BY <3>1, <3>3 DEF FinalizerState
  <2>6. pipe \in Pipeline
    BY <2>1 DEF Shape, PipelineOK
  <2>7. \A n \in DOMAIN db : db[n] \in Entry /\ L1Number[db[n].l1] = n
    BY <2>1 DEF Shape, DBTyped
  <2> QED  BY <2>1, <2>2, <2>3, <2>4, <2>5, <2>6, <2>7 DEF Shape, TypeOK
<1> QED  BY <1>1, NodeInvariant, PTL

\* A block is reported as derived from an L1 block only if that L1 block carries its batch,
\* and is the deposits-only form exactly if the engine rejects the original: whatever peers
\* sent, whichever calls failed, and whatever was in flight when the node was reset.
THEOREM NodePromotesWhatWasBuilt == Spec => []PromotedIsBuilt
<1>1. ASSUME IInv PROVE PromotedIsBuilt
  <2> SUFFICES ASSUME Next1("SafeDerived")
               PROVE  \E x \in Batches[Head(queue).source] : Head(queue).ref = Built(x)
    BY DEF PromotedIsBuilt
  <2>1. queue # <<>> /\ Head(queue).t = "SafeDerived"
    BY DEF Next1
  <2>2. Head(queue) \in Event
    BY <1>1, <2>1, Heads DEF StartTypes
  <2>3. /\ Head(queue).ref \in Valid /\ Head(queue).source \in L1Block
        /\ Carries(Head(queue).source, Head(queue).ref)
    BY <2>1, <2>2, EventCarries
  <2>4. Head(queue).ref \notin Invalid
    BY <2>3, ValidBlocks
  <2> QED  BY <2>3, <2>4, CarriedBlocks
<1> QED  BY <1>1, NodeInvariant, PTL

\* When the queue is empty nobody waits for an event: the pipeline's attributes were
\* confirmed, and the build that the attributes handler asked for has ended, in whichever of
\* the many ways a build may end, so that derivation cannot get stuck.
THEOREM NodeAwaitsNothing == Spec => []NothingAwaited
<1>1. ASSUME IInv PROVE NothingAwaited
  <2> SUFFICES ASSUME queue = <<>>
               PROVE  /\ ~pipe.unconfirmed
                      /\ att.sent => Number[att.attributes.block] <= Number[eng.pending]
    BY DEF NothingAwaited, Quiet
  <2>1. Range(queue) = {}
    BY DEF Range
  <2>2. CASE Starting
    BY <2>2 DEF Starting, NewPipeline, NewHandler
  <2>3. CASE Running
    BY <2>1, <2>3 DEF Running, BuildEnds, ConfirmationComes
  <2> QED  BY <1>1, <2>2, <2>3 DEF IInv
<1> QED  BY <1>1, NodeInvariant, PTL

\* A controller whose unsafe head is known keeps its heads when the reset of the engine is
\* carried out, whether the engine accepts them or not.
LEMMA ForceResetKeepsHeads ==
  ASSUME NEW l, NEW up, NEW h, h.unsafe # NoBlock
  PROVE  ForceReset(l, h, up).eng.unsafe = h.unsafe
<1> DEFINE e == ForceEngineReset(h)
           i == InitializeUnknowns(e, l)
           r == TryUpdateEngineInternal(e, l, up)
<1>1. e.unsafe = h.unsafe
  BY DEF ForceEngineReset
<1>2. i.unsafe = h.unsafe
  BY DEF InitializeUnknowns, Known, ForceEngineReset
<1>3. [i EXCEPT !.needFCU = FALSE].unsafe = i.unsafe
  BY DEF InitializeUnknowns, ForceEngineReset
<1>4. r.eng \in {e, i, [i EXCEPT !.needFCU = FALSE]}
  BY DEF TryUpdateEngineInternal
<1>5. r.eng.unsafe = h.unsafe
  <2> HIDE DEF e, i, r
  <2> QED  BY <1>1, <1>2, <1>3, <1>4
<1>6. TryUpdateEngine(e, l, up).eng = r.eng
  BY DEF TryUpdateEngine
<1>7. ForceReset(l, h, up).eng = TryUpdateEngine(e, l, up).eng
  BY DEF ForceReset, TryUpdateEngine
<1> QED  BY <1>5, <1>6, <1>7

\* A reset of the engine finds heads of one chain, the safe head and what is known of the
\* unsafe head's origin on the L1 chain, however far L1 reorganized, as long as what is
\* finalized was not reorganized: FindL2Heads walked back far enough and not past finality.
THEOREM NodeResetsToCanonicalHeads == Spec => ResetIsCanonical
<1> DEFINE Sound ==
      OnResetEngineRequest /\ eng' # eng /\ ~Rewound(el) /\ el.finalized \in L2Chain[el.head]
      /\ L1Origin[el.finalized] \in L1Chain[l1.head]
      => /\ Extends(eng'.unsafe, eng'.safe) /\ Extends(eng'.safe, eng'.finalized)
         /\ L1Origin[eng'.safe] \in L1Chain[l1.head]
         /\ Seen(eng'.unsafe, l1.head) \in {NoBlock, L1Origin[eng'.unsafe]}
<1>1. ASSUME IInv PROVE Sound
  <2> SUFFICES ASSUME OnResetEngineRequest, eng' # eng, ~Rewound(el),
                      el.finalized \in L2Chain[el.head],
                      L1Origin[el.finalized] \in L1Chain[l1.head]
               PROVE  /\ Extends(eng'.unsafe, eng'.safe) /\ Extends(eng'.safe, eng'.finalized)
                      /\ L1Origin[eng'.safe] \in L1Chain[l1.head]
                      /\ Seen(eng'.unsafe, l1.head) \in {NoBlock, L1Origin[eng'.unsafe]}
    OBVIOUS
  <2> DEFINE h == FindL2Heads(el, l1.head)
  <2>1. el \in ValidEngine /\ l1.head \in L1Block
    BY <1>1 DEF IInv, Shape
  <2>2. PICK up \in BOOLEAN : eng' = ForceReset(el, h, up).eng
    BY DEF OnResetEngineRequest
  <2>3. h \in [unsafe : ValidRef, safe : Valid, finalized : Valid]
    BY <2>1, FindHeadsType
  <2>4. /\ h.unsafe \in L2Block /\ h.safe \in L2Chain[h.unsafe]
        /\ h.finalized \in L2Chain[h.safe]
        /\ L1Origin[h.safe] \in L1Chain[l1.head]
        /\ Seen(h.unsafe, l1.head) \in {NoBlock, L1Origin[h.unsafe]}
    BY <2>1, FindHeadsSound
  <2> HIDE DEF h
  <2>5. eng'.safe = h.safe /\ eng'.finalized = h.finalized
    BY <2>1, <2>2, <2>3, ForceResetType
  <2>6. eng'.unsafe = h.unsafe
    BY <2>2, <2>4, Blocks, ForceResetKeepsHeads
  <2>7. h.safe \in L2Block
    BY <2>3, ValidBlocks
  <2> QED  BY <2>4, <2>5, <2>6, <2>7 DEF Extends
<1>2. IInv => [Sound]_vars
  BY <1>1
<1> QED  BY <1>2, NodeInvariant, PTL DEF ResetIsCanonical

-----------------------------------------------------------------------------
(* The node: its safe head database *)

\* Only the reports of safe blocks and the confirmations of resets reach the database.
LEMMA OthersLeaveDB ==
  ASSUME [Next]_vars, ~OnSafeDerived, ~OnEngineResetConfirmed PROVE db' = db
<1>1. CASE Handle
  <2>1. CASE SyncStep \/ OnResetEvent \/ OnEngineTemporaryError \/ OnL1TemporaryError
             \/ OnDeriverIdle \/ OnDeriverMore \/ OnPendingSafeUpdate \/ OnDerivedAttributes
             \/ OnPayloadSealExpired \/ OnPipelineStep
    BY <2>1 DEF SyncStep, OnResetEvent, OnEngineTemporaryError, OnL1TemporaryError,
         OnDeriverIdle, OnDeriverMore, OnPendingSafeUpdate, OnDerivedAttributes,
         OnPayloadSealExpired, OnPipelineStep
  <2>2. CASE OnConfirmPipelineReset \/ OnConfirmReceivedAttributes \/ OnDepositsOnlyRequest
             \/ OnResetEngineRequest \/ OnUnsafeUpdate \/ OnLocalSafeUpdate
    BY <2>2 DEF OnConfirmPipelineReset, OnConfirmReceivedAttributes, OnDepositsOnlyRequest,
         OnResetEngineRequest, OnUnsafeUpdate, OnLocalSafeUpdate
  <2>3. CASE OnBuildStart \/ OnBuildStarted \/ OnBuildSeal \/ OnBuildSealed \/ OnBuildInvalid
             \/ OnPayloadProcess \/ OnPayloadSuccess \/ OnForkchoiceUpdate \/ OnPayloadInvalid
             \/ OnTryFinalize
    BY <2>3 DEF OnBuildStart, OnBuildStarted, OnBuildSeal, OnBuildSealed, OnBuildInvalid,
         OnPayloadProcess, OnPayloadSuccess, OnForkchoiceUpdate, OnPayloadInvalid, OnTryFinalize
  <2> QED  BY <1>1, <2>1, <2>2, <2>3 DEF Handle
<1>2. CASE AttemptStep \/ ReceivePayload \/ OnL1Unsafe \/ OnL1Finalized \/ L1Advance
           \/ L1Reorg \/ ManualReset \/ Restart
  BY <1>2 DEF AttemptStep, ReceivePayload, OnL1Unsafe, OnL1Finalized, L1Advance, L1Reorg,
       ManualReset, Restart
<1>3. CASE UNCHANGED vars
  BY <1>3 DEF vars
<1> QED  BY <1>1, <1>2, <1>3 DEF Next

\* A reset to genesis empties the database, and genesis is then recorded as safe from the
\* first L1 block on: every height is answered by genesis.
LEMMA GenesisIsLearnt ==
  ASSUME DBTyped(db), db' = SafeHeadUpdated(SafeHeadReset(db, Genesis), Genesis, L1Genesis)
  PROVE  DBInv' /\ \E n \in Heights, a \in Entry : History!Learn(n, a)
<1> DEFINE a == [l1 |-> L1Genesis, l2 |-> Genesis]
           d == SafeHeadReset(db, Genesis)
<1>1. /\ L1Genesis \in L1Block /\ L1Number[L1Genesis] = 0 /\ Genesis \in L2Block
      /\ L1Origin[Genesis] = L1Genesis /\ Number[Genesis] = 0
  BY ChainsAssumption
<1>2. MadeSafe(db, Genesis) = DOMAIN db
  <2>1. \A n \in DOMAIN db : n \in Nat /\ Number[db[n].l2] \in Nat
    BY Numbers DEF DBTyped, Entry
  <2> QED  BY <1>1, <2>1 DEF MadeSafe, KeysFrom
<1>3. DOMAIN d = {}
  <2>1. CASE DOMAIN db = {}
    BY <1>2, <2>1 DEF SafeHeadReset
  <2>2. CASE DOMAIN db # {}
    <3>1. DOMAIN db \in SUBSET Nat
      BY Numbers DEF DBTyped
    <3>2. \A j \in DOMAIN db : First(DOMAIN db) <= j
      BY <2>2, <3>1, FirstIsLeast
    <3>3. First(DOMAIN db) \in Nat
      BY <2>2, <3>1, FirstIsLeast
    <3>4. KeysBelow(db, First(DOMAIN db)) = {}
      BY <3>1, <3>2, <3>3 DEF KeysBelow
    <3> QED  BY <1>2, <2>2, <3>4 DEF SafeHeadReset
  <2> QED  BY <2>1, <2>2
<1> HIDE DEF d
<1>4. DOMAIN db' = {0} /\ db'[0] = a
  BY <1>1, <1>3 DEF SafeHeadUpdated, d
<1>5. 0 \in Heights /\ a \in Entry
  BY <1>1, Numbers DEF Entry
<1>6. DBInv'
  <2>1. DBTypeOK'
    BY <1>1, <1>4, <1>5 DEF DBTypeOK
  <2>2. EntriesAscend'
    BY <1>1, <1>4 DEF EntriesAscend
  <2> QED  BY <2>1, <2>2 DEF DBInv
<1>7. ASSUME NEW m \in Heights PROVE SafeHeadAtL1(db', m) = a /\ ~(m < 0)
  <2>1. m \in Nat /\ DOMAIN db' \subseteq Heights
    BY <1>4, <1>5, Numbers
  <2>2. SafeHeadAtL1(db', m) = db'[0]
    BY <1>4, <2>1, AnswerIsLastEntry
  <2> QED  BY <1>4, <2>1, <2>2
<1>8. History!Learn(0, a)
  <2>1. Answers' = [m \in Heights |-> IF m < 0 THEN Answers[m] ELSE a]
    BY <1>7 DEF Answers
  <2> HIDE DEF a
  <2> QED  BY <1>7, <2>1 DEF Answers, History!Learn
<1> QED  BY <1>5, <1>6, <1>8

\* A step of the node whose calls are in order is a step of the database, or two.
LEMMA NodeStepImplements ==
  ASSUME IInv, DBInv, ListenerInOrder, [Next]_vars
  PROVE  DBInv' /\ [History!Next]_Answers
<1>0. DBTyped(db) /\ l1.head \in L1Block
  BY DEF IInv, Shape
<1>1. ASSUME [DBNext]_db PROVE DBInv' /\ [History!Next]_Answers
  <2>1. DBInv'
    BY <1>1, NextDBInv
  <2> QED  BY <1>1, <2>1, StepImplements
<1>2. CASE OnSafeDerived
  <2> DEFINE b == Head(queue).ref
             src == Head(queue).source
  <2>1. queue # <<>> /\ Head(queue).t = "SafeDerived" /\ db' \in {db, SafeHeadUpdated(db, b, src)}
    BY <1>2 DEF OnSafeDerived, Next1
  <2>2. b \in L2Block /\ src \in L1Block
    BY <2>1, Heads, EventCarries, ValidBlocks DEF StartTypes
  <2>3. UpdateInOrder(db, b, src)
    BY <2>1 DEF ListenerInOrder, Next1
  <2> HIDE DEF b, src
  <2>4. [DBNext]_db
    BY <2>1, <2>2, <2>3 DEF DBNext, DBUpdate
  <2> QED  BY <1>1, <2>4
<1>3. CASE OnEngineResetConfirmed
  <2> DEFINE s == Head(queue).ref
             recorded == SafeHeadUpdated(SafeHeadReset(db, s), s, L1ByNumber(l1.head, 0))
  <2>1. /\ queue # <<>> /\ Head(queue).t = "EngineResetConfirmed"
        /\ db' \in {db, SafeHeadReset(db, s)} \/ (s = Genesis /\ db' = recorded)
    BY <1>3 DEF OnEngineResetConfirmed, Next1
  <2>2. s \in L2Block
    BY <2>1, Heads, EventCarries, ValidBlocks DEF StartTypes
  <2>3. ResetInOrder(db, s)
    BY <2>1 DEF ListenerInOrder, Next1
  <2>4. CASE db' \in {db, SafeHeadReset(db, s)}
    <3> HIDE DEF s
    <3>1. [DBNext]_db
      BY <2>2, <2>3, <2>4 DEF DBNext, DBReset
    <3> QED  BY <1>1, <3>1
  <2>5. CASE s = Genesis /\ db' = recorded
    <3>1. db' = SafeHeadUpdated(SafeHeadReset(db, Genesis), Genesis, L1Genesis)
      BY <1>0, <2>5, L1Nodes
    <3>2. DBInv' /\ \E n \in Heights, a \in Entry : History!Learn(n, a)
      BY <1>0, <3>1, GenesisIsLearnt
    <3> QED  BY <3>2 DEF History!Next
  <2> QED  BY <2>1, <2>4, <2>5
<1>4. CASE ~OnSafeDerived /\ ~OnEngineResetConfirmed
  <2>1. db' = db
    BY <1>4, OthersLeaveDB
  <2> QED  BY <1>1, <2>1
<1> QED  BY <1>2, <1>3, <1>4

\* While the node calls the safe head listener in the order it relies on, the database
\* keeps, through failed calls, L1 reorganizations, resets and restarts of the node, the
\* promise of SafeHeadHistory, and its entries ascend.
THEOREM NodeImplementsHistory ==
  Spec /\ []ListenerInOrder => ImplementsHistory /\ []EntriesAscend
<1>1. Init => DBInv /\ History!Init
  <2> SUFFICES ASSUME Init PROVE DBInv /\ History!Init
    OBVIOUS
  <2>1. DBInit
    BY DEF Init, DBInit
  <2>2. History!Init
    BY <2>1 DEF DBInit, NewSafeDB, SafeHeadAtL1, KeysBelow, History!Init
  <2> QED  BY <2>1, <2>2, InitDBInv
<1>2. IInv /\ DBInv /\ ListenerInOrder /\ [Next]_vars => DBInv' /\ [History!Next]_Answers
  BY NodeStepImplements
<1>3. DBInv => EntriesAscend
  BY DEF DBInv
<1> QED
  BY <1>1, <1>2, <1>3, NodeInvariant, PTL DEF Spec, ImplementsHistory, History!Spec, Answers

-----------------------------------------------------------------------------
(* The node: finality *)

\* What the engine calls finalized is on its chain, and what the controller does is no lower.
Ahead ==
  /\ el.finalized \in L2Chain[el.head]
  /\ eng.finalized = NoBlock \/ Number[el.finalized] <= Number[eng.finalized]

\* The finalized label stays, or becomes the controller's on the new chain.
Moves(old, e, new) ==
  \/ new.finalized = old.finalized
  \/ new.finalized = e.finalized /\ e.finalized \in L2Chain[new.head]

\* What a step does to finality.
FinalityStep ==
  /\ Moves(el, eng', el')
  /\ eng'.finalized = NoBlock \/ Number[el.finalized] <= Number[eng'.finalized]

LEMMA ForkchoiceMoves ==
  ASSUME NEW l, NEW h, NEW s, NEW e
  PROVE  Moves(l, e, Forkchoice(l, h, s, e.finalized).el)
BY DEF Moves, Forkchoice

LEMMA UpdateInternalMoves ==
  ASSUME NEW e \in RunningController, NEW l \in ValidEngine, NEW up
  PROVE  Moves(l, TryUpdateEngineInternal(e, l, up).eng, TryUpdateEngineInternal(e, l, up).el)
<1> DEFINE k == InitializeUnknowns(e, l)
           fcu == Forkchoice(l, k.unsafe, k.safe, k.finalized)
           r == TryUpdateEngineInternal(e, l, up)
<1>1. k.finalized = e.finalized
  BY UnknownsType
<1>2. r.eng.finalized = e.finalized
  BY UpdateInternalType
<1>3. Moves(l, k, fcu.el)
  BY ForkchoiceMoves
<1> HIDE DEF k, fcu
<1>4. r.el \in {l, fcu.el}
  BY DEF TryUpdateEngineInternal, fcu, k
<1> HIDE DEF r
<1>5. Moves(l, r.eng, r.el)
  BY <1>1, <1>2, <1>3, <1>4 DEF Moves
<1> QED  BY <1>5 DEF r

LEMMA UpdateMoves ==
  ASSUME NEW e \in RunningController, NEW l \in ValidEngine, NEW up
  PROVE  Moves(l, TryUpdateEngine(e, l, up).eng, TryUpdateEngine(e, l, up).el)
BY UpdateInternalMoves DEF TryUpdateEngine

\* The promotion of a derived block leaves the finalized head alone.
LEMMA PromoteDerivedMoves ==
  ASSUME NEW e \in RunningController, NEW a, a.block \in L2Block
  PROVE  PromoteDerived(e, a).eng.finalized = e.finalized
<1> DEFINE p == TryUpdatePendingSafe(e, a.block)
           q == TryUpdateLocalSafe(p.eng, a.block, a.concluding, a.from)
           e1 == [e EXCEPT !.pending = a.block]
           e2 == [p.eng EXCEPT !.localSafe = a.block]
           Like(c) == c \in Controller /\ c.finalized = e.finalized
<1>1. Like(e) /\ a.block \in L2Ref
  BY ValidBlocks DEF RunningController, Controller, ValidRef, L2Ref
<1>2. Like(e1)
  BY <1>1 DEF Controller
<1> HIDE DEF e1, Like
<1>3. p.eng \in {e, e1}
  BY DEF TryUpdatePendingSafe, e1
<1> HIDE DEF p
<1>4. Like(p.eng)
  BY <1>1, <1>2, <1>3
<1>5. Like(e2)
  BY <1>1, <1>4 DEF Controller, Like
<1> HIDE DEF e2
<1>6. q.eng \in {p.eng, e2}
  BY DEF TryUpdateLocalSafe, e2
<1> HIDE DEF q
<1>7. PromoteDerived(e, a).eng = q.eng
  BY DEF PromoteDerived, p, q
<1> QED  BY <1>4, <1>5, <1>6, <1>7 DEF Like

LEMMA PayloadSuccessMoves ==
  ASSUME NEW e \in RunningController, NEW l \in ValidEngine, NEW a \in Executed, NEW up
  PROVE  LET r == PayloadSuccess(e, l, a, up)
         IN  r.eng.finalized = e.finalized /\ Moves(l, r.eng, r.el)
<1> DEFINE u == SetUnsafeHead(e, a.block)
           d == PromoteDerived(u, a)
           r == TryUpdateEngineInternal(d.eng, l, up)
<1>1. u \in RunningController /\ u.finalized = e.finalized
  BY DEF SetUnsafeHead, RunningController, Executed, ValidRef
<1> HIDE DEF u
<1>b. a.block \in L2Block
  BY ValidBlocks DEF Executed
<1>2. d.eng \in RunningController /\ d.eng.finalized = e.finalized
  BY <1>1, <1>b, PromoteDerivedType, PromoteDerivedMoves
<1> HIDE DEF d
<1>3. r.eng.finalized = e.finalized /\ Moves(l, r.eng, r.el)
  BY <1>2, UpdateInternalType, UpdateInternalMoves
<1> HIDE DEF r
<1>4. PayloadSuccess(e, l, a, up).eng = r.eng /\ PayloadSuccess(e, l, a, up).el = r.el
  BY DEF PayloadSuccess, r, d, u
<1> QED  BY <1>3, <1>4

LEMMA PromoteSafeMoves ==
  ASSUME NEW e \in RunningController, NEW l \in ValidEngine, NEW b \in Valid, NEW src, NEW up
  PROVE  LET r == PromoteSafe(e, l, b, src, up)
         IN  r.eng.finalized = e.finalized /\ Moves(l, r.eng, r.el)
<1> DEFINE e1 == [e EXCEPT !.safe = b, !.needFCU = TRUE]
           r == TryUpdateEngine(e1, l, up)
<1>1. e1 \in RunningController /\ e1.finalized = e.finalized
  BY DEF RunningController
<1> HIDE DEF e1
<1>2. r.eng.finalized = e.finalized /\ Moves(l, r.eng, r.el)
  BY <1>1, UpdateType, UpdateMoves
<1>3. r = [eng |-> r.eng, el |-> r.el, evs |-> r.evs]
  BY DEF TryUpdateEngine
<1> HIDE DEF r
<1>4. PromoteSafe(e, l, b, src, up) = [r EXCEPT !.evs = <<SafeDerived(b, src)>> \o r.evs]
  BY DEF PromoteSafe, r, e1
<1>5. PromoteSafe(e, l, b, src, up).eng = r.eng /\ PromoteSafe(e, l, b, src, up).el = r.el
  BY <1>3, <1>4
<1> QED  BY <1>2, <1>5

\* PromoteFinalized never takes a lower block.
LEMMA PromoteFinalizedMoves ==
  ASSUME NEW e \in RunningController, NEW l \in ValidEngine, NEW b \in Valid, NEW up
  PROVE  LET r == PromoteFinalized(e, l, b, up)
         IN  Number[e.finalized] <= Number[r.eng.finalized] /\ Moves(l, r.eng, r.el)
<1> DEFINE e1 == [e EXCEPT !.finalized = b, !.needFCU = TRUE]
           t == TryUpdateEngine(e1, l, up)
           r == PromoteFinalized(e, l, b, up)
<1>1. e1 \in RunningController /\ e1.finalized = b
  BY DEF RunningController
<1> HIDE DEF e1
<1>2. t.eng.finalized = b /\ Moves(l, t.eng, t.el)
  BY <1>1, UpdateType, UpdateMoves
<1>3. Number[b] \in Nat /\ Number[e.finalized] \in Nat
  BY ValidBlocks, Blocks DEF RunningController, L2Ref
<1> HIDE DEF t
<1>4. \/ r.eng = e /\ r.el = l
      \/ r = t /\ ~(Number[b] < Number[e.finalized])
  BY DEF PromoteFinalized, t, e1
<1> HIDE DEF r
<1>5. Number[e.finalized] <= Number[r.eng.finalized] /\ Moves(l, r.eng, r.el)
  BY <1>2, <1>3, <1>4 DEF Moves
<1> QED  BY <1>5 DEF r

LEMMA InsertMoves ==
  ASSUME NEW e \in RunningController, NEW l, NEW p, NEW up
  PROVE  LET r == InsertUnsafePayload(e, l, p, up)
         IN  r.eng.finalized = e.finalized /\ Moves(l, r.eng, r.el)
<1> DEFINE fcu == Forkchoice(l, p, e.safe, e.finalized)
           e1 == [e EXCEPT !.unsafe = p, !.needFCU = FALSE]
           r == InsertUnsafePayload(e, l, p, up)
<1>1. e1.finalized = e.finalized
  BY DEF RunningController
<1>2. Moves(l, e, fcu.el)
  BY ForkchoiceMoves
<1> HIDE DEF e1, fcu
<1>3. r.eng \in {e, e1} /\ r.el \in {l, fcu.el}
  BY DEF InsertUnsafePayload, e1, fcu
<1> HIDE DEF r
<1>4. r.eng.finalized = e.finalized /\ Moves(l, r.eng, r.el)
  BY <1>1, <1>2, <1>3 DEF Moves
<1> QED  BY <1>4 DEF r

LEMMA ForceResetMoves ==
  ASSUME NEW l \in ValidEngine, NEW up,
         NEW h \in [unsafe : ValidRef, safe : Valid, finalized : Valid]
  PROVE  Moves(l, ForceReset(l, h, up).eng, ForceReset(l, h, up).el)
<1> DEFINE e == ForceEngineReset(h)
           r == TryUpdateEngine(e, l, up)
<1>1. e \in RunningController
  BY DEF ForceEngineReset, RunningController
<1>2. Moves(l, r.eng, r.el)
  BY <1>1, UpdateMoves
<1>3. ForceReset(l, h, up).eng = r.eng /\ ForceReset(l, h, up).el = r.el
  BY DEF ForceReset, TryUpdateEngine
<1> HIDE DEF r
<1> QED  BY <1>2, <1>3

\* A reset does not go below what is finalized, even if the engine was rewound.
LEMMA HeadsKeepFinalized ==
  ASSUME NEW l \in ValidEngine, l.finalized \in L2Chain[l.head], NEW tip
  PROVE  Number[l.finalized] <= Number[FindL2Heads(l, tip).finalized]
<1>1. l.head \in L2Block /\ l.finalized \in L2Block
  BY ValidBlocks DEF ValidEngine
<1>2. Number[l.finalized] <= Number[l.head] /\ Number[l.finalized] \in Nat
  BY <1>1, L2Chains, Blocks DEF L2Ref
<1>3. FindL2Heads(l, tip).finalized \in {l.head, l.finalized}
  BY DEF FindL2Heads
<1> QED  BY <1>2, <1>3

LEMMA Still ==
  ASSUME Ahead, eng'.finalized = eng.finalized, Moves(el, eng', el') PROVE FinalityStep
BY DEF Ahead, FinalityStep

\* The handlers that ask the engine for a forkchoice update.
LEMMA UpdatesFinality ==
  ASSUME IInv, Ahead, SyncStep \/ OnUnsafeUpdate PROVE FinalityStep
<1>1. PICK up : /\ eng' = TryUpdateEngine(eng, el, up).eng
                /\ el' = TryUpdateEngine(eng, el, up).el
  BY DEF SyncStep, OnUnsafeUpdate
<1>2. CASE Running
  BY <1>1, <1>2, UpdateType, UpdateMoves, Still DEF IInv, Shape, Running
<1>3. CASE Starting
  <2>1. ~eng.needFCU
    BY <1>3 DEF Starting, NewController
  <2>2. eng' = eng /\ el' = el
    BY <1>1, <2>1 DEF TryUpdateEngine, TryUpdateEngineInternal
  <2> QED  BY <2>2, Still DEF Moves
<1> QED  BY <1>2, <1>3 DEF IInv

LEMMA BlocksFinality ==
  ASSUME IInv, Ahead, OnLocalSafeUpdate \/ OnPayloadSuccess \/ OnBuildStart
  PROVE  FinalityStep
<1>0. el \in ValidEngine /\ queue # <<>>
  BY DEF IInv, Shape, OnLocalSafeUpdate, OnPayloadSuccess, OnBuildStart, Next1
<1>1. Running /\ eng \in RunningController /\ Head(queue) \in Event
  <2>1. Head(queue).t \in {"LocalSafeUpdate", "PayloadSuccess", "BuildStart"}
    BY DEF OnLocalSafeUpdate, OnPayloadSuccess, OnBuildStart, Next1
  <2>2. Running
    BY <1>0, <2>1, Heads DEF StartTypes
  <2> QED  BY <1>0, <2>2, Heads DEF Running
<1>2. CASE OnLocalSafeUpdate
  <2>1. PICK up : /\ eng' = PromoteSafe(eng, el, Head(queue).ref, Head(queue).source, up).eng
                  /\ el' = PromoteSafe(eng, el, Head(queue).ref, Head(queue).source, up).el
    BY <1>2 DEF OnLocalSafeUpdate
  <2>2. Head(queue).ref \in Valid
    BY <1>1, <1>2, EventCarries DEF OnLocalSafeUpdate, Next1
  <2> QED  BY <1>0, <1>1, <2>1, <2>2, PromoteSafeMoves, Still
<1>3. CASE OnPayloadSuccess
  <2>1. PICK up : /\ eng' = PayloadSuccess(eng, el, Head(queue).attr, up).eng
                  /\ el' = PayloadSuccess(eng, el, Head(queue).attr, up).el
    BY <1>3 DEF OnPayloadSuccess
  <2>2. Head(queue).attr \in Executed
    BY <1>1, <1>3, EventCarries DEF OnPayloadSuccess, Next1
  <2> QED  BY <1>0, <1>1, <2>1, <2>2, PayloadSuccessMoves, Still
<1>4. CASE OnBuildStart
  <2> DEFINE fcu == Forkchoice(el, Parent[Head(queue).attr.block], eng.safe, eng.finalized)
  <2>1. eng' = eng /\ el' \in {el, fcu.el}
    BY <1>4 DEF OnBuildStart, components
  <2>2. Moves(el, eng, fcu.el)
    BY ForkchoiceMoves
  <2> HIDE DEF fcu
  <2>3. Moves(el, eng', el')
    BY <2>1, <2>2 DEF Moves
  <2> QED  BY <2>1, <2>3, Still
<1> QED  BY <1>2, <1>3, <1>4

LEMMA PendingFinality == ASSUME IInv, Ahead, OnPendingSafeUpdate PROVE FinalityStep
<1> DEFINE a == att.attributes
<1>1. /\ el' = el
      /\ \/ eng' = eng
         \/ a # NoAttributes /\ eng' = PromoteDerived(eng, a).eng
  BY DEF OnPendingSafeUpdate, NextHeight
<1>2. CASE eng' = eng
  BY <1>1, <1>2, Still DEF Moves
<1>3. CASE a # NoAttributes /\ eng' = PromoteDerived(eng, a).eng
  <2>1. eng \in RunningController
    BY <1>3 DEF IInv, Starting, NewHandler, Running
  <2>2. a \in Carried
    BY <1>3 DEF IInv, Shape, Handler
  <2>3. a.block \in L2Block
    BY <2>2, CarriedAttributes
  <2> HIDE DEF a
  <2>4. eng'.finalized = eng.finalized
    BY <1>3, <2>1, <2>3, PromoteDerivedMoves
  <2> QED  BY <1>1, <2>4, Still DEF Moves
<1> QED  BY <1>1, <1>2, <1>3

LEMMA ResetFinality == ASSUME IInv, Ahead, OnResetEngineRequest PROVE FinalityStep
<1> DEFINE h == FindL2Heads(el, l1.head)
<1>1. el \in ValidEngine /\ l1.head \in L1Block
  BY DEF IInv, Shape
<1>2. \/ eng' = eng /\ el' = el
      \/ \E up : eng' = ForceReset(el, h, up).eng /\ el' = ForceReset(el, h, up).el
  BY DEF OnResetEngineRequest
<1>3. /\ h \in [unsafe : ValidRef, safe : Valid, finalized : Valid]
      /\ Number[el.finalized] <= Number[h.finalized]
  BY <1>1, FindHeadsType, HeadsKeepFinalized DEF Ahead
<1> HIDE DEF h
<1>4. CASE eng' = eng /\ el' = el
  BY <1>4, Still DEF Moves
<1>5. CASE \E up : eng' = ForceReset(el, h, up).eng /\ el' = ForceReset(el, h, up).el
  BY <1>1, <1>3, <1>5, ForceResetType, ForceResetMoves DEF FinalityStep
<1> QED  BY <1>2, <1>4, <1>5

LEMMA TryFinality == ASSUME IInv, Ahead, OnTryFinalize PROVE FinalityStep
<1>1. el \in ValidEngine /\ FinalizerOK(fin)
  BY DEF IInv, Shape
<1>2. \/ eng' = eng /\ el' = el
      \/ /\ Finalizable(fin) # {}
         /\ \E up : /\ eng' = PromoteFinalized(eng, el, Pick(fin).l2, up).eng
                    /\ el' = PromoteFinalized(eng, el, Pick(fin).l2, up).el
  BY DEF OnTryFinalize
<1>3. CASE eng' = eng /\ el' = el
  BY <1>3, Still DEF Moves
<1>4. CASE Finalizable(fin) # {} /\ ~(eng' = eng /\ el' = el)
  <2>1. PICK up : /\ eng' = PromoteFinalized(eng, el, Pick(fin).l2, up).eng
                  /\ el' = PromoteFinalized(eng, el, Pick(fin).l2, up).el
    BY <1>2, <1>4
  <2>2. ~Starting
    <3>1. Len(fin.data) # 0
      BY <1>4 DEF Finalizable
    <3> QED  BY <3>1 DEF Starting
  <2>3. eng \in RunningController /\ Pick(fin).l2 \in Valid
    BY <1>1, <1>4, <2>2, PickType DEF IInv, Running
  <2>4. Number[eng.finalized] <= Number[eng'.finalized] /\ Moves(el, eng', el')
        /\ eng' \in RunningController
    BY <1>1, <2>1, <2>3, PromoteFinalizedMoves, PromoteFinalizedType
  <2>5. eng.finalized # NoBlock /\ eng.finalized \in L2Block /\ eng'.finalized \in L2Block
        /\ el.finalized \in L2Block
    BY <1>1, <2>3, <2>4, ValidBlocks, Blocks DEF RunningController, ValidEngine
  <2>6. Number[el.finalized] <= Number[eng'.finalized]
    BY <2>4, <2>5, Blocks DEF Ahead, L2Ref
  <2> QED  BY <2>4, <2>6 DEF FinalityStep
<1> QED  BY <1>2, <1>3, <1>4

LEMMA PayloadFinality == ASSUME IInv, Ahead, OnForkchoiceUpdate PROVE FinalityStep
<1> DEFINE ev == Head(queue)
<1>1. \/ eng' = eng /\ el' = el
      \/ \E p \in L2Block, up \in BOOLEAN :
           /\ Parent[p] = ev.unsafe /\ Number[p] = Number[ev.unsafe] + 1
           /\ eng' = InsertUnsafePayload(eng, el, p, up).eng
           /\ el' = InsertUnsafePayload(eng, el, p, up).el
  <2>1. PICK kept \in DropInapplicable(payloads, ev.unsafe, ev.safe) :
          \/ eng' = eng /\ el' = el
          \/ \E p \in Lowest(kept), up \in BOOLEAN :
               /\ Parent[p] = ev.unsafe /\ Number[p] = Number[ev.unsafe] + 1
               /\ eng' = InsertUnsafePayload(eng, el, p, up).eng
               /\ el' = InsertUnsafePayload(eng, el, p, up).el
    BY DEF OnForkchoiceUpdate
  <2>2. kept \subseteq L2Block
    BY DroppedPayloads DEF IInv, Shape
  <2> QED  BY <2>1, <2>2 DEF Lowest
<1>2. CASE eng' = eng /\ el' = el
  BY <1>2, Still DEF Moves
<1>3. CASE \E p \in L2Block, up \in BOOLEAN :
             /\ Parent[p] = ev.unsafe /\ Number[p] = Number[ev.unsafe] + 1
             /\ eng' = InsertUnsafePayload(eng, el, p, up).eng
             /\ el' = InsertUnsafePayload(eng, el, p, up).el
  <2>1. PICK p \in L2Block, up \in BOOLEAN :
             /\ Parent[p] = ev.unsafe /\ Number[p] = Number[ev.unsafe] + 1
             /\ eng' = InsertUnsafePayload(eng, el, p, up).eng
             /\ el' = InsertUnsafePayload(eng, el, p, up).el
    BY <1>3
  <2>2. CASE Running
    BY <2>1, <2>2, InsertMoves, Still DEF Running
  <2>3. CASE Starting
    <3>1. queue # <<>> /\ ev \in StartEvent /\ ev.t = "ForkchoiceUpdate"
      BY <2>3, Heads DEF OnForkchoiceUpdate, Next1
    <3>2. ev.unsafe = NoBlock
      BY <3>1 DEF StartEvent
    <3>3. p # Genesis
      BY <2>1, <3>2, Blocks
    <3> QED  BY <2>1, <3>2, <3>3, Blocks
  <2> QED  BY <2>2, <2>3 DEF IInv
<1> QED  BY <1>1, <1>2, <1>3

\* Nobody else touches the heads, but a restart, which forgets the controller's.
LEMMA OthersFinality ==
  ASSUME Ahead, [Next]_vars, ~SyncStep, ~OnUnsafeUpdate, ~OnLocalSafeUpdate, ~OnPayloadSuccess,
         ~OnBuildStart, ~OnPendingSafeUpdate, ~OnResetEngineRequest, ~OnTryFinalize,
         ~OnForkchoiceUpdate
  PROVE  FinalityStep
<1>1. CASE Restart
  BY <1>1 DEF Restart, NewController, FinalityStep, Moves
<1>2. CASE ~Restart
  <2>1. eng' = eng /\ el' = el
    <3>1. CASE OnResetEvent \/ OnEngineTemporaryError \/ OnL1TemporaryError
               \/ OnDeriverIdle \/ OnDeriverMore \/ OnSafeDerived \/ OnEngineResetConfirmed
               \/ OnDerivedAttributes \/ OnPayloadSealExpired \/ OnPipelineStep
      BY <3>1 DEF OnResetEvent, OnEngineTemporaryError, OnL1TemporaryError, OnDeriverIdle,
           OnDeriverMore, OnSafeDerived, OnEngineResetConfirmed, OnDerivedAttributes,
           OnPayloadSealExpired, OnPipelineStep, components
    <3>2. CASE OnConfirmPipelineReset \/ OnConfirmReceivedAttributes \/ OnDepositsOnlyRequest
               \/ OnBuildStarted \/ OnBuildSeal \/ OnBuildSealed \/ OnBuildInvalid
               \/ OnPayloadProcess \/ OnPayloadInvalid
      BY <3>2 DEF OnConfirmPipelineReset, OnConfirmReceivedAttributes, OnDepositsOnlyRequest,
           OnBuildStarted, OnBuildSeal, OnBuildSealed, OnBuildInvalid, OnPayloadProcess,
           OnPayloadInvalid, components
    <3>3. CASE AttemptStep \/ ReceivePayload \/ OnL1Unsafe \/ OnL1Finalized \/ L1Advance
               \/ L1Reorg \/ ManualReset
      BY <3>3 DEF AttemptStep, ReceivePayload, OnL1Unsafe, OnL1Finalized, L1Advance, L1Reorg,
           ManualReset, components
    <3>4. CASE UNCHANGED vars
      BY <3>4 DEF vars, components
    <3> QED  BY <1>2, <3>1, <3>2, <3>3, <3>4 DEF Next, Handle
  <2> QED  BY <2>1, Still DEF Moves
<1> QED  BY <1>1, <1>2

LEMMA NextFinality == ASSUME IInv, Ahead, [Next]_vars PROVE FinalityStep
BY UpdatesFinality, BlocksFinality, PendingFinality, ResetFinality, TryFinality,
   PayloadFinality, OthersFinality

\* If the head stays on the chain of what is finalized, so does what is finalized.
LEMMA FinalityExtends ==
  ASSUME IInv', Ahead, FinalityStep, el.finalized \in L2Chain[el'.head]
  PROVE  Ahead' /\ Extends(el'.finalized, el.finalized)
<1>1. el'.head \in L2Block
  BY ValidBlocks DEF IInv, Shape, ValidEngine
<1>2. CASE el'.finalized = el.finalized
  BY <1>2 DEF Ahead, FinalityStep, Extends
<1>3. CASE el'.finalized = eng'.finalized /\ eng'.finalized \in L2Chain[el'.head]
  <2>1. eng'.finalized \in L2Block /\ eng'.finalized # NoBlock
    BY <1>1, <1>3, L2Chains, Blocks
  <2>2. Number[el.finalized] <= Number[el'.finalized]
    BY <1>3, <2>1 DEF FinalityStep
  <2>3. el.finalized \in L2Chain[el'.finalized]
    BY <1>1, <1>3, <2>2, L2Chains
  <2>4. Number[eng'.finalized] <= Number[eng'.finalized]
    BY <2>1, Blocks DEF L2Ref
  <2> QED  BY <1>3, <2>1, <2>3, <2>4 DEF Ahead, Extends
<1> QED  BY <1>2, <1>3 DEF FinalityStep, Moves

\* The engine's head never leaves the finalized chain.  The engine moves its head before it
\* checks the finalized label (Forkchoice), so this is the engine's and L1's to keep: a
\* block that conflicts with final L1 data must not be built on.
HeadKeepsFinalized == [][el.finalized \in L2Chain[el'.head]]_vars

\* What the engine calls finalized is never taken back, through failed calls, L1
\* reorganizations, resets and restarts, which forget what the controller knew, unless the
\* engine's head is moved off the finalized chain: neither FindL2Heads nor the finalizer
\* nor a forkchoice update that the engine carries out in part lowers the label.
THEOREM NodeKeepsFinality == Spec /\ HeadKeepsFinalized => FinalityIsFinal
<1>1. Init => Ahead
  BY L2Chains, ChainsAssumption DEF Init, Ahead, NewController
<1>2. IInv /\ IInv' /\ Ahead /\ [Next]_vars /\ [el.finalized \in L2Chain[el'.head]]_vars
        => Ahead' /\ [Extends(el'.finalized, el.finalized)]_vars
  <2> SUFFICES ASSUME IInv, IInv', Ahead, [Next]_vars,
                      [el.finalized \in L2Chain[el'.head]]_vars
               PROVE  Ahead' /\ [Extends(el'.finalized, el.finalized)]_vars
    OBVIOUS
  <2>1. CASE UNCHANGED vars
    BY <2>1 DEF vars, components, Ahead
  <2>2. CASE el.finalized \in L2Chain[el'.head]
    BY <2>2, NextFinality, FinalityExtends
  <2> QED  BY <2>1, <2>2
<1> QED
  BY <1>1, <1>2, NodeInvariant, PTL DEF Spec, HeadKeepsFinalized, FinalityIsFinal
=============================================================================
