----------------------- MODULE ChannelContentsProofs -----------------------
(***************************************************************************)
(* What the channel manager puts into its channels and its transactions,   *)
(* for every chain of L2 blocks, every configuration and every sequence of *)
(* calls: the queued channels cover the blocks up to the cursor without a  *)
(* gap, a frame is always sent in the same group, and a closed channel     *)
(* keeps its contents.                                                     *)
(***************************************************************************)
EXTENDS ChannelManagerProofs

-----------------------------------------------------------------------------
(* Chains of blocks *)

\* The blocks of a non-empty sequence, at both ends.
LEMMA EndsOf ==
  ASSUME NEW bs \in Seq(Block), bs # <<>>
  PROVE  /\ Len(bs) \in Nat /\ Len(bs) > 0
         /\ bs[1] \in Block /\ LastOf(bs) \in Block
         /\ Number[bs[1]] \in Nat /\ Number[LastOf(bs)] \in Nat
<1>1. Len(bs) \in Nat /\ Len(bs) > 0
  BY EmptySeq, LenProperties
<1>2. bs[1] \in Block /\ bs[Len(bs)] \in Block
  BY <1>1, ElementOfSeq
<1> QED
  BY <1>1, <1>2, BlockAssumption DEF LastOf

\* Heights along a chain are consecutive: the header of a block fixes its height
\* from its parent's, which is what rewindToBlock's index arithmetic relies on.
LEMMA ChainHeights ==
  ASSUME NEW bs \in Seq(Block), IsChain(bs), NEW i \in 1 .. Len(bs)
  PROVE  Number[bs[i]] = Number[bs[1]] + i - 1
<1> DEFINE S == {j \in 1 .. Len(bs) : Number[bs[j]] # Number[bs[1]] + j - 1}
<1>1. SUFFICES ASSUME S # {} PROVE FALSE
  OBVIOUS
<1>0. Len(bs) \in Nat /\ \A j \in 1 .. Len(bs) : bs[j] \in Block
  BY LenProperties, ElementOfSeq
<1> DEFINE m == FirstOf(S)
<1>2. m \in S /\ \A j \in S : m <= j
  <2>1. S \in SUBSET Nat
    BY <1>0
  <2> HIDE DEF S
  <2> QED
    BY <1>1, <2>1, FirstOfIsLeast
<1> HIDE DEF m
<1>3. m \in 1 .. Len(bs) /\ m \in Nat /\ bs[m] \in Block /\ bs[1] \in Block
      /\ Number[bs[m]] # Number[bs[1]] + m - 1
  BY <1>0, <1>2
<1>4. m # 1
  BY <1>3, BlockAssumption
<1>5. m - 1 \in 1 .. Len(bs) - 1 /\ m - 1 \in 1 .. Len(bs) /\ (m - 1) + 1 = m
  BY <1>3, <1>4, <1>0
<1>6. m - 1 \notin S
  BY <1>2, <1>3
<1>7. Number[bs[m - 1]] = Number[bs[1]] + (m - 1) - 1 /\ bs[m - 1] \in Block
  BY <1>0, <1>5, <1>6
<1>8. Parent[bs[m]] = bs[m - 1]
  BY <1>5 DEF IsChain
<1>9. Number[bs[m]] = Number[bs[m - 1]] + 1
  BY <1>3, <1>7, <1>8, ChainAssumption
<1>10. Number[bs[m]] \in Nat /\ Number[bs[1]] \in Nat /\ m \in Nat
  BY <1>3, BlockAssumption
<1> QED
  BY <1>3, <1>7, <1>9, <1>10

\* The first block of a chain is its lowest, the last its highest.
LEMMA ChainEnds ==
  ASSUME NEW bs \in Seq(Block), IsChain(bs), bs # <<>>
  PROVE  Number[LastOf(bs)] = Number[bs[1]] + Len(bs) - 1
BY ChainHeights, EndsOf DEF LastOf

\* A segment of a chain is a chain.
LEMMA ChainSubSeq ==
  ASSUME NEW bs \in Seq(Block), IsChain(bs), NEW a \in Nat \ {0}, NEW b \in Nat,
         a <= b + 1, b <= Len(bs)
  PROVE  /\ SubSeq(bs, a, b) \in Seq(Block) /\ IsChain(SubSeq(bs, a, b))
         /\ Len(SubSeq(bs, a, b)) = b - a + 1
         /\ \A i \in 1 .. b - a + 1 : SubSeq(bs, a, b)[i] = bs[a + i - 1]
<1> DEFINE r == SubSeq(bs, a, b)
<1>0. Len(bs) \in Nat
  BY LenProperties
<1>1. \A i \in a .. b : bs[i] \in Block
  BY <1>0, ElementOfSeq
<1>2. /\ r \in Seq(Block) /\ Len(r) = b - a + 1
      /\ \A i \in 1 .. b - a + 1 : r[i] = bs[a + i - 1]
  BY <1>0, <1>1, SubSeqProperties
<1> HIDE DEF r
<1>3. IsChain(r)
  <2> SUFFICES ASSUME NEW i \in 1 .. Len(r) - 1 PROVE Parent[r[i + 1]] = r[i]
    BY DEF IsChain
  <2>1. i \in 1 .. b - a + 1 /\ i + 1 \in 1 .. b - a + 1
    BY <1>2
  <2>2. r[i] = bs[a + i - 1] /\ r[i + 1] = bs[a + (i + 1) - 1]
    BY <1>2, <2>1
  <2>3. a + i - 1 \in 1 .. Len(bs) - 1 /\ a + (i + 1) - 1 = (a + i - 1) + 1
    BY <2>1, <1>0
  <2> QED
    BY <2>2, <2>3 DEF IsChain
<1> QED
  BY <1>2, <1>3 DEF r

\* Two chains that link up make one (AddBlock).
LEMMA ChainConcat ==
  ASSUME NEW xs \in Seq(Block), NEW ys \in Seq(Block), IsChain(xs), IsChain(ys),
         xs # <<>>, ys # <<>>, Parent[ys[1]] = LastOf(xs)
  PROVE  /\ xs \o ys \in Seq(Block) /\ IsChain(xs \o ys) /\ xs \o ys # <<>>
         /\ (xs \o ys)[1] = xs[1] /\ LastOf(xs \o ys) = LastOf(ys)
         /\ Len(xs \o ys) = Len(xs) + Len(ys)
<1> DEFINE r == xs \o ys
           n == Len(xs)
           m == Len(ys)
<1>1. n \in Nat /\ m \in Nat /\ n > 0 /\ m > 0
  BY EndsOf
<1>2. r \in Seq(Block) /\ Len(r) = n + m
      /\ \A i \in 1 .. n + m : r[i] = IF i <= n THEN xs[i] ELSE ys[i - n]
  BY <1>1, ConcatProperties
<1> HIDE DEF r
<1>3. r[1] = xs[1] /\ r[n + m] = ys[m]
  <2>1. 1 \in 1 .. n + m /\ n + m \in 1 .. n + m /\ 1 <= n /\ ~(n + m <= n) /\ (n + m) - n = m
    BY <1>1
  <2> QED
    BY <1>2, <2>1
<1>4. IsChain(r)
  <2> SUFFICES ASSUME NEW i \in 1 .. (n + m) - 1 PROVE Parent[r[i + 1]] = r[i]
    BY <1>2 DEF IsChain
  <2>0. i \in Nat /\ i \in 1 .. n + m /\ i + 1 \in 1 .. n + m
    BY <1>1
  <2>1. CASE i < n
    <3>1. i \in 1 .. n - 1 /\ r[i] = xs[i] /\ r[i + 1] = xs[i + 1]
      BY <2>0, <2>1, <1>1, <1>2
    <3> QED
      BY <3>1 DEF IsChain
  <2>2. CASE i = n
    <3>1. r[i] = xs[n] /\ r[i + 1] = ys[1]
      <4>1. ~(n + 1 <= n) /\ (n + 1) - n = 1
        BY <1>1
      <4> QED
        BY <2>0, <2>2, <1>1, <1>2, <4>1
    <3> QED
      BY <3>1 DEF LastOf
  <2>3. CASE i > n
    <3>1. ~(i <= n) /\ ~(i + 1 <= n) /\ i - n \in 1 .. m - 1 /\ (i + 1) - n = (i - n) + 1
      BY <2>0, <2>3, <1>1
    <3>2. r[i] = ys[i - n] /\ r[i + 1] = ys[(i - n) + 1]
      BY <2>0, <1>2, <3>1
    <3> QED
      BY <3>1, <3>2 DEF IsChain
  <2> QED
    BY <2>0, <2>1, <2>2, <2>3, <1>1
<1>5. r # <<>>
  BY <1>1, <1>2, EmptySeq
<1>6. LastOf(r) = LastOf(ys)
  BY <1>2, <1>3 DEF LastOf
<1> QED
  BY <1>2, <1>3, <1>4, <1>5, <1>6 DEF r

\* A block whose parent is the last one extends a chain (AddL2Block).
LEMMA ChainAppend ==
  ASSUME NEW bs \in Seq(Block), IsChain(bs), NEW b \in Block,
         bs # <<>> => Parent[b] = LastOf(bs)
  PROVE  IsChain(Append(bs, b)) /\ LastOf(Append(bs, b)) = b
<1> DEFINE r == Append(bs, b)
<1>1. /\ Len(bs) \in Nat /\ Len(r) = Len(bs) + 1 /\ r[Len(bs) + 1] = b
      /\ \A i \in 1 .. Len(bs) : r[i] = bs[i]
  BY AppendProperties, LenProperties
<1> HIDE DEF r
<1>2. ASSUME NEW i \in 1 .. Len(r) - 1 PROVE Parent[r[i + 1]] = r[i]
  <2>1. i \in 1 .. Len(bs) /\ r[i] = bs[i]
    BY <1>1
  <2>2. CASE i < Len(bs)
    BY <2>1, <2>2, <1>1 DEF IsChain
  <2>3. CASE i = Len(bs)
    BY <2>1, <2>3, <1>1, EmptySeq DEF LastOf
  <2> QED
    BY <2>1, <2>2, <2>3, <1>1
<1> QED
  BY <1>1, <1>2 DEF IsChain, LastOf, r

\* What grows from each position to the next grows from any to any later one.
LEMMA Monotone ==
  ASSUME NEW n \in Nat, NEW h \in [1 .. n -> Nat], \A i \in 1 .. n - 1 : h[i] <= h[i + 1],
         NEW i \in 1 .. n, NEW j \in 1 .. n, i <= j
  PROVE  h[i] <= h[j]
<1> DEFINE S == {x \in i .. n : ~(h[i] <= h[x])}
<1>0. j \in i .. n
  OBVIOUS
<1>1. SUFFICES ASSUME S # {} PROVE FALSE
  BY <1>0
<1> DEFINE m == FirstOf(S)
<1>2. m \in S /\ \A x \in S : m <= x
  <2>0. S \subseteq i .. n /\ i .. n \subseteq Nat
    OBVIOUS
  <2> HIDE DEF S
  <2>1. S \in SUBSET Nat
    BY <2>0
  <2> QED
    BY <1>1, <2>1, FirstOfIsLeast
<1> HIDE DEF m
<1>3. m \in i .. n /\ ~(h[i] <= h[m])
  BY <1>2
<1>4. m # i
  BY <1>3
<1>5. m - 1 \in i .. n /\ m - 1 \in 1 .. n - 1 /\ (m - 1) + 1 = m /\ m \in 1 .. n
  BY <1>3, <1>4
<1>6. h[i] <= h[m - 1]
  BY <1>2, <1>5
<1>7. h[m - 1] <= h[m]
  BY <1>5
<1>8. h[i] \in Nat /\ h[m - 1] \in Nat /\ h[m] \in Nat
  BY <1>5
<1> QED
  BY <1>3, <1>6, <1>7, <1>8
-----------------------------------------------------------------------------
(* Channels that cover the blocks up to the cursor *)

(***************************************************************************)
(* B[1] .. B[n] are the blocks of the queued channels, bs the blocks held  *)
(* and k the cursor.  Read one after the other, the channels are one       *)
(* gapless segment of the chain that ends before the cursor.  The first of *)
(* them reaches into the blocks held: a channel that lies below them was   *)
(* pruned with them, or rewinding to its successor would strand it.        *)
(***************************************************************************)
Covers(n, B, bs, k) ==
  /\ \A i \in 1 .. n : B[i] \in Seq(Block) /\ B[i] # <<>> /\ IsChain(B[i])
  /\ \A i \in 1 .. n - 1 : Parent[B[i + 1][1]] = LastOf(B[i])
  /\ n = 0 => k = 0
  /\ n > 0 => /\ k > 0
              /\ LastOf(B[n]) = bs[k]
              /\ Number[B[1][1]] <= Number[bs[1]]
              /\ Number[bs[1]] <= Number[LastOf(B[1])]

\* Heights across the queue: a channel starts right above the one before it, so
\* the last blocks of the channels rise, up to the block before the cursor.
LEMMA CoverHeights ==
  ASSUME NEW n \in Nat \ {0}, NEW B, NEW bs \in Seq(Block), NEW k \in 1 .. Len(bs), IsChain(bs),
         Covers(n, B, bs, k)
  PROVE  /\ \A i \in 1 .. n : /\ Number[B[i][1]] \in Nat /\ Number[LastOf(B[i])] \in Nat
                              /\ Number[B[i][1]] <= Number[LastOf(B[i])]
         /\ \A i \in 1 .. n - 1 : Number[B[i + 1][1]] = Number[LastOf(B[i])] + 1
         /\ \A i, j \in 1 .. n : i <= j => Number[LastOf(B[i])] <= Number[LastOf(B[j])]
         /\ Number[LastOf(B[n])] = Number[bs[1]] + k - 1
         /\ Number[bs[1]] \in Nat
<1> DEFINE lo(i) == Number[B[i][1]]
           hi(i) == Number[LastOf(B[i])]
<1>1. \A i \in 1 .. n : /\ B[i][1] \in Block /\ LastOf(B[i]) \in Block
                        /\ lo(i) \in Nat /\ hi(i) \in Nat /\ lo(i) <= hi(i)
  <2> TAKE i \in 1 .. n
  <2>1. B[i] \in Seq(Block) /\ B[i] # <<>> /\ IsChain(B[i])
    BY DEF Covers
  <2>2. /\ Len(B[i]) \in Nat /\ Len(B[i]) > 0
        /\ B[i][1] \in Block /\ LastOf(B[i]) \in Block /\ lo(i) \in Nat /\ hi(i) \in Nat
    BY <2>1, EndsOf
  <2>3. hi(i) = lo(i) + Len(B[i]) - 1
    BY <2>1, ChainEnds
  <2> QED
    BY <2>2, <2>3
<1>2. \A i \in 1 .. n - 1 : lo(i + 1) = hi(i) + 1
  <2> TAKE i \in 1 .. n - 1
  <2>1. i \in 1 .. n /\ i + 1 \in 1 .. n
    OBVIOUS
  <2>2. Parent[B[i + 1][1]] = LastOf(B[i])
    BY DEF Covers
  <2> QED
    BY <1>1, <2>1, <2>2, ChainAssumption
<1> DEFINE h == [i \in 1 .. n |-> hi(i)]
<1>3. h \in [1 .. n -> Nat]
  BY <1>1
<1>4. \A i \in 1 .. n - 1 : h[i] <= h[i + 1]
  <2> TAKE i \in 1 .. n - 1
  <2>1. i \in 1 .. n /\ i + 1 \in 1 .. n
    OBVIOUS
  <2>2. hi(i) \in Nat /\ lo(i + 1) = hi(i) + 1 /\ lo(i + 1) <= hi(i + 1) /\ hi(i + 1) \in Nat
    BY <1>1, <1>2, <2>1
  <2>3. h[i] = hi(i) /\ h[i + 1] = hi(i + 1)
    BY <2>1
  <2> HIDE DEF h, hi, lo
  <2> QED
    BY <2>2, <2>3
<1>5. \A i, j \in 1 .. n : i <= j => hi(i) <= hi(j)
  <2> TAKE i, j \in 1 .. n
  <2> HAVE i <= j
  <2>1. h[i] = hi(i) /\ h[j] = hi(j)
    OBVIOUS
  <2> HIDE DEF h, hi
  <2> QED
    BY <2>1, <1>3, <1>4, Monotone
<1>6. hi(n) = Number[bs[1]] + k - 1 /\ Number[bs[1]] \in Nat
  <2>1. hi(n) = Number[bs[k]]
    BY DEF Covers
  <2>2. Number[bs[k]] = Number[bs[1]] + k - 1
    BY ChainHeights
  <2>3. bs # <<>>
    BY EmptySeq
  <2>4. Number[bs[1]] \in Nat
    BY <2>3, EndsOf
  <2> QED
    BY <2>1, <2>2, <2>4
<1> QED
  BY <1>1, <1>2, <1>5, <1>6

\* rewindToBlock to the first block of channel p, then dropping p and the channels
\* behind it, keeps the rest covered (handleChannelInvalidated).
LEMMA CoverDrop ==
  ASSUME NEW n \in Nat \ {0}, NEW B, NEW bs \in Seq(Block), NEW k \in 1 .. Len(bs), IsChain(bs),
         Covers(n, B, bs, k), NEW p \in 1 .. n, NEW idx \in 0 .. k - 1,
         idx = Number[B[p][1]] - Number[bs[1]], bs[idx + 1] = B[p][1]
  PROVE  Covers(p - 1, B, bs, idx)
<1>1. /\ \A i \in 1 .. n : /\ Number[B[i][1]] \in Nat /\ Number[LastOf(B[i])] \in Nat
                           /\ Number[B[i][1]] <= Number[LastOf(B[i])]
      /\ \A i \in 1 .. n - 1 : Number[B[i + 1][1]] = Number[LastOf(B[i])] + 1
      /\ \A i, j \in 1 .. n : i <= j => Number[LastOf(B[i])] <= Number[LastOf(B[j])]
      /\ Number[bs[1]] \in Nat
  BY CoverHeights
<1>2. Len(bs) \in Nat
  BY LenProperties
<1>3. CASE p = 1
  <2>1. Number[B[1][1]] <= Number[bs[1]]
    BY DEF Covers
  <2>2. idx = 0
    BY <1>1, <1>3, <2>1
  <2> QED
    BY <1>3, <2>2 DEF Covers
<1>4. CASE p > 1
  <2>1. p - 1 \in 1 .. n - 1 /\ p - 1 \in 1 .. n /\ (p - 1) + 1 = p /\ 1 \in 1 .. n /\ 1 <= p - 1
    BY <1>4
  <2>2. Number[B[p][1]] = Number[LastOf(B[p - 1])] + 1
    BY <1>1, <2>1
  <2>3. Number[LastOf(B[1])] <= Number[LastOf(B[p - 1])]
    BY <1>1, <2>1
  <2>4. Number[bs[1]] <= Number[LastOf(B[1])] /\ Number[B[1][1]] <= Number[bs[1]]
    BY DEF Covers
  <2>a. Number[B[p][1]] \in Nat /\ Number[LastOf(B[p - 1])] \in Nat /\ Number[LastOf(B[1])] \in Nat
    BY <1>1, <2>1
  <2>b. Number[bs[1]] \in Nat /\ idx \in Int
    BY <1>1
  <2>5. idx > 0
    <3> DEFINE x == Number[B[p][1]]
               y == Number[LastOf(B[p - 1])]
               z == Number[LastOf(B[1])]
               w == Number[bs[1]]
    <3>1. idx = x - w /\ x = y + 1 /\ z <= y /\ w <= z
      BY <2>2, <2>3, <2>4
    <3>2. x \in Nat /\ y \in Nat /\ z \in Nat /\ w \in Nat
      BY <2>a, <2>b
    <3> HIDE DEF x, y, z, w
    <3> QED
      BY <3>1, <3>2
  <2>6. Parent[B[p][1]] = LastOf(B[p - 1])
    BY <2>1 DEF Covers
  <2>7. Parent[bs[idx + 1]] = bs[idx]
    BY <2>5, <1>2 DEF IsChain
  <2>8. LastOf(B[p - 1]) = bs[idx]
    BY <2>6, <2>7
  <2>9. \A i \in 1 .. p - 1 : B[i] \in Seq(Block) /\ B[i] # <<>> /\ IsChain(B[i])
    BY DEF Covers
  <2>10. \A i \in 1 .. (p - 1) - 1 : Parent[B[i + 1][1]] = LastOf(B[i])
    BY DEF Covers
  <2> QED
    BY <1>4, <2>4, <2>5, <2>8, <2>9, <2>10 DEF Covers
<1> QED
  BY <1>3, <1>4

\* Pruning the blocks up to the safe height and the channels that end at or below
\* it keeps the rest covered (PruneSafeBlocks with PruneChannels).
LEMMA CoverPrune ==
  ASSUME NEW n \in Nat, NEW B, NEW bs \in Seq(Block), NEW k \in 0 .. Len(bs), IsChain(bs),
         bs # <<>>, Covers(n, B, bs, k), NEW safe \in Nat,
         NEW d \in 0 .. Len(bs), d = safe + 1 - Number[bs[1]],
         NEW m \in 0 .. n, \A i \in 1 .. m : Number[LastOf(B[i])] <= safe,
         m < n => Number[LastOf(B[m + 1])] > safe,
         NEW C, \A i \in 1 .. n - m : C[i] = B[m + i]
  PROVE  Covers(n - m, C, SubSeq(bs, d + 1, Len(bs)), IF k > d THEN k - d ELSE 0)
<1> DEFINE r == SubSeq(bs, d + 1, Len(bs))
           c == IF k > d THEN k - d ELSE 0
<1>0. Len(bs) \in Nat /\ Number[bs[1]] \in Nat /\ bs[1] \in Block
  BY EndsOf
<1>1. CASE n = 0
  <2>0. k = 0 /\ m = 0
    BY <1>1 DEF Covers
  <2>1. n - m = 0 /\ c = 0
    BY <1>1, <2>0
  <2> HIDE DEF r, c
  <2> QED
    BY <2>1 DEF Covers, r, c
<1>2. CASE n > 0
  <2>0. k \in 1 .. Len(bs)
    BY <1>2 DEF Covers
  <2>1. /\ \A i \in 1 .. n : /\ Number[B[i][1]] \in Nat /\ Number[LastOf(B[i])] \in Nat
                             /\ Number[B[i][1]] <= Number[LastOf(B[i])]
        /\ \A i \in 1 .. n - 1 : Number[B[i + 1][1]] = Number[LastOf(B[i])] + 1
        /\ \A i, j \in 1 .. n : i <= j => Number[LastOf(B[i])] <= Number[LastOf(B[j])]
        /\ Number[LastOf(B[n])] = Number[bs[1]] + k - 1
    BY <1>2, <2>0, CoverHeights
  <2>2. CASE m = n
    <3>1. Number[LastOf(B[n])] <= safe
      BY <2>2, <1>2
    <3>2. c = 0
      BY <3>1, <2>1, <1>0, <2>0
    <3> HIDE DEF c, r
    <3> QED
      BY <2>2, <3>2 DEF Covers, c, r
  <2>3. CASE m < n
    <3>1. Number[LastOf(B[m + 1])] > safe /\ m + 1 \in 1 .. n /\ n \in 1 .. n /\ m + 1 <= n
      BY <2>3
    <3>2. Number[LastOf(B[m + 1])] <= Number[LastOf(B[n])]
      BY <2>1, <3>1
    <3>a. /\ Len(bs) \in Nat /\ k \in Nat /\ d \in Nat /\ k <= Len(bs)
      BY <1>0, <2>0
    <3>3. k > d
      BY <1>0, <2>0, <2>1, <3>1, <3>2
    <3>4. c = k - d /\ c > 0
      BY <3>3
    <3>5. \A i \in 1 .. Len(bs) - d : r[i] = bs[d + i]
      <4> DEFINE a == d + 1
                 l == Len(bs)
      <4>1. a \in Nat \ {0} /\ a <= l + 1 /\ l \in Nat /\ l <= Len(bs)
        BY <1>0
      <4> HIDE DEF a, l
      <4>2. \A i \in 1 .. l - a + 1 : SubSeq(bs, a, l)[i] = bs[a + i - 1]
        BY <4>1, ChainSubSeq
      <4>3. ASSUME NEW i \in 1 .. Len(bs) - d PROVE r[i] = bs[d + i]
        <5>0. a = d + 1 /\ l = Len(bs) /\ i \in Nat /\ 1 <= i /\ i <= Len(bs) - d
          BY <3>a DEF a, l
        <5>1. i \in 1 .. l - a + 1 /\ a + i - 1 = d + i
          BY <3>a, <5>0
        <5>2. SubSeq(bs, a, l)[i] = bs[d + i]
          BY <4>2, <5>1
        <5> QED
          BY <5>2 DEF a, l
      <4> QED
        BY <4>3
    <3>6. r[1] = bs[d + 1] /\ r[c] = bs[k]
      <4> HIDE DEF c
      <4>1. 1 \in 1 .. Len(bs) - d /\ c \in 1 .. Len(bs) - d /\ d + c = k
        BY <3>3, <3>4, <3>a
      <4> HIDE DEF c, r
      <4> QED
        BY <3>5, <4>1
    <3>7. Number[r[1]] = safe + 1
      <4>1. d + 1 \in 1 .. Len(bs)
        BY <3>3, <2>0, <1>0
      <4>2. Number[bs[d + 1]] = Number[bs[1]] + (d + 1) - 1
        BY <4>1, ChainHeights
      <4>3. r[1] = bs[d + 1]
        BY <3>6
      <4> HIDE DEF r
      <4> QED
        BY <4>2, <4>3, <1>0
    <3> HIDE DEF r, c
    <3>8. \A i \in 1 .. n - m : C[i] \in Seq(Block) /\ C[i] # <<>> /\ IsChain(C[i])
      <4> TAKE i \in 1 .. n - m
      <4>1. m + i \in 1 .. n /\ C[i] = B[m + i]
        OBVIOUS
      <4> QED
        BY <4>1 DEF Covers
    <3>9. \A i \in 1 .. (n - m) - 1 : Parent[C[i + 1][1]] = LastOf(C[i])
      <4> TAKE i \in 1 .. (n - m) - 1
      <4>1. /\ m + i \in 1 .. n - 1 /\ C[i] = B[m + i]
            /\ m + (i + 1) = (m + i) + 1 /\ C[i + 1] = B[m + (i + 1)]
        OBVIOUS
      <4> QED
        BY <4>1 DEF Covers
    <3>10. C[n - m] = B[n] /\ C[1] = B[m + 1]
      <4>1. n - m \in 1 .. n - m /\ m + (n - m) = n /\ 1 \in 1 .. n - m
        BY <2>3
      <4> QED
        BY <4>1
    <3>11. LastOf(C[n - m]) = r[c]
      BY <3>6, <3>10, <1>2 DEF Covers
    <3>12. Number[r[1]] <= Number[LastOf(C[1])]
      BY <3>1, <3>7, <3>10, <2>1
    <3>13. Number[C[1][1]] <= Number[r[1]]
      <4>1. CASE m = 0
        <5>1. Number[C[1][1]] <= Number[bs[1]] /\ Number[C[1][1]] \in Nat
          BY <4>1, <3>10, <3>1, <1>2, <2>1 DEF Covers
        <5> QED
          BY <5>1, <3>7, <1>0
      <4>2. CASE m > 0
        <5>1. m \in 1 .. n - 1 /\ m \in 1 .. n /\ m \in 1 .. m
          BY <4>2, <2>3
        <5>2. Number[B[m + 1][1]] = Number[LastOf(B[m])] + 1 /\ Number[LastOf(B[m])] <= safe
              /\ Number[LastOf(B[m])] \in Nat
          BY <5>1, <2>1
        <5> QED
          BY <5>2, <3>7, <3>10
      <4> QED
        BY <4>1, <4>2
    <3>14. ~(n - m = 0) /\ n - m \in Nat
      BY <2>3
    <3>15. Covers(n - m, C, r, c)
      BY <3>4, <3>8, <3>9, <3>11, <3>12, <3>13, <3>14, Zenon DEF Covers
    <3> QED
      BY <3>15 DEF r, c
  <2> QED
    BY <2>2, <2>3
<1> QED
  BY <1>1, <1>2

\* Arithmetic of positions: the d-th block from height x is no lower than x.
LEMMA NotBelow ==
  ASSUME NEW x \in Nat, NEW d \in Nat, d >= 1, NEW y, y = x + d - 1
  PROVE  x <= y
OBVIOUS

\* The next blocks of the queue, as a piece of chain (processBlocks).
LEMMA NextBlocks ==
  ASSUME NEW bs \in Seq(Block), IsChain(bs), NEW k \in 0 .. Len(bs), NEW j \in 1 .. Len(bs) - k
  PROVE  LET r == SubSeq(bs, k + 1, k + j)
         IN  /\ r \in Seq(Block) /\ r # <<>> /\ IsChain(r)
             /\ r[1] = bs[k + 1] /\ LastOf(r) = bs[k + j]
<1> DEFINE a == k + 1
           b == k + j
           r == SubSeq(bs, a, b)
<1>0. Len(bs) \in Nat /\ k \in Nat /\ j \in Nat
  BY LenProperties
<1>1. a \in Nat \ {0} /\ b \in Nat /\ a <= b + 1 /\ b <= Len(bs) /\ b - a + 1 = j /\ a + j - 1 = b
      /\ a + 1 - 1 = a
  BY <1>0
<1> HIDE DEF a, b
<1>2. /\ r \in Seq(Block) /\ IsChain(r) /\ Len(r) = b - a + 1
      /\ \A i \in 1 .. b - a + 1 : r[i] = bs[a + i - 1]
  BY <1>1, ChainSubSeq
<1> HIDE DEF r
<1>3. r[1] = bs[a] /\ r[j] = bs[b]
  <2>1. 1 \in 1 .. b - a + 1 /\ j \in 1 .. b - a + 1
    BY <1>0, <1>1
  <2>2. r[1] = bs[a + 1 - 1] /\ r[j] = bs[a + j - 1]
    BY <1>2, <2>1
  <2> QED
    BY <1>1, <2>2
<1>4. Len(r) = j /\ r # <<>>
  BY <1>1, <1>2, <1>0, EmptySeq
<1>5. LastOf(r) = bs[b]
  BY <1>3, <1>4 DEF LastOf
<1> QED
  BY <1>2, <1>3, <1>4, <1>5 DEF r, a, b

\* Adding the next blocks to the last channel keeps the cover.
LEMMA CoverExtend ==
  ASSUME NEW n \in Nat \ {0}, NEW B, NEW bs \in Seq(Block), NEW k \in 1 .. Len(bs), IsChain(bs),
         Covers(n, B, bs, k), NEW j \in 0 .. Len(bs) - k,
         NEW C, \A i \in 1 .. n - 1 : C[i] = B[i],
         C[n] = B[n] \o SubSeq(bs, k + 1, k + j)
  PROVE  Covers(n, C, bs, k + j)
<1>0. Len(bs) \in Nat /\ k \in Nat /\ n \in 1 .. n /\ B[n] \in Seq(Block) /\ B[n] # <<>>
      /\ IsChain(B[n])
  BY LenProperties DEF Covers
<1>1. CASE j = 0
  <2>1. SubSeq(bs, k + 1, k + j) = <<>>
    <3>1. Len(SubSeq(bs, k + 1, k + 0)) = 0 /\ SubSeq(bs, k + 1, k + 0) \in Seq(Block)
      <4> DEFINE a == k + 1
                 b == k + 0
      <4>1. a \in Nat /\ b \in Nat /\ ~(a <= b)
        BY <1>0
      <4> HIDE DEF a, b
      <4>2. \A i \in a .. b : bs[i] \in Block
        BY <4>1
      <4>3. SubSeq(bs, a, b) \in Seq(Block) /\ Len(SubSeq(bs, a, b)) = 0
        BY <4>1, <4>2, SubSeqProperties
      <4> QED
        BY <4>3 DEF a, b
    <3> QED
      BY <1>1, <3>1, EmptySeq
  <2>2. C[n] = B[n]
    BY <2>1, <1>0, ConcatEmptySeq
  <2>3. k + j = k
    BY <1>0, <1>1
  <2>4. \A i \in 1 .. n : C[i] = B[i]
    <3> TAKE i \in 1 .. n
    <3>1. i = n \/ i \in 1 .. n - 1
      OBVIOUS
    <3> QED
      BY <2>2, <3>1
  <2>5. \A i \in 1 .. n - 1 : C[i + 1] = B[i + 1] /\ C[i] = B[i]
    BY <2>4
  <2>6. C[1] = B[1] /\ n > 0 /\ ~(n = 0)
    BY <2>4
  <2> QED
    BY <2>2, <2>3, <2>4, <2>5, <2>6 DEF Covers
<1>2. CASE j > 0
  <2> DEFINE r == SubSeq(bs, k + 1, k + j)
  <2>1. /\ r \in Seq(Block) /\ r # <<>> /\ IsChain(r)
        /\ r[1] = bs[k + 1] /\ LastOf(r) = bs[k + j]
    <3>1. k \in 0 .. Len(bs) /\ j \in 1 .. Len(bs) - k
      BY <1>0, <1>2
    <3> QED
      BY <3>1, NextBlocks
  <2>2. Parent[r[1]] = LastOf(B[n])
    <3>1. LastOf(B[n]) = bs[k]
      BY DEF Covers
    <3>2. k \in 1 .. Len(bs) - 1
      BY <1>0, <1>2
    <3> QED
      BY <2>1, <3>1, <3>2 DEF IsChain
  <2>c. C[n] = B[n] \o r
    OBVIOUS
  <2> HIDE DEF r
  <2>3. /\ C[n] \in Seq(Block) /\ IsChain(C[n]) /\ C[n] # <<>>
        /\ C[n][1] = B[n][1] /\ LastOf(C[n]) = bs[k + j]
    <3> DEFINE xs == B[n]
    <3>1. xs \in Seq(Block) /\ xs # <<>> /\ IsChain(xs) /\ Parent[r[1]] = LastOf(xs)
      BY <1>0, <2>2
    <3>2. C[n] = xs \o r
      BY <2>c
    <3> HIDE DEF xs
    <3>3. /\ xs \o r \in Seq(Block) /\ IsChain(xs \o r) /\ xs \o r # <<>>
          /\ (xs \o r)[1] = xs[1] /\ LastOf(xs \o r) = LastOf(r)
      BY <2>1, <3>1, ChainConcat
    <3> QED
      BY <2>1, <3>2, <3>3 DEF xs
  <2>4. \A i \in 1 .. n : /\ C[i] \in Seq(Block) /\ C[i] # <<>> /\ IsChain(C[i])
                          /\ C[i][1] = B[i][1]
                          /\ i < n => C[i] = B[i]
    <3> TAKE i \in 1 .. n
    <3>1. CASE i = n
      <4>1. ~(i < n)
        BY <3>1
      <4> QED
        BY <3>1, <4>1, <2>3
    <3>2. CASE i # n
      <4>1. i \in 1 .. n - 1
        BY <3>2
      <4> QED
        BY <4>1 DEF Covers
    <3> QED
      BY <3>1, <3>2
  <2>5. \A i \in 1 .. n - 1 : Parent[C[i + 1][1]] = LastOf(C[i])
    <3> TAKE i \in 1 .. n - 1
    <3>1. i \in 1 .. n /\ i + 1 \in 1 .. n /\ i < n
      OBVIOUS
    <3>2. C[i + 1][1] = B[i + 1][1] /\ C[i] = B[i]
      BY <2>4, <3>1
    <3> QED
      BY <3>2 DEF Covers
  <2>6. Number[bs[1]] <= Number[LastOf(C[1])]
    <3>1. CASE n = 1
      <4>1. k + j \in 1 .. Len(bs) /\ k + j >= 1 /\ k + j \in Nat
        BY <1>0, <1>2
      <4>2. Number[bs[k + j]] = Number[bs[1]] + (k + j) - 1
        BY <4>1, ChainHeights
      <4>3. bs # <<>>
        BY EmptySeq
      <4>4. Number[bs[1]] \in Nat
        BY <4>3, EndsOf
      <4>5. Number[bs[1]] <= Number[bs[k + j]]
        BY <4>1, <4>2, <4>4, NotBelow
      <4> QED
        BY <3>1, <4>5, <2>3
    <3>2. CASE n > 1
      BY <3>2, <2>4 DEF Covers
    <3> QED
      BY <3>1, <3>2
  <2>7. Number[C[1][1]] <= Number[bs[1]] /\ k + j > 0 /\ n > 0 /\ ~(n = 0)
    BY <1>0, <2>4 DEF Covers
  <2> QED
    BY <2>3, <2>4, <2>5, <2>6, <2>7, Zenon DEF Covers
<1> QED
  BY <1>1, <1>2

\* Putting the next blocks into a new channel at the end keeps the cover.
LEMMA CoverAppend ==
  ASSUME NEW n \in Nat, NEW B, NEW bs \in Seq(Block), NEW k \in 0 .. Len(bs), IsChain(bs),
         Covers(n, B, bs, k), NEW j \in 1 .. Len(bs) - k,
         NEW C, \A i \in 1 .. n : C[i] = B[i],
         C[n + 1] = SubSeq(bs, k + 1, k + j)
  PROVE  Covers(n + 1, C, bs, k + j)
<1>0. Len(bs) \in Nat /\ k \in Nat /\ j \in Nat /\ j > 0
  BY LenProperties
<1>1. /\ C[n + 1] \in Seq(Block) /\ C[n + 1] # <<>> /\ IsChain(C[n + 1])
      /\ C[n + 1][1] = bs[k + 1] /\ LastOf(C[n + 1]) = bs[k + j]
  BY NextBlocks
<1>2. \A i \in 1 .. n + 1 : C[i] \in Seq(Block) /\ C[i] # <<>> /\ IsChain(C[i])
  <2> TAKE i \in 1 .. n + 1
  <2>1. CASE i = n + 1
    BY <2>1, <1>1
  <2>2. CASE i # n + 1
    <3>1. i \in 1 .. n
      BY <2>2
    <3> QED
      BY <3>1 DEF Covers
  <2> QED
    BY <2>1, <2>2
<1>3. \A i \in 1 .. (n + 1) - 1 : Parent[C[i + 1][1]] = LastOf(C[i])
  <2> TAKE i \in 1 .. (n + 1) - 1
  <2>1. CASE i < n
    <3>1. i \in 1 .. n - 1 /\ C[i] = B[i] /\ C[i + 1] = B[i + 1]
      BY <2>1
    <3> QED
      BY <3>1 DEF Covers
  <2>2. CASE i = n
    <3>1. LastOf(C[n]) = bs[k] /\ k > 0
      BY <2>2 DEF Covers
    <3>2. k \in 1 .. Len(bs) - 1
      BY <1>0, <3>1
    <3>3. Parent[bs[k + 1]] = bs[k]
      BY <3>2 DEF IsChain
    <3> QED
      BY <2>2, <3>1, <3>3, <1>1
  <2> QED
    BY <2>1, <2>2
<1>4. Number[C[1][1]] <= Number[bs[1]] /\ Number[bs[1]] <= Number[LastOf(C[1])]
  <2>1. CASE n = 0
    <3>1. k = 0
      BY <2>1 DEF Covers
    <3>2. C[1][1] = bs[1] /\ LastOf(C[1]) = bs[j]
      <4>1. n + 1 = 1 /\ k + 1 = 1 /\ k + j = j
        BY <3>1, <2>1, <1>0
      <4> QED
        BY <4>1, <1>1
    <3>3. j \in 1 .. Len(bs) /\ bs # <<>>
      BY <1>0, <3>1, EmptySeq
    <3>4. Number[bs[j]] = Number[bs[1]] + j - 1
      BY <3>3, ChainHeights
    <3>5. Number[bs[1]] \in Nat
      BY <3>3, EndsOf
    <3>6. Number[bs[1]] <= Number[bs[j]] /\ Number[bs[1]] <= Number[bs[1]]
      <4> DEFINE x == Number[bs[1]]
                 y == Number[bs[j]]
      <4>1. x \in Nat /\ y = x + j - 1
        BY <3>4, <3>5
      <4> HIDE DEF x, y
      <4>2. x <= y /\ x <= x
        BY <1>0, <4>1
      <4> QED
        BY <4>2 DEF x, y
    <3> QED
      BY <3>2, <3>6
  <2>2. CASE n > 0
    <3>1. C[1] = B[1]
      BY <2>2
    <3> QED
      BY <2>2, <3>1 DEF Covers
  <2> QED
    BY <2>1, <2>2
<1>5. k + j > 0 /\ n + 1 > 0 /\ ~(n + 1 = 0)
  BY <1>0
<1> QED
  BY <1>1, <1>2, <1>3, <1>4, <1>5, Zenon DEF Covers

-----------------------------------------------------------------------------
(* Groups of frames *)

\* The first frames of the groups of size M.
Multiples(M) == {j * M : j \in Nat}

(***************************************************************************)
(* Transactions carry whole groups of MaxFramesPerTx frames, and the       *)
(* cursor stands at the start of one; only the last group of a closed      *)
(* channel may be smaller.  Without the alignment a rewound cursor could   *)
(* cut the same frames differently the second time.                        *)
(***************************************************************************)
Aligned(c) ==
  LET M == MaxFramesPerTx(c)
  IN  /\ \A tx \in c.pending \cup c.confirmed :
           /\ tx.first \in Multiples(M)
           /\ \/ tx.last + 1 = tx.first + M
              \/ c.full /\ tx.last + 1 = c.numFrames /\ tx.last < tx.first + M
      /\ c.frameCursor \in Multiples(M) \/ (c.full /\ c.frameCursor = c.numFrames)

\* The next group starts M frames later, and groups do not overlap.
LEMMA GroupsApart ==
  ASSUME NEW M \in Nat \ {0}, NEW x \in Multiples(M)
  PROVE  /\ x \in Nat /\ x + M \in Multiples(M) /\ 0 \in Multiples(M)
         /\ \A y \in Multiples(M) : x < y => x + M <= y
<1>1. PICK j \in Nat : x = j * M
  BY DEF Multiples
<1>2. x \in Nat
  BY <1>1
<1>3. x + M = (j + 1) * M /\ j + 1 \in Nat
  BY <1>1
<1>4. 0 = 0 * M /\ 0 \in Nat
  OBVIOUS
<1>5. ASSUME NEW y \in Multiples(M), x < y PROVE x + M <= y
  <2>1. PICK k \in Nat : y = k * M
    BY DEF Multiples
  <2>2. j < k
    <3>1. SUFFICES ASSUME k <= j PROVE FALSE
      OBVIOUS
    <3>2. PICK d \in Nat : j = k + d
      <4>1. j - k \in Nat /\ j = k + (j - k)
        BY <3>1
      <4> QED
        BY <4>1
    <3>3. j * M = k * M + d * M /\ d * M \in Nat /\ k * M \in Nat
      BY <3>2
    <3> QED
      BY <1>1, <1>5, <2>1, <3>3
  <2>3. PICK d \in Nat : k = (j + 1) + d
    <3>1. k - (j + 1) \in Nat /\ k = (j + 1) + (k - (j + 1))
      BY <2>2
    <3> QED
      BY <3>1
  <2>4. k * M = (j + 1) * M + d * M /\ d * M \in Nat /\ (j + 1) * M \in Nat
    BY <2>3
  <2> QED
    BY <1>3, <2>1, <2>4
<1> QED
  BY <1>2, <1>3, <1>4, <1>5 DEF Multiples

\* The number of frames a transaction may carry.
LEMMA GroupSize ==
  ASSUME NEW c
  PROVE  MaxFramesPerTx(c) \in Nat \ {0} /\ 0 \in Multiples(MaxFramesPerTx(c))
<1>1. MaxFramesPerTx(c) \in Nat \ {0}
  BY ConfigAssumption DEF MaxFramesPerTx
<1>2. 0 = 0 * MaxFramesPerTx(c)
  BY <1>1
<1> QED
  BY <1>1, <1>2 DEF Multiples

\* A channel that nothing was sent from is aligned (newChannel).
LEMMA AlignedUnsent ==
  ASSUME NEW c, c.pending = {}, c.confirmed = {}, c.frameCursor = 0
  PROVE  Aligned(c)
BY GroupSize DEF Aligned

\* Filling an open channel, closing it and cutting frames from it keep the groups.
LEMMA AlignedFill ==
  ASSUME NEW c, Aligned(c), ~c.full, NEW d, SameTxs(d, c)
  PROVE  Aligned(d)
<1>1. MaxFramesPerTx(d) = MaxFramesPerTx(c)
  BY DEF MaxFramesPerTx, SameTxs
<1> QED
  BY <1>1 DEF Aligned, SameTxs

\* The frames handed out next are a group (NextTxData after HasTxData).
LEMMA AlignedNextTx ==
  ASSUME NEW id \in ChannelID, NEW c, ChannelInv(id, c), Aligned(c), HasTxData(c)
  PROVE  Aligned(NextTxData(id, c))
<1> DEFINE M == MaxFramesPerTx(c)
           tx == NextTx(id, c)
           d == NextTxData(id, c)
           f == c.frameCursor
           n == c.numFrames
<1>1. M \in Nat \ {0} /\ f \in Nat /\ n \in Nat
  BY GroupSize DEF ChannelInv, ChannelCore, Channel
<1>2. f < n
  BY <1>1 DEF HasTxData, PendingFrames
<1>3. f \in Multiples(M)
  <2>1. f # n
    BY <1>1, <1>2
  <2> QED
    BY <2>1 DEF Aligned
<1>4. c.full \/ f + M <= n
  <2>1. CASE c.useBlobs
    BY <2>1, <1>1 DEF HasTxData, PendingFrames
  <2>2. CASE ~c.useBlobs
    <3>1. M = 1
      BY <2>2 DEF MaxFramesPerTx
    <3> QED
      BY <3>1, <1>1, <1>2
  <2> QED
    BY <2>1, <2>2
<1>5. tx = [ch |-> id, first |-> f, last |-> (IF f + M < n THEN f + M ELSE n) - 1]
  BY DEF NextTx
<1>6. d = [c EXCEPT !.frameCursor = tx.last + 1, !.pending = @ \cup {tx}]
  BY DEF NextTxData
<1> HIDE DEF tx, d
<1>7. /\ d.frameCursor = tx.last + 1 /\ d.pending = c.pending \cup {tx}
      /\ d.confirmed = c.confirmed /\ d.numFrames = n /\ d.full = c.full
      /\ d.useBlobs = c.useBlobs
  BY <1>6 DEF ChannelInv, ChannelCore, Channel
<1>8. MaxFramesPerTx(d) = M
  BY <1>7 DEF MaxFramesPerTx
<1>9. tx.first = f /\ tx.last = (IF f + M < n THEN f + M ELSE n) - 1
  BY <1>5
<1> HIDE DEF f, n, M
<1>10. \/ tx.last + 1 = f + M
       \/ c.full /\ tx.last + 1 = n /\ tx.last < f + M
  BY <1>1, <1>4, <1>9
<1>11. f + M \in Multiples(M)
  BY <1>1, <1>3, GroupsApart
<1>12. ASSUME NEW t \in d.pending \cup d.confirmed
       PROVE  /\ t.first \in Multiples(M)
              /\ \/ t.last + 1 = t.first + M
                 \/ d.full /\ t.last + 1 = d.numFrames /\ t.last < t.first + M
  <2>1. CASE t = tx
    BY <2>1, <1>3, <1>7, <1>9, <1>10
  <2>2. CASE t \in c.pending \cup c.confirmed
    BY <2>2, <1>7 DEF Aligned, M, n
  <2> QED
    BY <2>1, <2>2, <1>7
<1>13. d.frameCursor \in Multiples(M) \/ (d.full /\ d.frameCursor = d.numFrames)
  BY <1>7, <1>10, <1>11
<1>14. Aligned(d)
  BY <1>8, <1>12, <1>13 DEF Aligned
<1> QED
  BY <1>14 DEF d

\* A failed transaction takes the cursor back to the start of its group.
LEMMA AlignedFailed ==
  ASSUME NEW id, NEW c, ChannelInv(id, c), Aligned(c), NEW tx
  PROVE  Aligned(ChannelTxFailed(c, tx))
<1>1. CASE tx \notin c.pending
  BY <1>1 DEF ChannelTxFailed
<1>2. CASE tx \in c.pending
  <2> DEFINE d == ChannelTxFailed(c, tx)
  <2>1. /\ d.pending = c.pending \ {tx} /\ d.confirmed = c.confirmed
        /\ d.numFrames = c.numFrames /\ d.full = c.full /\ d.useBlobs = c.useBlobs
        /\ d.frameCursor \in {c.frameCursor, tx.first}
    BY <1>2 DEF ChannelTxFailed, ChannelInv, ChannelCore, Channel
  <2>2. MaxFramesPerTx(d) = MaxFramesPerTx(c)
    BY <2>1 DEF MaxFramesPerTx
  <2> HIDE DEF d
  <2>3. Aligned(d)
    BY <1>2, <2>1, <2>2 DEF Aligned
  <2> QED
    BY <2>3 DEF d
<1> QED
  BY <1>1, <1>2

\* Confirming moves a transaction from one book to the other.
LEMMA AlignedConfirmed ==
  ASSUME NEW id, NEW c, ChannelInv(id, c), Aligned(c), NEW tx, NEW l1
  PROVE  Aligned(ChannelTxConfirmed(c, tx, l1))
<1>1. CASE tx \notin c.pending
  BY <1>1 DEF ChannelTxConfirmed
<1>2. CASE tx \in c.pending
  <2> DEFINE d == ChannelTxConfirmed(c, tx, l1)
  <2>1. /\ d.pending = c.pending \ {tx} /\ d.confirmed = c.confirmed \cup {tx}
        /\ d.numFrames = c.numFrames /\ d.full = c.full /\ d.useBlobs = c.useBlobs
        /\ d.frameCursor = c.frameCursor
    BY <1>2 DEF ChannelTxConfirmed, ChannelInv, ChannelCore, Channel
  <2>2. MaxFramesPerTx(d) = MaxFramesPerTx(c) /\ d.pending \cup d.confirmed = c.pending \cup c.confirmed
    BY <1>2, <2>1 DEF MaxFramesPerTx
  <2> HIDE DEF d
  <2>3. Aligned(d)
    BY <2>1, <2>2 DEF Aligned
  <2> QED
    BY <2>3 DEF d
<1> QED
  BY <1>1, <1>2

\* Aligned transactions are the same or share no frame.
LEMMA AlignedDisjoint ==
  ASSUME NEW id, NEW c, ChannelInv(id, c), Aligned(c),
         NEW t \in c.pending \cup c.confirmed, NEW u \in c.pending \cup c.confirmed, t # u
  PROVE  t.last < u.first \/ u.last < t.first
<1> DEFINE M == MaxFramesPerTx(c)
           n == c.numFrames
           Good(x) == /\ x.first \in Multiples(M)
                      /\ \/ x.last + 1 = x.first + M
                         \/ x.last + 1 = n /\ x.last < x.first + M
<1>1. M \in Nat \ {0} /\ n \in Nat
  BY GroupSize DEF ChannelInv, ChannelCore, Channel
<1>2. t \in TxID /\ u \in TxID /\ t.ch = id /\ u.ch = id /\ t.last < n /\ u.last < n
  BY DEF ChannelInv, ChannelCore, Channel
<1>3. Good(t) /\ Good(u)
  BY DEF Aligned
<1>4. t.first \in Nat /\ t.last \in Nat /\ u.first \in Nat /\ u.last \in Nat
  BY <1>2 DEF TxID
<1> HIDE DEF M, n
<1>5. CASE t.first < u.first
  <2>1. t.first + M <= u.first
    BY <1>1, <1>3, <1>5, GroupsApart
  <2> QED
    BY <2>1, <1>1, <1>3, <1>4
<1>6. CASE u.first < t.first
  <2>1. u.first + M <= t.first
    BY <1>1, <1>3, <1>6, GroupsApart
  <2> QED
    BY <2>1, <1>1, <1>3, <1>4
<1>7. CASE t.first = u.first
  <2>1. t.last = u.last
    BY <1>1, <1>2, <1>3, <1>4, <1>7
  <2>2. t = u
    BY <1>2, <1>7, <2>1 DEF TxID
  <2> QED
    BY <2>2
<1> QED
  BY <1>4, <1>5, <1>6, <1>7

-----------------------------------------------------------------------------
(* The manager *)

\* The blocks of the queued channels, in the order of the queue.
QueuedBlocks(s) == [i \in DOMAIN s.channelQueue |-> s.chan[s.channelQueue[i]].blocks]

\* The channel begins below every block that is held or may be loaded next.
Behind(s, id) ==
  LET first == Number[s.chan[id].blocks[1]]
  IN  IF s.blocks = <<>> THEN s.tip # NoBlock /\ first <= Number[s.tip]
                         ELSE first < Number[s.blocks[1]]

(***************************************************************************)
(* The blocks held are a chain that ends at the tip, the queued channels   *)
(* cover them up to the cursor, the current channel is the newest of them, *)
(* and a channel that left the queue while receipts for it are still due   *)
(* lies behind: an invalidation of it cannot rewind the cursor.            *)
(***************************************************************************)
SegmentInv(s) ==
  /\ IsChain(s.blocks)
  /\ s.blocks # <<>> => s.tip = LastOf(s.blocks)
  /\ Covers(Len(s.channelQueue), QueuedBlocks(s), s.blocks, s.blockCursor)
  /\ s.currentChannel # NoChannel =>
       s.channelQueue # <<>> /\ s.currentChannel = LastOf(s.channelQueue)
  /\ \A tx \in s.txChannels : tx.ch \in Queued(s) \/ Behind(s, tx.ch)

ContentsInv(s) ==
  /\ BooksInv(s)
  /\ SegmentInv(s)
  /\ \A id \in ChannelID : Aligned(s.chan[id])

\* No call changes the contents of a closed channel.
Keeps(s, t) ==
  \A id \in ChannelID :
    s.chan[id].full => /\ t.chan[id].full
                       /\ t.chan[id].blocks = s.chan[id].blocks
                       /\ t.chan[id].numFrames = s.chan[id].numFrames

LEMMA KeepsTransitive ==
  ASSUME NEW s, NEW t, NEW u, Keeps(s, t), Keeps(t, u)
  PROVE  Keeps(s, u)
BY DEF Keeps

\* The types and ranges that the lemmas below need again and again.
LEMMA BooksTypes ==
  ASSUME NEW s, BooksInv(s)
  PROVE  /\ s \in Manager /\ s.blocks \in Seq(Block) /\ s.tip \in Block \cup {NoBlock}
         /\ Len(s.blocks) \in Nat /\ s.blockCursor \in 0 .. Len(s.blocks)
         /\ s.channelQueue \in Seq(ChannelID) /\ Len(s.channelQueue) \in Nat
         /\ DOMAIN s.channelQueue = 1 .. Len(s.channelQueue)
         /\ \A i \in 1 .. Len(s.channelQueue) : s.channelQueue[i] \in ChannelID
         /\ s.chan \in [ChannelID -> Channel] /\ s.txChannels \in SUBSET TxID
         /\ \A tx \in s.txChannels : tx.ch \in ChannelID
         /\ s.currentChannel \in ChannelID \cup {NoChannel}
BY LenProperties, ElementOfSeq DEF BooksInv, Manager, TxID

\* What the queued blocks are, position by position.
LEMMA QueuedBlocksAt ==
  ASSUME NEW s, BooksInv(s), NEW i \in 1 .. Len(s.channelQueue)
  PROVE  QueuedBlocks(s)[i] = s.chan[s.channelQueue[i]].blocks
BY BooksTypes DEF QueuedBlocks

\* A call that neither moves blocks nor changes the queue keeps the segments.
LEMMA SegmentSame ==
  ASSUME NEW s, BooksInv(s), SegmentInv(s), NEW t,
         t.blocks = s.blocks, t.blockCursor = s.blockCursor, t.tip = s.tip,
         t.channelQueue = s.channelQueue, t.currentChannel = s.currentChannel,
         \A id \in ChannelID : t.chan[id].blocks = s.chan[id].blocks,
         t.txChannels \in SUBSET TxID,
         \A tx \in t.txChannels : tx \in s.txChannels \/ tx.ch \in Queued(s)
  PROVE  SegmentInv(t)
<1>1. QueuedBlocks(t) = QueuedBlocks(s)
  BY BooksTypes DEF QueuedBlocks
<1>2. Queued(t) = Queued(s)
  BY DEF Queued
<1>3. \A tx \in t.txChannels : tx.ch \in Queued(t) \/ Behind(t, tx.ch)
  <2> TAKE tx \in t.txChannels
  <2>1. tx.ch \in ChannelID
    BY DEF TxID
  <2>2. Behind(s, tx.ch) => Behind(t, tx.ch)
    BY <2>1 DEF Behind
  <2> QED
    BY <1>2, <2>2 DEF SegmentInv
<1> QED
  BY <1>1, <1>3 DEF SegmentInv

\* A panic changes nothing but the panic.
LEMMA PanicContents ==
  ASSUME NEW s, ContentsInv(s), NEW why \in PanicReason
  PROVE  ContentsInv(Panic(s, why)) /\ Keeps(s, Panic(s, why))
<1> DEFINE t == Panic(s, why)
<1>1. /\ t.blocks = s.blocks /\ t.blockCursor = s.blockCursor /\ t.tip = s.tip
      /\ t.currentChannel = s.currentChannel /\ t.channelQueue = s.channelQueue
      /\ t.txChannels = s.txChannels /\ t.chan = s.chan
  BY DEF ContentsInv, BooksInv, Manager, Panic
<1>2. BooksInv(t)
  BY PanicBooks DEF ContentsInv
<1> HIDE DEF t
<1>3. SegmentInv(t)
  BY <1>1, SegmentSame, BooksTypes DEF ContentsInv
<1> QED
  BY <1>1, <1>2, <1>3 DEF ContentsInv, Keeps, t

\* Replacing the channel id by one with the same blocks keeps the segments.
LEMMA SegmentUpdateChannel ==
  ASSUME NEW s, BooksInv(s), SegmentInv(s), NEW id \in ChannelID, NEW c \in Channel,
         c.blocks = s.chan[id].blocks
  PROVE  SegmentInv([s EXCEPT !.chan[id] = c])
<1> DEFINE t == [s EXCEPT !.chan[id] = c]
<1>1. /\ t.blocks = s.blocks /\ t.blockCursor = s.blockCursor /\ t.tip = s.tip
      /\ t.channelQueue = s.channelQueue /\ t.currentChannel = s.currentChannel
      /\ t.txChannels = s.txChannels /\ t.chan = [s.chan EXCEPT ![id] = c]
  BY BooksTypes DEF Manager
<1> HIDE DEF t
<1>2. \A x \in ChannelID : t.chan[x].blocks = s.chan[x].blocks
  BY <1>1, BooksTypes
<1> QED
  BY <1>1, <1>2, BooksTypes, SegmentSame DEF t

\* Building the current channel further, or a new one at the end of the queue, keeps
\* the segments: the blocks added are the ones behind the cursor.
LEMMA FillSegment ==
  ASSUME NEW s, BooksInv(s), SegmentInv(s), NEW u, BooksInv(u),
         NEW id \in ChannelID, NEW k \in 0 .. PendingBlocks(s), NEW q, NEW base \in Channel,
         Filled(s, u, id, k, q, base)
  PROVE  SegmentInv(u) /\ id \in Queued(u) /\ u.currentChannel = id
<1> DEFINE n == Len(s.channelQueue)
           B == QueuedBlocks(s)
           C == QueuedBlocks(u)
           bs == s.blocks
           j == s.blockCursor
           add == SubSeq(bs, j + 1, j + k)
<1>1. /\ u.blocks = bs /\ u.tip = s.tip /\ u.txChannels = s.txChannels
      /\ \A x \in ChannelID \ {id} : u.chan[x] = s.chan[x]
      /\ u.currentChannel = id /\ u.channelQueue = q /\ u.blockCursor = j + k
      /\ u.chan[id].blocks = base.blocks \o add
  BY DEF Filled, OutsideChannel
<1>2. /\ bs \in Seq(Block) /\ Len(bs) \in Nat /\ j \in 0 .. Len(bs) /\ n \in Nat
      /\ s.channelQueue \in Seq(ChannelID) /\ DOMAIN s.channelQueue = 1 .. n
      /\ \A i \in 1 .. n : s.channelQueue[i] \in ChannelID
      /\ k \in 0 .. Len(bs) - j
  BY BooksTypes DEF PendingBlocks
<1>3. IsChain(bs) /\ Covers(n, B, bs, j)
  BY DEF SegmentInv
<1>4. \A i \in 1 .. Len(u.channelQueue) : C[i] = u.chan[u.channelQueue[i]].blocks
  BY QueuedBlocksAt
<1>5. \A i \in 1 .. n : B[i] = s.chan[s.channelQueue[i]].blocks
  BY QueuedBlocksAt
<1> HIDE DEF B, C, add
<1>6. ASSUME Covers(Len(u.channelQueue), C, bs, j + k), q # <<>>, LastOf(q) = id, id \in Queued(u),
             Queued(s) \subseteq Queued(u)
      PROVE  SegmentInv(u) /\ id \in Queued(u) /\ u.currentChannel = id
  <2>1. \A tx \in u.txChannels : tx.ch \in Queued(u) \/ Behind(u, tx.ch)
    <3> TAKE tx \in u.txChannels
    <3>1. CASE tx.ch = id
      BY <3>1, <1>6
    <3>2. CASE tx.ch # id
      <4>1. tx.ch \in ChannelID /\ u.chan[tx.ch] = s.chan[tx.ch]
        BY <1>1, <3>2, BooksTypes
      <4>2. tx.ch \in Queued(s) \/ Behind(s, tx.ch)
        BY <1>1 DEF SegmentInv
      <4>3. Behind(s, tx.ch) => Behind(u, tx.ch)
        BY <1>1, <4>1 DEF Behind
      <4> QED
        BY <4>2, <4>3, <1>6
    <3> QED
      BY <3>1, <3>2
  <2>2. IsChain(u.blocks) /\ (u.blocks # <<>> => u.tip = LastOf(u.blocks))
    BY <1>1 DEF SegmentInv
  <2>3. Covers(Len(u.channelQueue), QueuedBlocks(u), u.blocks, u.blockCursor)
    BY <1>1, <1>6 DEF C
  <2> QED
    BY <1>1, <1>6, <2>1, <2>2, <2>3 DEF SegmentInv
<1>7. CASE id = s.currentChannel /\ q = s.channelQueue /\ base = s.chan[id]
  <2>0. q # <<>> /\ id = LastOf(q) /\ n > 0 /\ id = q[n]
    <3>1. id # NoChannel
      BY ChainAssumption
    <3>2. q # <<>> /\ id = LastOf(q)
      BY <1>7, <3>1 DEF SegmentInv
    <3> QED
      BY <1>2, <1>7, <3>2, EmptySeq DEF LastOf
  <2>1. j \in 1 .. Len(bs)
    BY <1>2, <1>3, <2>0 DEF Covers
  <2>2. \A i \in 1 .. n - 1 : C[i] = B[i]
    <3> TAKE i \in 1 .. n - 1
    <3>1. i \in DOMAIN s.channelQueue /\ n \in DOMAIN s.channelQueue /\ i # n /\ i \in 1 .. n
      BY <1>2
    <3>2. q[i] # id
      BY <1>7, <2>0, <3>1 DEF BooksInv, Distinct
    <3>3. q[i] \in ChannelID
      BY <1>2, <1>7, <3>1
    <3> QED
      BY <1>1, <1>4, <1>5, <1>7, <3>1, <3>2, <3>3
  <2>3. C[n] = B[n] \o add
    <3>1. n \in 1 .. n
      BY <1>2, <2>0
    <3> QED
      BY <1>1, <1>4, <1>5, <1>7, <2>0, <3>1
  <2>4. Covers(n, C, bs, j + k)
    <3>1. C[n] = B[n] \o SubSeq(bs, j + 1, j + k)
      BY <2>3 DEF add
    <3>2. n \in Nat \ {0}
      BY <1>2, <2>0
    <3> HIDE DEF n, bs, j
    <3> QED
      BY <1>2, <1>3, <2>1, <2>2, <3>1, <3>2, CoverExtend
  <2>5. Queued(u) = Queued(s) /\ id \in Queued(u)
    <3>0. u.channelQueue = s.channelQueue
      BY <1>1, <1>7
    <3>1. n \in 1 .. n
      BY <1>2, <2>0
    <3>2. n \in DOMAIN u.channelQueue /\ u.channelQueue[n] = id
      BY <1>2, <1>7, <2>0, <3>0, <3>1
    <3> QED
      BY <3>0, <3>2 DEF Queued
  <2>6. Len(u.channelQueue) = n
    BY <1>1, <1>7
  <2> QED
    BY <1>6, <2>0, <2>4, <2>5, <2>6
<1>8. CASE /\ s.chan[id].blocks = <<>> /\ q = Append(s.channelQueue, id)
           /\ base = NewChannel(s.useBlobs, s.l1OriginLast)
  <2>1. base.blocks = <<>>
    BY <1>8 DEF NewChannel
  <2>2. k \in 1 .. Len(bs) - j
    <3>1. Len(base.blocks) = 0
      BY <2>1, EmptySeq
    <3>2. k + Len(base.blocks) > 0
      BY DEF Filled
    <3> QED
      BY <1>2, <3>1, <3>2
  <2>3. u.chan[id].blocks = add
    <3>1. add \in Seq(Block)
      BY <1>2, <1>3, <2>2, NextBlocks DEF add
    <3> QED
      BY <1>1, <2>1, <3>1, ConcatEmptySeq
  <2>4. /\ Len(q) = n + 1 /\ q[n + 1] = id /\ \A i \in 1 .. n : q[i] = s.channelQueue[i]
        /\ DOMAIN q = 1 .. n + 1
    BY <1>2, <1>8, AppendProperties, LenProperties
  <2>5. \A i \in 1 .. n : C[i] = B[i]
    <3> TAKE i \in 1 .. n
    <3>1. i \in 1 .. n + 1 /\ i \in DOMAIN s.channelQueue
      BY <1>2
    <3>2. q[i] \in ChannelID /\ q[i] = s.channelQueue[i]
      BY <1>2, <2>4
    <3>3. q[i] # id
      BY <1>8, <3>1, <3>2 DEF BooksInv
    <3> QED
      BY <1>1, <1>4, <1>5, <2>4, <3>1, <3>2, <3>3
  <2>6. C[n + 1] = add
    <3>1. n + 1 \in 1 .. n + 1
      BY <1>2
    <3> QED
      BY <1>1, <1>4, <2>3, <2>4, <3>1
  <2>7. Covers(n + 1, C, bs, j + k)
    <3>1. C[n + 1] = SubSeq(bs, j + 1, j + k)
      BY <2>6 DEF add
    <3> HIDE DEF n, bs, j
    <3> QED
      BY <1>2, <1>3, <2>2, <2>5, <3>1, CoverAppend
  <2>8. Queued(s) \subseteq Queued(u) /\ id \in Queued(u)
    <3>1. n + 1 \in DOMAIN q /\ \A i \in DOMAIN s.channelQueue : i \in DOMAIN q /\ q[i] = s.channelQueue[i]
      BY <1>2, <2>4
    <3> QED
      BY <1>1, <2>4, <3>1 DEF Queued
  <2>9. q # <<>> /\ LastOf(q) = id
    <3>1. n + 1 > 0
      BY <1>2
    <3> QED
      BY <2>4, <3>1, EmptySeq DEF LastOf
  <2> QED
    BY <1>1, <1>6, <2>4, <2>7, <2>8, <2>9
<1> QED
  BY <1>7, <1>8 DEF Filled

\* The building half of getReadyChannel.
LEMMA FillContents ==
  ASSUME NEW s, ContentsInv(s), s.blockCursor < Len(s.blocks),
         NEW l1Head \in Nat, NEW pi \in PubInfo, NEW u \in FillCurrentChannel(s, l1Head, pi)
  PROVE  ContentsInv(u) /\ Keeps(s, u) /\ u.currentChannel \in Queued(u)
<1>0. BooksInv(s) /\ SegmentInv(s) /\ \A id \in ChannelID : Aligned(s.chan[id])
  BY DEF ContentsInv
<1>1. PICK id \in ChannelID, k \in 0 .. PendingBlocks(s), q \in Seq(ChannelID), base \in Channel :
        Filled(s, u, id, k, q, base)
  BY <1>0, FillShape
<1>2. BooksInv(u)
  BY <1>0, FillInv
<1>3. SegmentInv(u) /\ u.currentChannel \in Queued(u)
  BY <1>0, <1>1, <1>2, FillSegment
<1>4. /\ \A x \in ChannelID \ {id} : u.chan[x] = s.chan[x]
      /\ SameTxs(u.chan[id], base) /\ ~base.full
  BY <1>1 DEF Filled, OutsideChannel
<1>5. Aligned(base) /\ ~s.chan[id].full
  <2>1. CASE base = s.chan[id]
    BY <1>0, <1>4, <2>1
  <2>2. CASE s.chan[id].blocks = <<>> /\ base = NewChannel(s.useBlobs, s.l1OriginLast)
    <3>1. Aligned(base)
      <4>1. base.pending = {} /\ base.confirmed = {} /\ base.frameCursor = 0
        BY <2>2 DEF NewChannel
      <4> QED
        BY <4>1, AlignedUnsent
    <3>2. ~s.chan[id].full
      BY <1>0, <2>2 DEF BooksInv, ChannelInv
    <3> QED
      BY <3>1, <3>2
  <2> QED
    BY <1>1, <2>1, <2>2 DEF Filled
<1>6. Aligned(u.chan[id])
  BY <1>4, <1>5, AlignedFill
<1>7. \A x \in ChannelID : Aligned(u.chan[x])
  BY <1>0, <1>4, <1>6
<1>8. Keeps(s, u)
  BY <1>4, <1>5 DEF Keeps
<1> QED
  BY <1>2, <1>3, <1>7, <1>8 DEF ContentsInv

\* A forced publication closes the current channel only while it has no frames.
LEMMA ForceCloseContents ==
  ASSUME NEW s, ContentsInv(s), NEW pi \in PubInfo,
         pi.forcePublish => s.currentChannel # NoChannel, NEW t \in ForceClose(s, pi)
  PROVE  ContentsInv(t) /\ Keeps(s, t)
<1> DEFINE id == s.currentChannel
           c == [s.chan[id] EXCEPT !.full = TRUE]
<1>0. BooksInv(s) /\ SegmentInv(s) /\ \A x \in ChannelID : Aligned(s.chan[x])
  BY DEF ContentsInv
<1>1. CASE ~(pi.forcePublish /\ s.chan[id].numFrames = 0)
  BY <1>1 DEF ForceClose, Keeps
<1>2. CASE pi.forcePublish /\ s.chan[id].numFrames = 0
  <2>1. id \in ChannelID /\ s.chan[id].blocks # <<>> /\ ChannelInv(id, s.chan[id])
    BY <1>0, <1>2, BooksTypes DEF BooksInv
  <2>2. /\ ChannelCore(id, c) /\ c.blocks = s.chan[id].blocks
        /\ SameTxs(c, s.chan[id])
    <3>1. /\ s.chan[id] \in Channel /\ s.chan[id].numFrames \in Nat
          /\ ChannelCore(id, s.chan[id])
      BY <2>1 DEF ChannelInv, ChannelCore, Channel
    <3>2. /\ c \in Channel /\ c.blocks = s.chan[id].blocks /\ c.numFrames = s.chan[id].numFrames
          /\ c.frameCursor = s.chan[id].frameCursor /\ c.useBlobs = s.chan[id].useBlobs
          /\ c.pending = s.chan[id].pending /\ c.confirmed = s.chan[id].confirmed
      BY <3>1 DEF Channel
    <3> HIDE DEF c
    <3>3. ChannelCore(id, c)
      BY <3>1, <3>2 DEF ChannelCore
    <3> QED
      BY <3>1, <3>2, <3>3 DEF SameTxs
  <2>3. PICK d \in OutputFrames(c) : t = [s EXCEPT !.chan[id] = d]
    BY <1>2, Zenon DEF ForceClose, WithCurrent
  <2>4. ~s.chan[id].full
    BY <1>2, <2>1 DEF ChannelInv
  <2> HIDE DEF id, c
  <2>5. /\ ChannelInv(id, d) /\ d.blocks = c.blocks
        /\ d.pending = c.pending /\ d.confirmed = c.confirmed /\ d.useBlobs = c.useBlobs
        /\ d.numFrames >= c.numFrames /\ d.frameCursor = c.frameCursor
    BY <2>1, <2>2, OutputFramesInv
  <2>6. SameTxs(d, s.chan[id]) /\ d \in Channel
    <3>1. d.numFrames \in Nat /\ c.numFrames \in Nat /\ s.chan[id].numFrames \in Nat /\ d \in Channel
      BY <2>1, <2>2, <2>5 DEF ChannelInv, ChannelCore, Channel
    <3> QED
      BY <2>2, <2>5, <3>1 DEF SameTxs
  <2>7. Aligned(d)
    BY <1>0, <2>1, <2>4, <2>6, AlignedFill
  <2>8. BooksInv(t)
    BY <1>0, <2>1, <2>2, <2>3, <2>5, <2>6, BooksUpdateChannel DEF SameTxs
  <2>9. SegmentInv(t)
    BY <1>0, <2>1, <2>2, <2>3, <2>5, <2>6, SegmentUpdateChannel
  <2>10. \A x \in ChannelID : t.chan[x] = IF x = id THEN d ELSE s.chan[x]
    BY <1>0, <2>3, BooksTypes DEF Manager
  <2>11. \A x \in ChannelID : Aligned(t.chan[x])
    BY <1>0, <2>7, <2>10
  <2>12. Keeps(s, t)
    BY <2>4, <2>10 DEF Keeps
  <2> QED
    BY <2>8, <2>9, <2>11, <2>12 DEF ContentsInv
<1> QED
  BY <1>1, <1>2

\* Cover speaks of the positions 1 .. n only.
LEMMA CoverSame ==
  ASSUME NEW n \in Nat, NEW B, NEW bs, NEW k, Covers(n, B, bs, k),
         NEW C, \A i \in 1 .. n : C[i] = B[i]
  PROVE  Covers(n, C, bs, k)
<1>1. \A i \in 1 .. n - 1 : i \in 1 .. n /\ i + 1 \in 1 .. n
  OBVIOUS
<1>2. n > 0 => 1 \in 1 .. n /\ n \in 1 .. n
  OBVIOUS
<1> QED
  BY <1>1, <1>2 DEF Covers

\* Arithmetic of positions: what lies before position p of n.
LEMMA Positions ==
  ASSUME NEW n \in Nat, NEW p \in Nat \ {0}, p <= n
  PROVE  /\ n \in Nat \ {0} /\ p \in 1 .. n
         /\ p - 1 \in Nat /\ p - 1 <= n /\ (p - 1) + 1 = p
         /\ \A i \in 1 .. n : i \in 1 .. p - 1 \/ i \in p .. n
         /\ \A i \in 1 .. p - 1 : i \in 1 .. n
OBVIOUS

\* A cursor that is not at the start.
LEMMA BeforeCursor ==
  ASSUME NEW l \in Nat, NEW k \in 0 .. l, NEW idx \in Nat, idx < k
  PROVE  k \in 1 .. l /\ idx \in 0 .. k - 1
OBVIOUS

\* The first b elements of a sequence (channelQueue[:invalidatedChannelIdx]).
LEMMA Prefix ==
  ASSUME NEW S, NEW q \in Seq(S), NEW b \in Nat, b <= Len(q)
  PROVE  /\ SubSeq(q, 1, b) \in Seq(S) /\ Len(SubSeq(q, 1, b)) = b
         /\ DOMAIN SubSeq(q, 1, b) = 1 .. b
         /\ \A i \in 1 .. b : SubSeq(q, 1, b)[i] = q[i]
<1>1. Len(q) \in Nat /\ \A i \in 1 .. b : q[i] \in S
  BY LenProperties, ElementOfSeq
<1>2. /\ SubSeq(q, 1, b) \in Seq(S)
      /\ Len(SubSeq(q, 1, b)) = IF 1 <= b THEN b - 1 + 1 ELSE 0
      /\ \A i \in 1 .. b - 1 + 1 : SubSeq(q, 1, b)[i] = q[1 + i - 1]
  BY <1>1, SubSeqProperties
<1> DEFINE r == SubSeq(q, 1, b)
<1> HIDE DEF r
<1>3. Len(r) = b /\ r \in Seq(S) /\ DOMAIN r = 1 .. b
  BY <1>2, LenProperties DEF r
<1>4. \A i \in 1 .. b : r[i] = q[i]
  <2> TAKE i \in 1 .. b
  <2>1. i \in 1 .. b - 1 + 1 /\ 1 + i - 1 = i
    OBVIOUS
  <2> QED
    BY <1>2, <2>1 DEF r
<1> QED
  BY <1>3, <1>4 DEF r

\* Rewinding to the first block of a queued channel and dropping that channel with
\* the ones behind it keeps the segments; dropped are their transactions, and what
\* lay behind still does.
LEMMA DropSegment ==
  ASSUME NEW s, BooksInv(s), SegmentInv(s),
         NEW p \in Nat \ {0}, p <= Len(s.channelQueue), NEW idx \in Nat, idx < s.blockCursor,
         idx = Number[s.chan[s.channelQueue[p]].blocks[1]] - Number[s.blocks[1]],
         s.blocks[idx + 1] = s.chan[s.channelQueue[p]].blocks[1]
  PROVE  SegmentInv(DropFrom([s EXCEPT !.blockCursor = idx], p))
<1> DEFINE r == [s EXCEPT !.blockCursor = idx]
           t == DropFrom(r, p)
           q == s.channelQueue
           n == Len(q)
           b == p - 1
           dropped == {q[i] : i \in p .. n}
<1>0. /\ s.blocks \in Seq(Block) /\ Len(s.blocks) \in Nat /\ s.blockCursor \in 0 .. Len(s.blocks)
      /\ q \in Seq(ChannelID) /\ n \in Nat /\ DOMAIN q = 1 .. n
      /\ \A i \in 1 .. n : q[i] \in ChannelID
      /\ s \in Manager
  BY BooksTypes
<1>a. /\ s.blockCursor \in 1 .. Len(s.blocks) /\ idx \in 0 .. s.blockCursor - 1
      /\ n \in Nat \ {0} /\ p \in 1 .. n /\ b \in Nat /\ b <= n /\ b + 1 = p
      /\ \A i \in 1 .. n : i \in 1 .. b \/ i \in p .. n
      /\ \A i \in 1 .. b : i \in 1 .. n
  <2>1. s.blockCursor \in 1 .. Len(s.blocks) /\ idx \in 0 .. s.blockCursor - 1
    BY <1>0, BeforeCursor
  <2>2. n \in Nat /\ p <= n
    BY <1>0
  <2> HIDE DEF n
  <2>3. /\ n \in Nat \ {0} /\ p \in 1 .. n /\ b \in Nat /\ b <= n /\ b + 1 = p
        /\ \A i \in 1 .. n : i \in 1 .. b \/ i \in p .. n
        /\ \A i \in 1 .. b : i \in 1 .. n
    BY <2>2, Positions
  <2> QED
    BY <2>1, <2>3
<1>1. /\ r.blocks = s.blocks /\ r.tip = s.tip /\ r.blockCursor = idx /\ r.channelQueue = q
      /\ r.txChannels = s.txChannels /\ r.chan = s.chan /\ r \in Manager
  BY <1>0, <1>a DEF Manager
<1>2. /\ t.blocks = s.blocks /\ t.tip = s.tip /\ t.blockCursor = idx
      /\ t.channelQueue = SubSeq(q, 1, b) /\ t.currentChannel = NoChannel
      /\ t.txChannels = {tx \in s.txChannels : tx.ch \notin dropped} /\ t.chan = s.chan
  <2>1. t = [r EXCEPT !.channelQueue = SubSeq(r.channelQueue, 1, p - 1),
                      !.txChannels = {tx \in r.txChannels : tx.ch \notin
                                        {r.channelQueue[i] : i \in p .. Len(r.channelQueue)}},
                      !.currentChannel = NoChannel]
    <3> HIDE DEF r
    <3> QED
      BY <1>1 DEF DropFrom, Manager
  <2> DEFINE kept == {tx \in s.txChannels : tx.ch \notin dropped}
  <2>2. kept = {tx \in r.txChannels : tx.ch \notin {r.channelQueue[i] : i \in p .. Len(r.channelQueue)}}
    BY <1>1
  <2>3. SubSeq(r.channelQueue, 1, p - 1) = SubSeq(q, 1, b)
    BY <1>1
  <2> HIDE DEF t, r, kept, b
  <2>4. t = [r EXCEPT !.channelQueue = SubSeq(q, 1, b), !.txChannels = kept,
                      !.currentChannel = NoChannel]
    BY <2>1, <2>2, <2>3, Zenon
  <2>5. /\ t.blocks = r.blocks /\ t.tip = r.tip /\ t.blockCursor = r.blockCursor
        /\ t.channelQueue = SubSeq(q, 1, b) /\ t.currentChannel = NoChannel
        /\ t.txChannels = kept /\ t.chan = r.chan
    BY <1>1, <2>4 DEF Manager
  <2> QED
    BY <1>1, <2>5 DEF kept
<1> HIDE DEF t, r, dropped, b, n
<1>3. /\ Len(t.channelQueue) = b /\ DOMAIN t.channelQueue = 1 .. b
      /\ \A i \in 1 .. b : t.channelQueue[i] = q[i]
  <2>1. b <= Len(q) /\ b \in Nat
    BY <1>a DEF n
  <2>2. /\ Len(SubSeq(q, 1, b)) = b /\ DOMAIN SubSeq(q, 1, b) = 1 .. b
        /\ \A i \in 1 .. b : SubSeq(q, 1, b)[i] = q[i]
    <3>1. q \in Seq(ChannelID)
      BY <1>0
    <3> HIDE DEF q
    <3> QED
      BY <2>1, <3>1, Prefix
  <2> QED
    BY <1>2, <2>2
<1>4. Covers(b, QueuedBlocks(s), s.blocks, idx)
  <2>1. Covers(n, QueuedBlocks(s), s.blocks, s.blockCursor) /\ IsChain(s.blocks)
    BY DEF SegmentInv, n
  <2>2. QueuedBlocks(s)[p] = s.chan[q[p]].blocks
    BY <1>a, QueuedBlocksAt DEF n
  <2>3. Covers(p - 1, QueuedBlocks(s), s.blocks, idx)
    BY <1>0, <1>a, <2>1, <2>2, CoverDrop
  <2> QED
    BY <2>3 DEF b
<1>5. Covers(b, QueuedBlocks(t), s.blocks, idx)
  <2>1. \A i \in 1 .. b : QueuedBlocks(t)[i] = QueuedBlocks(s)[i]
    <3> TAKE i \in 1 .. b
    <3>1. i \in DOMAIN q /\ i \in DOMAIN t.channelQueue
      BY <1>0, <1>3, <1>a
    <3> QED
      BY <3>1, <1>2, <1>3 DEF QueuedBlocks
  <2> QED
    BY <1>4, <1>a, <2>1, CoverSame
<1>6. \A tx \in t.txChannels : tx.ch \in Queued(t) \/ Behind(t, tx.ch)
  <2> TAKE tx \in t.txChannels
  <2>1. tx \in s.txChannels /\ tx.ch \notin dropped
    BY <1>2
  <2>2. CASE tx.ch \in Queued(s)
    <3>1. PICK i \in DOMAIN q : tx.ch = q[i]
      BY <2>2 DEF Queued
    <3>2. i \notin p .. n
      BY <2>1, <3>1 DEF dropped
    <3>3. i \in 1 .. b
      BY <1>0, <1>a, <3>1, <3>2
    <3> QED
      BY <1>3, <3>1, <3>3 DEF Queued
  <2>3. CASE Behind(s, tx.ch)
    BY <2>3, <1>2 DEF Behind
  <2> QED
    BY <2>1, <2>2, <2>3 DEF SegmentInv
<1>7. SegmentInv(t)
  BY <1>2, <1>3, <1>5, <1>6 DEF SegmentInv
<1> QED
  BY <1>7 DEF t, r

\* handleChannelInvalidated: the cursor goes back to the first block of the channel,
\* and no channel that stays queued loses its place; a channel that left the queue
\* makes rewindToBlock panic.
LEMMA InvalidatedContents ==
  ASSUME NEW s, ContentsInv(s), s.panic = "none", NEW id \in ChannelID,
         s.chan[id].blocks # <<>>, id \in Queued(s) \/ Behind(s, id)
  PROVE  LET t == HandleChannelInvalidated(s, id)
         IN  ContentsInv(t) /\ Keeps(s, t)
<1> DEFINE b == s.chan[id].blocks[1]
           r == RewindToBlock(s, b)
           idx == Number[b] - Number[s.blocks[1]]
           ok == s.blocks # <<>> /\ idx \in 0 .. s.blockCursor - 1 /\ s.blocks[idx + 1] = b
           at == {i \in DOMAIN s.channelQueue : s.channelQueue[i] = id}
           p == IF at = {} THEN 1 ELSE FirstOf(at)
           t == HandleChannelInvalidated(s, id)
<1>0. BooksInv(s) /\ SegmentInv(s) /\ \A x \in ChannelID : Aligned(s.chan[x])
  BY DEF ContentsInv
<1>1. t = IF r.panic # "none" THEN r ELSE DropFrom(r, p)
  BY Zenon DEF HandleChannelInvalidated
<1>2. CASE ~ok
  <2>1. r = Panic(s, "rewind to nonexistent block")
    BY <1>2 DEF RewindToBlock
  <2>2. r.panic # "none"
    BY <1>0, <2>1, PanicBooks DEF PanicReason
  <2> HIDE DEF t, r, p, at
  <2>3. t = Panic(s, "rewind to nonexistent block")
    BY <1>1, <2>1, <2>2
  <2>4. ContentsInv(t) /\ Keeps(s, t)
    BY <2>3, PanicContents DEF PanicReason
  <2> QED
    BY <2>4 DEF t
<1>3. CASE ok
  <2>1. r = [s EXCEPT !.blockCursor = idx]
    BY <1>3 DEF RewindToBlock
  <2>2. r.panic = "none" /\ r.chan = s.chan
    BY <1>0, <2>1 DEF BooksInv, Manager
  <2>3. t = DropFrom(r, p)
    BY <1>1, <2>2
  <2>4. id \in Queued(s)
    <3>1. ~Behind(s, id)
      <4> DEFINE x == Number[b]
                 y == Number[s.blocks[1]]
      <4>1. x \in Nat /\ y \in Nat /\ x - y >= 0
        <5>1. s.chan[id].blocks \in Seq(Block)
          BY <1>0, BooksTypes DEF Channel
        <5>2. x \in Nat /\ y \in Nat
          BY <1>0, <1>3, <5>1, EndsOf, BooksTypes
        <5> QED
          BY <1>3, <5>2
      <4> HIDE DEF x, y
      <4>2. ~(x < y)
        BY <4>1
      <4> QED
        BY <1>3, <4>2 DEF Behind, x, y
    <3> QED
      BY <3>1
  <2>5. p \in 1 .. Len(s.channelQueue) /\ s.channelQueue[p] = id
    <3>1. at # {} /\ at \subseteq 1 .. Len(s.channelQueue)
      BY <1>0, <2>4, BooksTypes DEF Queued
    <3>2. at \in SUBSET Nat
      BY <3>1, <1>0, BooksTypes
    <3>3. FirstOf(at) \in at
      BY <3>1, <3>2, FirstOfIsLeast
    <3> QED
      BY <3>1, <3>3
  <2> HIDE DEF p, at
  <2>6. SegmentInv(t)
    <3>1. idx \in 0 .. s.blockCursor - 1 /\ s.blocks[idx + 1] = b /\ b = s.chan[s.channelQueue[p]].blocks[1]
      BY <1>3, <2>5
    <3>2. idx = Number[s.chan[s.channelQueue[p]].blocks[1]] - Number[s.blocks[1]]
      BY <2>5
    <3>4. Len(s.channelQueue) \in Nat /\ s.blockCursor \in Nat
      BY <1>0, BooksTypes
    <3>5. p \in Nat \ {0} /\ p <= Len(s.channelQueue)
      BY <2>5, <3>4
    <3> HIDE DEF idx, t
    <3>6. idx \in Nat /\ idx < s.blockCursor
      BY <3>1, <3>4
    <3>3. SegmentInv(DropFrom([s EXCEPT !.blockCursor = idx], p))
      BY <1>0, <3>1, <3>2, <3>5, <3>6, DropSegment
    <3> QED
      BY <2>1, <2>3, <3>3
  <2>7. BooksInv(t)
    BY <1>0, InvalidatedBooks
  <2>8. t.chan = s.chan
    <3>0. idx \in Nat /\ s \in Manager
      BY <1>0, <1>3, BooksTypes
    <3> HIDE DEF idx
    <3>1. r \in Manager
      BY <2>1, <3>0 DEF Manager
    <3> HIDE DEF r, t
    <3>2. t.chan = r.chan
      BY <2>3, <3>1 DEF DropFrom, Manager
    <3> QED
      BY <2>2, <3>2
  <2> HIDE DEF t
  <2>9. ContentsInv(t) /\ Keeps(s, t)
    BY <1>0, <2>6, <2>7, <2>8 DEF ContentsInv, Keeps
  <2> QED
    BY <2>9 DEF t
<1> QED
  BY <1>2, <1>3

\* A call that changes one channel's transactions and flags only keeps the contents.
LEMMA ContentsUpdate ==
  ASSUME NEW s, ContentsInv(s), NEW t, BooksInv(t),
         t.blocks = s.blocks, t.blockCursor = s.blockCursor, t.tip = s.tip,
         t.channelQueue = s.channelQueue, t.currentChannel = s.currentChannel,
         NEW id \in ChannelID, \A x \in ChannelID \ {id} : t.chan[x] = s.chan[x],
         t.chan[id].blocks = s.chan[id].blocks, Aligned(t.chan[id]),
         t.chan[id].full = s.chan[id].full, t.chan[id].numFrames = s.chan[id].numFrames,
         \A tx \in t.txChannels : tx \in s.txChannels \/ tx.ch \in Queued(s)
  PROVE  ContentsInv(t) /\ Keeps(s, t)
<1>1. \A x \in ChannelID : t.chan[x].blocks = s.chan[x].blocks /\ Aligned(t.chan[x])
  BY DEF ContentsInv
<1>2. t.txChannels \in SUBSET TxID
  BY BooksTypes
<1>3. SegmentInv(t)
  BY <1>1, <1>2, SegmentSame DEF ContentsInv
<1>4. Keeps(s, t)
  BY DEF Keeps
<1> QED
  BY <1>1, <1>3, <1>4 DEF ContentsInv

\* nextTxData of the manager, for a channel of the queue.
LEMMA DequeueContents ==
  ASSUME NEW s, ContentsInv(s), NEW ch \in Queued(s) \cup {NoChannel}
  PROVE  ContentsInv(DequeueTx(s, ch).s) /\ Keeps(s, DequeueTx(s, ch).s)
<1>0. BooksInv(s) /\ ch \in ChannelID \cup {NoChannel}
  BY BooksTypes DEF ContentsInv, Queued
<1>1. CASE ch = NoChannel \/ ~HasTxData(s.chan[ch])
  <2>1. DequeueTx(s, ch).s = s
    BY <1>1 DEF DequeueTx
  <2> QED
    BY <2>1 DEF Keeps
<1>2. CASE ~(ch = NoChannel \/ ~HasTxData(s.chan[ch]))
  <2> DEFINE c == s.chan[ch]
             tx == NextTx(ch, c)
             d == NextTxData(ch, c)
             t == DequeueTx(s, ch).s
  <2>1. ch \in ChannelID /\ ch \in Queued(s) /\ HasTxData(c) /\ ChannelInv(ch, c) /\ Aligned(c)
    BY <1>0, <1>2 DEF ContentsInv, BooksInv
  <2>2. Aligned(d)
    BY <2>1, AlignedNextTx
  <2>3. d.blocks = c.blocks /\ d.full = c.full /\ d.numFrames = c.numFrames
    BY <2>1 DEF NextTxData, ChannelInv, ChannelCore, Channel
  <2>4. tx.ch = ch
    BY DEF NextTx
  <2>5. BooksInv(t)
    BY <1>0, DequeueBooks
  <2>6. s \in Manager /\ s.chan \in [ChannelID -> Channel]
    BY <1>0, BooksTypes
  <2> DEFINE last == IF LatestL1Origin(c) > s.l1OriginLast THEN LatestL1Origin(c) ELSE s.l1OriginLast
  <2>7. t = [s EXCEPT !.chan[ch] = d, !.l1OriginLast = last, !.txChannels = @ \cup {tx}]
    BY <1>2, Zenon DEF DequeueTx
  <2> HIDE DEF last, d, tx, t, c
  <2>8. /\ t.blocks = s.blocks /\ t.blockCursor = s.blockCursor /\ t.tip = s.tip
        /\ t.channelQueue = s.channelQueue /\ t.currentChannel = s.currentChannel
        /\ t.txChannels = s.txChannels \cup {tx} /\ t.chan = [s.chan EXCEPT ![ch] = d]
    BY <2>6, <2>7 DEF Manager
  <2>9. t.chan[ch] = d /\ \A x \in ChannelID \ {ch} : t.chan[x] = s.chan[x]
    BY <2>1, <2>6, <2>8
  <2>10. \A y \in t.txChannels : y \in s.txChannels \/ y.ch \in Queued(s)
    BY <2>1, <2>4, <2>8
  <2>11. ContentsInv(t) /\ Keeps(s, t)
    BY <2>1, <2>2, <2>3, <2>5, <2>8, <2>9, <2>10, ContentsUpdate DEF c
  <2> QED
    BY <2>11 DEF t
<1> QED
  BY <1>1, <1>2

\* getReadyChannel keeps the contents and returns a channel of the queue, if any.
LEMMA GetReadyContents ==
  ASSUME NEW s, ContentsInv(s), s.panic = "none", NEW l1Head \in Nat, NEW pi \in PubInfo,
         NEW g \in GetReadyChannel(s, l1Head, pi)
  PROVE  ContentsInv(g.s) /\ Keeps(s, g.s) /\ g.ch \in Queued(g.s) \cup {NoChannel}
<1>1. CASE pi.forcePublish /\ s.currentChannel = NoChannel
  <2>1. g = [s |-> Panic(s, "nil currentChannel"), ch |-> NoChannel]
    BY <1>1 DEF GetReadyChannel
  <2> QED
    BY <2>1, PanicContents DEF PanicReason
<1>2. CASE ~(pi.forcePublish /\ s.currentChannel = NoChannel)
  <2>1. PICK t \in ForceClose(s, pi) : g \in FindReadyChannel(t, l1Head, pi)
    BY <1>2, Zenon DEF GetReadyChannel
  <2>2. ContentsInv(t) /\ Keeps(s, t)
    BY <1>2, <2>1, ForceCloseContents
  <2>3. /\ DOMAIN t.channelQueue = 1 .. Len(t.channelQueue)
        /\ Len(t.blocks) \in Nat /\ t.blockCursor \in 0 .. Len(t.blocks)
    BY <2>2, BooksTypes DEF ContentsInv
  <2>4. CASE ReadyIn(t) # {}
    <3>1. g = [s |-> t, ch |-> t.channelQueue[FirstOf(ReadyIn(t))]]
      BY <2>1, <2>4 DEF FindReadyChannel
    <3>2. ReadyIn(t) \in SUBSET Nat /\ ReadyIn(t) \subseteq DOMAIN t.channelQueue
      BY <2>3 DEF ReadyIn
    <3>3. FirstOf(ReadyIn(t)) \in DOMAIN t.channelQueue
      BY <2>4, <3>2, FirstOfIsLeast
    <3>4. t.channelQueue[FirstOf(ReadyIn(t))] \in Queued(t)
      BY <3>3 DEF Queued
    <3> QED
      BY <3>1, <3>4, <2>2
  <2>5. CASE ReadyIn(t) = {} /\ PendingBlocks(t) = 0
    <3>1. g = [s |-> t, ch |-> NoChannel]
      BY <2>1, <2>5 DEF FindReadyChannel
    <3> QED
      BY <3>1, <2>2
  <2>6. CASE ReadyIn(t) = {} /\ PendingBlocks(t) # 0
    <3>1. PICK u \in FillCurrentChannel(t, l1Head, pi) :
            g = [s |-> u, ch |-> IF HasTxData(u.chan[u.currentChannel]) THEN u.currentChannel
                                 ELSE NoChannel]
      BY <2>1, <2>6, Zenon DEF FindReadyChannel
    <3>2. t.blockCursor < Len(t.blocks)
      BY <2>3, <2>6 DEF PendingBlocks
    <3>3. ContentsInv(u) /\ Keeps(t, u) /\ u.currentChannel \in Queued(u)
      BY <2>2, <3>1, <3>2, FillContents
    <3>4. Keeps(s, u)
      BY <2>2, <3>3, KeepsTransitive
    <3> QED
      BY <3>1, <3>3, <3>4
  <2> QED
    BY <2>4, <2>5, <2>6
<1> QED
  BY <1>1, <1>2

\* TxData keeps the contents, also when it invalidates a channel that nothing was
\* sent from to switch the DA type.
LEMMA TxDataContents ==
  ASSUME NEW s, ContentsInv(s), s.panic = "none", NEW l1Head \in Nat, NEW useBlobs \in BOOLEAN,
         NEW pi \in PubInfo, NEW r \in TxDataOutcome(s, l1Head, useBlobs, pi)
  PROVE  ContentsInv(r.s) /\ Keeps(s, r.s)
<1>1. PICK g \in GetReadyChannel(s, l1Head, pi) :
        r \in IF g.ch # NoChannel /\ NoneSubmitted(g.s.chan[g.ch]) /\ useBlobs # g.s.useBlobs
              THEN SwitchDAType(g.s, g.ch, l1Head, useBlobs, pi)
              ELSE {DequeueTx(g.s, g.ch)}
  BY Zenon DEF TxDataOutcome
<1>2. ContentsInv(g.s) /\ Keeps(s, g.s) /\ g.ch \in Queued(g.s) \cup {NoChannel}
  BY <1>1, GetReadyContents
<1>3. g.ch # NoChannel => g.s.panic = "none"
  BY <1>1, GetReadyBooks DEF ContentsInv
<1>4. CASE r = DequeueTx(g.s, g.ch)
  <2>1. ContentsInv(r.s) /\ Keeps(g.s, r.s)
    BY <1>2, <1>4, DequeueContents
  <2> QED
    BY <1>2, <2>1, KeepsTransitive
<1>5. CASE g.ch # NoChannel /\ r \in SwitchDAType(g.s, g.ch, l1Head, useBlobs, pi)
  <2> DEFINE t == HandleChannelInvalidated(g.s, g.ch)
             v == [t EXCEPT !.useBlobs = useBlobs]
  <2>1. g.ch \in Queued(g.s) /\ g.ch \in ChannelID /\ g.s.chan[g.ch].blocks # <<>>
    <3>1. g.ch \in Queued(g.s) /\ BooksInv(g.s)
      BY <1>2, <1>5 DEF ContentsInv
    <3>2. PICK i \in DOMAIN g.s.channelQueue : g.ch = g.s.channelQueue[i]
      BY <3>1 DEF Queued
    <3> QED
      BY <3>1, <3>2, BooksTypes DEF BooksInv
  <2>2. ContentsInv(t) /\ Keeps(g.s, t)
    BY <1>2, <1>3, <1>5, <2>1, InvalidatedContents, Zenon
  <2>3. Keeps(s, t)
    BY <1>2, <2>2, KeepsTransitive
  <2>4. CASE t.panic # "none"
    <3>1. r = [s |-> t, tx |-> NoTx]
      BY <1>5, <2>4 DEF SwitchDAType
    <3> HIDE DEF t
    <3> QED
      BY <3>1, <2>2, <2>3
  <2>5. CASE t.panic = "none"
    <3>1. PICK h \in GetReadyChannel(v, l1Head, pi) : r = DequeueTx(h.s, h.ch)
      BY <1>5, <2>5, Zenon DEF SwitchDAType
    <3> HIDE DEF t
    <3>2. /\ v \in Manager /\ v.panic = t.panic /\ v.blocks = t.blocks /\ v.blockCursor = t.blockCursor
          /\ v.currentChannel = t.currentChannel /\ v.channelQueue = t.channelQueue
          /\ v.txChannels = t.txChannels /\ v.chan = t.chan /\ v.tip = t.tip
      BY <2>2 DEF ContentsInv, BooksInv, Manager
    <3> HIDE DEF v
    <3>3. BooksInv(v)
      BY <2>2, <3>2 DEF ContentsInv, BooksInv
    <3>4. SegmentInv(v)
      BY <2>2, <3>2, SegmentSame, BooksTypes DEF ContentsInv
    <3>5. ContentsInv(v) /\ Keeps(s, v)
      BY <2>2, <2>3, <3>2, <3>3, <3>4 DEF ContentsInv, Keeps
    <3>6. ContentsInv(h.s) /\ Keeps(v, h.s) /\ h.ch \in Queued(h.s) \cup {NoChannel}
      BY <2>5, <3>1, <3>2, <3>5, GetReadyContents
    <3>7. ContentsInv(r.s) /\ Keeps(h.s, r.s)
      BY <3>1, <3>6, DequeueContents
    <3> QED
      BY <3>5, <3>6, <3>7, KeepsTransitive
  <2> QED
    BY <2>4, <2>5
<1> QED
  BY <1>1, <1>4, <1>5

\* What a receipt does to the manager, before a timed out channel is invalidated.
LEMMA ReceiptContents ==
  ASSUME NEW s, ContentsInv(s), NEW tx \in s.txChannels, NEW c, ChannelInv(tx.ch, c), Aligned(c),
         c.blocks = s.chan[tx.ch].blocks, c.pending = s.chan[tx.ch].pending \ {tx},
         c.full = s.chan[tx.ch].full, c.numFrames = s.chan[tx.ch].numFrames
  PROVE  LET t == [s EXCEPT !.txChannels = @ \ {tx}, !.chan[tx.ch] = c]
         IN  /\ ContentsInv(t) /\ Keeps(s, t)
             /\ tx.ch \in Queued(t) \/ Behind(t, tx.ch)
             /\ t.chan[tx.ch].blocks # <<>>
<1> DEFINE id == tx.ch
           t == [s EXCEPT !.txChannels = @ \ {tx}, !.chan[id] = c]
<1>0. BooksInv(s) /\ SegmentInv(s)
  BY DEF ContentsInv
<1>1. s \in Manager /\ s.chan \in [ChannelID -> Channel] /\ id \in ChannelID
  BY <1>0, BooksTypes
<1>2. BooksInv(t)
  BY <1>0, ReceiptBooks
<1>3. /\ t.chan = [s.chan EXCEPT ![id] = c] /\ t.txChannels = s.txChannels \ {tx}
      /\ t.blocks = s.blocks /\ t.blockCursor = s.blockCursor /\ t.tip = s.tip
      /\ t.currentChannel = s.currentChannel /\ t.channelQueue = s.channelQueue
  BY <1>1 DEF Manager
<1>4. s.chan[id].blocks # <<>>
  <2>1. tx \in s.chan[id].pending /\ ChannelInv(id, s.chan[id])
    BY <1>0, <1>1 DEF BooksInv
  <2> QED
    BY <2>1, UnusedChannel
<1>5. id \in Queued(s) \/ Behind(s, id)
  BY <1>0 DEF SegmentInv
<1> HIDE DEF t, id
<1>6. t.chan[id] = c /\ \A x \in ChannelID \ {id} : t.chan[x] = s.chan[x]
  BY <1>1, <1>3
<1>7. \A y \in t.txChannels : y \in s.txChannels \/ y.ch \in Queued(s)
  BY <1>3
<1>8. ContentsInv(t) /\ Keeps(s, t)
  BY <1>1, <1>2, <1>3, <1>6, <1>7, ContentsUpdate DEF id
<1>9. id \in Queued(t) \/ Behind(t, id)
  <2>1. Queued(t) = Queued(s)
    BY <1>3 DEF Queued
  <2>2. t.chan[id].blocks = s.chan[id].blocks
    BY <1>6 DEF id
  <2>3. Behind(s, id) => Behind(t, id)
    BY <1>3, <2>2 DEF Behind
  <2> QED
    BY <1>5, <2>1, <2>3
<1>10. t.chan[id].blocks # <<>>
  BY <1>4, <1>6 DEF id
<1> QED
  BY <1>8, <1>9, <1>10 DEF t, id

\* TxFailed.
LEMMA FailedContents ==
  ASSUME ContentsInv(mgr), NEW tx \in mgr.txChannels, TxFailed(tx)
  PROVE  ContentsInv(mgr') /\ Keeps(mgr, mgr')
<1> DEFINE c == mgr.chan[tx.ch]
           d == ChannelTxFailed(c, tx)
<1>1. tx \in TxID /\ tx.ch \in ChannelID /\ tx \in c.pending /\ ChannelInv(tx.ch, c) /\ Aligned(c)
  BY DEF ContentsInv, BooksInv, Manager, TxID
<1>2. KnowsFrame(c, tx.first)
  BY <1>1 DEF KnowsFrame, ChannelInv, ChannelCore, Channel, TxID
<1>3. mgr' = [mgr EXCEPT !.txChannels = @ \ {tx}, !.chan[tx.ch] = d]
  BY <1>2 DEF TxFailed
<1>4. /\ ChannelInv(tx.ch, d) /\ Aligned(d)
      /\ d.blocks = c.blocks /\ d.pending = c.pending \ {tx}
      /\ d.full = c.full /\ d.numFrames = c.numFrames
  <2>1. ChannelInv(tx.ch, d) /\ Aligned(d)
    BY <1>1, TxFailedInv, AlignedFailed
  <2> QED
    BY <2>1, <1>1 DEF ChannelTxFailed, ChannelInv, ChannelCore, Channel
<1> HIDE DEF d
<1> QED
  BY <1>3, <1>4, ReceiptContents

\* TxConfirmed, with the invalidation of a channel that timed out.
LEMMA ConfirmedContents ==
  ASSUME ContentsInv(mgr), NEW tx \in mgr.txChannels, NEW n \in L1Number, TxConfirmed(tx, n)
  PROVE  ContentsInv(mgr') /\ Keeps(mgr, mgr')
<1> DEFINE c == mgr.chan[tx.ch]
           d == ChannelTxConfirmed(c, tx, n)
           s == [mgr EXCEPT !.txChannels = @ \ {tx}, !.chan[tx.ch] = d]
<1>0. n \in Nat
  BY ChainAssumption DEF L1Number
<1>1. tx \in TxID /\ tx.ch \in ChannelID /\ tx \in c.pending /\ ChannelInv(tx.ch, c) /\ Aligned(c)
  BY DEF ContentsInv, BooksInv, Manager, TxID
<1>2. /\ mgr' = IF IsTimedOut(d) THEN HandleChannelInvalidated(s, tx.ch) ELSE s
      /\ mgr.panic = "none"
  BY <1>1 DEF TxConfirmed, Running
<1>3. /\ ChannelInv(tx.ch, d) /\ Aligned(d)
      /\ d.blocks = c.blocks /\ d.pending = c.pending \ {tx}
      /\ d.full = c.full /\ d.numFrames = c.numFrames
  <2>1. ChannelInv(tx.ch, d) /\ Aligned(d)
    BY <1>0, <1>1, TxConfirmedInv, AlignedConfirmed
  <2> QED
    BY <2>1, <1>1 DEF ChannelTxConfirmed, ChannelInv, ChannelCore, Channel
<1> HIDE DEF d
<1>4. /\ ContentsInv(s) /\ Keeps(mgr, s)
      /\ tx.ch \in Queued(s) \/ Behind(s, tx.ch)
      /\ s.chan[tx.ch].blocks # <<>>
  BY <1>3, ReceiptContents
<1>5. s.panic = "none"
  <2>1. BooksInv(mgr)
    BY DEF ContentsInv
  <2>2. s.panic = mgr.panic
    BY <1>3, <2>1, ReceiptBooks
  <2> QED
    BY <1>2, <2>2
<1> HIDE DEF s
<1>6. CASE IsTimedOut(d)
  <2>1. ContentsInv(mgr') /\ Keeps(s, mgr')
    BY <1>1, <1>2, <1>4, <1>5, <1>6, InvalidatedContents
  <2> QED
    BY <2>1, <1>4, KeepsTransitive
<1>7. CASE ~IsTimedOut(d)
  BY <1>2, <1>4, <1>7
<1> QED
  BY <1>6, <1>7

\* Clear leaves no blocks and no queue.
LEMMA ClearedContents ==
  ASSUME NEW s, ContentsInv(s), NEW o \in Nat
  PROVE  ContentsInv(Cleared(s, o)) /\ Keeps(s, Cleared(s, o))
<1> DEFINE t == Cleared(s, o)
<1>1. BooksInv(t)
  BY ClearedBooks DEF ContentsInv
<1>2. /\ t.channelQueue = <<>> /\ t.txChannels = {} /\ t.currentChannel = NoChannel
      /\ t.blocks = <<>> /\ t.blockCursor = 0 /\ t.chan = s.chan
  BY DEF Cleared, ContentsInv, BooksInv, Manager
<1> HIDE DEF t
<1>3. SegmentInv(t)
  <2>1. Len(<<>>) = 0
    OBVIOUS
  <2>2. IsChain(t.blocks)
    BY <1>2, <2>1 DEF IsChain
  <2>3. Covers(Len(t.channelQueue), QueuedBlocks(t), t.blocks, t.blockCursor)
    BY <1>2, <2>1 DEF Covers
  <2> QED
    BY <1>2, <2>2, <2>3 DEF SegmentInv
<1> QED
  BY <1>1, <1>2, <1>3 DEF ContentsInv, Keeps, t

\* What is left of a sequence after its first m elements (PruneSafeBlocks and
\* PruneChannels cut at the front).
LEMMA Suffix ==
  ASSUME NEW S, NEW q \in Seq(S), NEW m \in Nat, m <= Len(q)
  PROVE  LET r == SubSeq(q, m + 1, Len(q))
         IN  /\ r \in Seq(S) /\ Len(r) = Len(q) - m /\ Len(r) \in Nat
             /\ DOMAIN r = 1 .. Len(q) - m
             /\ \A i \in 1 .. Len(q) - m : r[i] = q[m + i]
<1> DEFINE a == m + 1
           l == Len(q)
           r == SubSeq(q, a, l)
<1>1. l \in Nat /\ a \in Nat \ {0} /\ a <= l + 1 /\ l - a + 1 = l - m /\ l - m \in Nat
  BY LenProperties
<1>2. \A i \in a .. l : q[i] \in S
  BY <1>1, ElementOfSeq
<1> HIDE DEF a
<1>3. /\ r \in Seq(S) /\ Len(r) = (IF a <= l THEN l - a + 1 ELSE 0)
      /\ \A i \in 1 .. l - a + 1 : r[i] = q[a + i - 1]
  BY <1>1, <1>2, SubSeqProperties
<1> HIDE DEF r, l
<1>4. Len(r) = l - m
  BY <1>1, <1>3
<1>5. DOMAIN r = 1 .. l - m
  BY <1>3, <1>4, LenProperties
<1>6. \A i \in 1 .. l - m : r[i] = q[m + i]
  <2> TAKE i \in 1 .. l - m
  <2>1. i \in 1 .. l - a + 1 /\ a + i - 1 = m + i
    BY <1>1 DEF a
  <2> QED
    BY <1>3, <2>1
<1> QED
  BY <1>1, <1>3, <1>4, <1>5, <1>6 DEF r, l, a

\* The channels pruned end at or below the safe head; the first one kept ends above.
LEMMA PrunedChannels ==
  ASSUME NEW s, BooksInv(s), NEW ss \in SyncStatus, ss.safe # NoBlock,
         NEW m, m = NumChannelsToPrune(s, ss)
  PROVE  LET B == QueuedBlocks(s)
         IN  /\ m \in 0 .. Len(s.channelQueue)
             /\ \A i \in 1 .. m : Number[LastOf(B[i])] <= Number[ss.safe]
             /\ m < Len(s.channelQueue) => Number[LastOf(B[m + 1])] > Number[ss.safe]
<1> DEFINE B == QueuedBlocks(s)
           q == s.channelQueue
           n == Len(q)
           safe == Number[ss.safe]
           S == {i \in DOMAIN q : LatestL2(s.chan[q[i]]) > safe}
           h(i) == Number[LastOf(B[i])]
<1>1. /\ DOMAIN q = 1 .. n /\ n \in Nat /\ safe \in Nat
  BY BooksTypes, BlockAssumption DEF SyncStatus
<1>2. \A i \in 1 .. n : LatestL2(s.chan[q[i]]) = h(i) /\ h(i) \in Nat
  <2> TAKE i \in 1 .. n
  <2>1. B[i] = s.chan[q[i]].blocks
    BY QueuedBlocksAt
  <2>2. B[i] # <<>> /\ B[i] \in Seq(Block)
    BY <1>1, <2>1, BooksTypes DEF BooksInv, Channel
  <2>3. h(i) \in Nat
    BY <2>2, EndsOf
  <2> QED
    BY <2>1, <2>2, <2>3 DEF LatestL2, LastOf
<1>3. m = IF S = {} THEN n ELSE FirstOf(S) - 1
  BY DEF NumChannelsToPrune
<1>4. S \in SUBSET Nat /\ S \subseteq 1 .. n /\ \A i \in 1 .. n : i \in S <=> h(i) > safe
  BY <1>1, <1>2
<1> HIDE DEF S, h, n, safe
<1>5. CASE S = {}
  <2>1. m = n
    BY <1>3, <1>5
  <2>2. m \in 0 .. n /\ ~(m < n)
    BY <1>1, <2>1
  <2>3. \A i \in 1 .. m : h(i) <= safe
    BY <1>1, <1>2, <1>4, <1>5, <2>1
  <2> QED
    BY <2>2, <2>3 DEF h, n, safe
<1>6. CASE S # {}
  <2> DEFINE f == FirstOf(S)
  <2>1. f \in S /\ \A j \in S : f <= j
    BY <1>4, <1>6, FirstOfIsLeast
  <2>2. m = f - 1
    BY <1>3, <1>6
  <2> HIDE DEF f
  <2>3. f \in 1 .. n /\ h(f) > safe
    BY <1>4, <2>1
  <2>4. m \in 0 .. n /\ m + 1 = f /\ h(m + 1) > safe
    BY <1>1, <2>2, <2>3
  <2>5. \A i \in 1 .. m : h(i) <= safe
    <3> TAKE i \in 1 .. m
    <3>1. i \in 1 .. n /\ ~(f <= i)
      BY <1>1, <2>2, <2>3
    <3>2. i \notin S
      BY <2>1, <3>1
    <3>3. h(i) \in Nat /\ ~(h(i) > safe)
      BY <1>2, <1>4, <3>1, <3>2
    <3> QED
      BY <1>1, <3>3
  <2> QED
    BY <2>4, <2>5 DEF h, n, safe
<1> QED
  BY <1>5, <1>6

\* What lies at or below the boundary of a pruning is behind the manager after it.
LEMMA BehindPruned ==
  ASSUME NEW s, BooksInv(s), SegmentInv(s), s.blocks # <<>>,
         NEW d \in 0 .. Len(s.blocks), NEW u,
         u.blocks = SubSeq(s.blocks, d + 1, Len(s.blocks)), u.tip = s.tip, u.chan = s.chan,
         NEW id \in ChannelID, Number[s.chan[id].blocks[1]] \in Nat,
         \/ Number[s.chan[id].blocks[1]] < Number[s.blocks[1]]
         \/ Number[s.chan[id].blocks[1]] <= Number[s.blocks[1]] + d - 1
  PROVE  Behind(u, id)
<1> DEFINE bs == s.blocks
           first == Number[s.chan[id].blocks[1]]
           low == Number[bs[1]]
           l == Len(bs)
<1>1. bs \in Seq(Block) /\ IsChain(bs) /\ l \in Nat /\ l > 0 /\ low \in Nat /\ first \in Nat
      /\ LastOf(bs) \in Block /\ s.tip = LastOf(bs)
  BY BooksTypes, EndsOf DEF SegmentInv
<1>2. d \in Nat /\ d <= l
  BY <1>1
<1>3. /\ Len(u.blocks) = l - d /\ u.blocks \in Seq(Block)
      /\ \A i \in 1 .. l - d : u.blocks[i] = bs[d + i]
  BY <1>1, <1>2, Suffix
<1>4. u.chan[id].blocks[1] = s.chan[id].blocks[1]
  OBVIOUS
<1>5. first < low \/ first <= low + d - 1
  OBVIOUS
<1>6. Number[s.tip] = low + l - 1
  BY <1>1, ChainEnds
<1>7. s.tip # NoBlock
  BY <1>1, ChainAssumption
<1>8. CASE d = l
  <2>1. Len(u.blocks) = 0
    BY <1>2, <1>3, <1>8
  <2>2. u.blocks = <<>>
    BY <1>3, <2>1, EmptySeq
  <2>3. first <= low + l - 1
    <3> HIDE DEF first, low, l
    <3> QED
      BY <1>1, <1>2, <1>5, <1>8
  <2>4. u.tip = s.tip
    OBVIOUS
  <2>5. first <= Number[u.tip]
    BY <1>6, <2>3, <2>4
  <2> QED
    BY <1>4, <1>7, <2>2, <2>4, <2>5 DEF Behind
<1>9. CASE d < l
  <2>1. 1 \in 1 .. l - d /\ d + 1 \in 1 .. l
    <3> HIDE DEF l
    <3> QED
      BY <1>1, <1>2, <1>9
  <2>2. u.blocks[1] = bs[d + 1] /\ u.blocks # <<>>
    <3>1. u.blocks[1] = bs[d + 1]
      BY <1>3, <2>1
    <3>2. Len(u.blocks) # 0
      <4> HIDE DEF l
      <4> QED
        BY <1>1, <1>2, <1>3, <1>9
    <3> QED
      BY <3>1, <3>2, EmptySeq
  <2>3. Number[bs[d + 1]] = low + (d + 1) - 1
    BY <1>1, <2>1, ChainHeights
  <2>4. first < low + (d + 1) - 1
    <3> HIDE DEF first, low, l
    <3> QED
      BY <1>1, <1>2, <1>5
  <2>5. first < Number[u.blocks[1]]
    BY <2>2, <2>3, <2>4
  <2> QED
    BY <1>4, <2>2, <2>5 DEF Behind
<1> QED
  BY <1>2, <1>8, <1>9

\* Pruning takes the safe blocks and the channels that end with them off the front:
\* the rest stays covered, and what was pruned lies behind.
LEMMA PrunedContents ==
  ASSUME NEW s, ContentsInv(s), NEW ss \in SyncStatus, ss.safe # NoBlock,
         s.blocks # <<>>, ~StartAfresh(s, ss), BooksInv(Synced(s, ss))
  PROVE  ContentsInv(Synced(s, ss)) /\ Keeps(s, Synced(s, ss))
<1> DEFINE d == NumBlocksToDequeue(s, ss)
           m == NumChannelsToPrune(s, ss)
           u == Synced(s, ss)
           bs == s.blocks
           k == s.blockCursor
           q == s.channelQueue
           n == Len(q)
           safe == Number[ss.safe]
           low == Number[bs[1]]
           B == QueuedBlocks(s)
           C == QueuedBlocks(u)
<1>0. BooksInv(s) /\ SegmentInv(s)
  BY DEF ContentsInv
<1>1. /\ d \in 0 .. Len(bs) /\ m \in 0 .. n
      /\ u.txChannels = s.txChannels /\ u.chan = s.chan /\ u.tip = s.tip
      /\ u.blocks = SubSeq(bs, d + 1, Len(bs))
      /\ u.blockCursor = IF k > d THEN k - d ELSE 0
      /\ u.channelQueue = SubSeq(q, m + 1, n)
      /\ u.currentChannel = IF \E i \in 1 .. m : q[i] = s.currentChannel
                            THEN NoChannel ELSE s.currentChannel
  BY <1>0, PruneShape, Zenon
<1>2. /\ bs \in Seq(Block) /\ Len(bs) \in Nat /\ k \in 0 .. Len(bs) /\ q \in Seq(ChannelID)
      /\ n \in Nat /\ DOMAIN q = 1 .. n /\ \A i \in 1 .. n : q[i] \in ChannelID
      /\ s.txChannels \in SUBSET TxID /\ s.chan \in [ChannelID -> Channel]
      /\ safe \in Nat /\ low \in Nat
  BY <1>0, BooksTypes, EndsOf, BlockAssumption DEF SyncStatus
<1>3. IsChain(bs) /\ Covers(n, B, bs, k)
  BY <1>0 DEF SegmentInv
<1>4. /\ \A i \in 1 .. m : Number[LastOf(B[i])] <= safe
      /\ m < n => Number[LastOf(B[m + 1])] > safe
  BY <1>0, PrunedChannels
<1>5. d = safe + 1 - low
  BY DEF NumBlocksToDequeue
<1>6. \A i \in 1 .. n : B[i] = s.chan[q[i]].blocks
  BY <1>0, QueuedBlocksAt
<1> HIDE DEF d, m, u, B, C, n, safe, low
<1>7. m \in Nat /\ m <= n /\ n - m \in Nat /\ d \in Nat /\ d <= Len(bs)
  BY <1>1, <1>2
<1>8. /\ Len(u.channelQueue) = n - m /\ DOMAIN u.channelQueue = 1 .. n - m
      /\ u.channelQueue \in Seq(ChannelID)
      /\ \A i \in 1 .. n - m : u.channelQueue[i] = q[m + i]
  BY <1>1, <1>2, <1>7, Suffix DEF n
<1>9. \A i \in 1 .. n - m : C[i] = B[m + i]
  <2> TAKE i \in 1 .. n - m
  <2>0. n \in Nat /\ m \in Nat /\ m <= n
    BY <1>2, <1>7
  <2>a. m + i \in 1 .. n
    BY <2>0
  <2>1. i \in DOMAIN u.channelQueue /\ m + i \in 1 .. n
    BY <1>8, <2>a
  <2>2. C[i] = u.chan[u.channelQueue[i]].blocks
    BY <2>1 DEF QueuedBlocks, C
  <2> QED
    BY <1>1, <1>6, <1>8, <2>1, <2>2
<1>10. Covers(n - m, C, u.blocks, u.blockCursor)
  <2>1. m \in 0 .. n
    BY <1>7
  <2>2. d = safe + 1 - Number[bs[1]]
    BY <1>5 DEF low
  <2>3. Covers(n - m, C, SubSeq(bs, d + 1, Len(bs)), IF k > d THEN k - d ELSE 0)
    BY <1>1, <1>2, <1>3, <1>4, <1>9, <2>1, <2>2, CoverPrune
  <2> QED
    BY <1>1, <2>3
<1>11. IsChain(u.blocks) /\ (u.blocks # <<>> => u.tip = LastOf(u.blocks))
  <2>1. IsChain(u.blocks)
    <3> DEFINE a == d + 1
    <3>1. a \in Nat \ {0} /\ a <= Len(bs) + 1 /\ Len(bs) <= Len(bs)
      BY <1>2, <1>7
    <3>2. u.blocks = SubSeq(bs, a, Len(bs))
      BY <1>1
    <3> HIDE DEF a
    <3> QED
      BY <1>2, <1>3, <3>1, <3>2, ChainSubSeq
  <2>2. ASSUME u.blocks # <<>> PROVE u.tip = LastOf(u.blocks)
    <3>1. /\ u.blocks \in Seq(Block) /\ Len(u.blocks) = Len(bs) - d
          /\ \A i \in 1 .. Len(bs) - d : u.blocks[i] = bs[d + i]
      BY <1>1, <1>2, <1>7, Suffix
    <3>2. Len(u.blocks) > 0
      BY <2>2, <3>1, EndsOf
    <3>3. Len(bs) - d \in 1 .. Len(bs) - d /\ d + (Len(bs) - d) = Len(bs)
      BY <3>1, <3>2, <1>2, <1>7
    <3>4. LastOf(u.blocks) = LastOf(bs)
      BY <3>1, <3>3 DEF LastOf
    <3> QED
      BY <1>0, <1>1, <3>4 DEF SegmentInv
  <2> QED
    BY <2>1, <2>2
<1>12. ASSUME u.currentChannel # NoChannel
       PROVE  u.channelQueue # <<>> /\ u.currentChannel = LastOf(u.channelQueue)
  <2>1. u.currentChannel = s.currentChannel /\ ~ \E i \in 1 .. m : q[i] = s.currentChannel
    BY <1>1, <1>12
  <2>2. q # <<>> /\ s.currentChannel = q[n]
    BY <1>0, <1>12, <2>1 DEF SegmentInv, LastOf, n
  <2>3. n > 0
    BY <1>2, <2>2, EmptySeq DEF n
  <2>4. n \notin 1 .. m
    BY <2>1, <2>2
  <2>5. n - m \in 1 .. n - m /\ m + (n - m) = n /\ n - m > 0
    BY <1>2, <1>7, <2>3, <2>4
  <2>6. u.channelQueue[n - m] = q[n]
    BY <1>8, <2>5
  <2>7. u.channelQueue # <<>>
    BY <1>8, <2>5, EmptySeq
  <2> QED
    BY <1>8, <2>1, <2>2, <2>6, <2>7 DEF LastOf
<1>13. \A tx \in u.txChannels : tx.ch \in Queued(u) \/ Behind(u, tx.ch)
  <2> TAKE tx \in u.txChannels
  <2> DEFINE id == tx.ch
             first == Number[s.chan[id].blocks[1]]
  <2>1. tx \in s.txChannels /\ id \in ChannelID
    BY <1>1, <1>2 DEF TxID
  <2>2. s.chan[id].blocks # <<>> /\ first \in Nat
    <3>1. tx \in s.chan[id].pending /\ ChannelInv(id, s.chan[id])
      BY <1>0, <2>1 DEF BooksInv
    <3>2. s.chan[id].blocks # <<>>
      BY <3>1, UnusedChannel
    <3>3. s.chan[id].blocks \in Seq(Block)
      BY <1>2, <2>1 DEF Channel
    <3> QED
      BY <3>2, <3>3, EndsOf
  <2> HIDE DEF id
  <2>3. ASSUME first < low \/ first <= low + d - 1 PROVE Behind(u, id)
    BY <1>0, <1>1, <2>1, <2>2, <2>3, BehindPruned DEF low
  <2>4. CASE Behind(s, id)
    <3>1. first < low
      BY <2>4 DEF Behind, low
    <3> QED
      BY <2>3, <3>1 DEF id
  <2>5. CASE id \in Queued(s)
    <3>1. PICK i \in 1 .. n : id = q[i]
      BY <1>2, <2>5 DEF Queued
    <3>2. CASE i <= m
      <4>1. i \in 1 .. m
        BY <1>7, <3>2
      <4>2. Number[LastOf(B[i])] <= safe /\ B[i] = s.chan[id].blocks
        BY <1>4, <1>6, <3>1, <4>1
      <4>3. Number[B[i][1]] <= Number[LastOf(B[i])] /\ Number[LastOf(B[i])] \in Nat
        <5>1. B[i] \in Seq(Block) /\ B[i] # <<>> /\ IsChain(B[i])
          BY <1>3 DEF Covers
        <5>2. /\ Len(B[i]) \in Nat /\ Len(B[i]) > 0
              /\ Number[B[i][1]] \in Nat /\ Number[LastOf(B[i])] \in Nat
          BY <5>1, EndsOf
        <5>3. Number[LastOf(B[i])] = Number[B[i][1]] + Len(B[i]) - 1
          BY <5>1, ChainEnds
        <5> QED
          BY <5>2, <5>3
      <4>4. first = Number[B[i][1]]
        BY <4>2
      <4> HIDE DEF first
      <4>5. first <= safe
        BY <4>2, <4>3, <4>4, <1>2, <2>2
      <4>6. first <= low + d - 1
        BY <4>5, <1>2, <1>5, <2>2
      <4> QED
        BY <2>3, <4>6 DEF id, first
    <3>3. CASE ~(i <= m)
      <4> DEFINE j == i - m
      <4>1. j \in 1 .. n - m /\ m + j = i
        BY <1>2, <1>7, <3>3
      <4> HIDE DEF j
      <4>2. j \in DOMAIN u.channelQueue /\ u.channelQueue[j] = id
        BY <1>8, <3>1, <4>1
      <4> QED
        BY <4>2 DEF Queued, id
    <3> QED
      BY <3>2, <3>3
  <2> QED
    BY <1>0, <2>1, <2>4, <2>5 DEF SegmentInv, id
<1>14. SegmentInv(u)
  BY <1>8, <1>10, <1>11, <1>12, <1>13 DEF SegmentInv, C
<1> QED
  BY <1>1, <1>14 DEF ContentsInv, Keeps, u

\* syncAndPrune.
LEMMA SyncedContents ==
  ASSUME NEW s, ContentsInv(s), s.panic = "none", NEW ss \in SyncStatus, ss.safe # NoBlock
  PROVE  ContentsInv(Synced(s, ss)) /\ Keeps(s, Synced(s, ss))
<1>1. BooksInv(Synced(s, ss))
  BY SyncedBooks DEF ContentsInv
<1>2. CASE s.blocks = <<>>
  <2>1. Synced(s, ss) = s
    BY <1>2 DEF Synced, StartAfresh
  <2> QED
    BY <2>1 DEF Keeps
<1>3. CASE s.blocks # <<>> /\ StartAfresh(s, ss)
  <2>1. Synced(s, ss) = Cleared(s, L1Origin[ss.safe])
    BY <1>3 DEF Synced
  <2>2. L1Origin[ss.safe] \in Nat
    BY BlockAssumption DEF SyncStatus
  <2> QED
    BY <2>1, <2>2, ClearedContents
<1>4. CASE s.blocks # <<>> /\ ~StartAfresh(s, ss)
  BY <1>1, <1>4, PrunedContents
<1> QED
  BY <1>2, <1>3, <1>4

\* AddL2Block: the block extends the chain that ends at the tip.
LEMMA AddedContents ==
  ASSUME ContentsInv(mgr), NEW b \in Block, ExtendsTip(b), BooksInv(mgr'),
         mgr' = [mgr EXCEPT !.blocks = Append(@, b), !.tip = b]
  PROVE  ContentsInv(mgr') /\ Keeps(mgr, mgr')
<1> DEFINE bs == mgr.blocks
           cs == Append(bs, b)
           n == Len(mgr.channelQueue)
           k == mgr.blockCursor
<1>0. BooksInv(mgr) /\ SegmentInv(mgr)
  BY DEF ContentsInv
<1>1. /\ mgr'.blocks = cs /\ mgr'.tip = b /\ mgr'.blockCursor = k
      /\ mgr'.channelQueue = mgr.channelQueue /\ mgr'.currentChannel = mgr.currentChannel
      /\ mgr'.txChannels = mgr.txChannels /\ mgr'.chan = mgr.chan
  BY <1>0, BooksTypes DEF Manager
<1>2. /\ bs \in Seq(Block) /\ Len(bs) \in Nat /\ k \in 0 .. Len(bs) /\ n \in Nat
      /\ mgr.tip \in Block \cup {NoBlock}
  BY <1>0, BooksTypes
<1>3. bs # <<>> => mgr.tip = LastOf(bs) /\ LastOf(bs) \in Block /\ mgr.tip # NoBlock /\ Len(bs) > 0
                   /\ bs[1] \in Block /\ Number[bs[1]] \in Nat
  BY <1>0, <1>2, EndsOf, ChainAssumption DEF SegmentInv
<1>4. IsChain(cs) /\ LastOf(cs) = b
  <2>1. bs # <<>> => Parent[b] = LastOf(bs)
    BY <1>3 DEF ExtendsTip
  <2>2. IsChain(bs)
    BY <1>0 DEF SegmentInv
  <2> QED
    BY <1>2, <2>1, <2>2, ChainAppend
<1>5. /\ Len(cs) = Len(bs) + 1 /\ cs[Len(bs) + 1] = b /\ \A i \in 1 .. Len(bs) : cs[i] = bs[i]
      /\ cs # <<>>
  BY <1>2, AppendProperties, LenProperties
<1> HIDE DEF cs
<1>6. bs # <<>> => cs[1] = bs[1]
  <2>1. bs # <<>> => 1 \in 1 .. Len(bs)
    BY <1>2, <1>3
  <2> QED
    BY <1>5, <2>1
<1>7. QueuedBlocks(mgr') = QueuedBlocks(mgr)
  BY <1>1 DEF QueuedBlocks
<1>8. Covers(n, QueuedBlocks(mgr), cs, k)
  <2>1. Covers(n, QueuedBlocks(mgr), bs, k)
    BY <1>0 DEF SegmentInv
  <2>2. CASE n = 0
    BY <2>1, <2>2, <1>2 DEF Covers
  <2>3. CASE n > 0
    <3>1. k > 0
      BY <2>1, <2>3 DEF Covers
    <3>2. k \in 1 .. Len(bs)
      BY <1>2, <3>1
    <3>3. bs # <<>>
      BY <3>2, EmptySeq
    <3>4. cs[1] = bs[1] /\ cs[k] = bs[k]
      BY <1>5, <1>6, <3>2, <3>3
    <3> QED
      BY <2>1, <3>4 DEF Covers
  <2> QED
    BY <1>2, <2>2, <2>3
<1>9. \A tx \in mgr'.txChannels : tx.ch \in Queued(mgr') \/ Behind(mgr', tx.ch)
  <2> TAKE tx \in mgr'.txChannels
  <2>1. tx \in mgr.txChannels /\ tx.ch \in ChannelID /\ Queued(mgr') = Queued(mgr)
    BY <1>0, <1>1, BooksTypes DEF Queued
  <2> DEFINE first == Number[mgr.chan[tx.ch].blocks[1]]
  <2>2. mgr'.chan[tx.ch].blocks[1] = mgr.chan[tx.ch].blocks[1] /\ mgr'.blocks # <<>>
    BY <1>1, <1>5
  <2>3. first \in Nat
    <3>1. tx \in mgr.chan[tx.ch].pending /\ ChannelInv(tx.ch, mgr.chan[tx.ch])
      BY <1>0, <2>1 DEF BooksInv
    <3>2. mgr.chan[tx.ch].blocks # <<>>
      BY <3>1, UnusedChannel
    <3>3. mgr.chan[tx.ch].blocks \in Seq(Block)
      BY <1>0, <2>1, BooksTypes DEF Channel
    <3> QED
      BY <3>2, <3>3, EndsOf
  <2>4. CASE Behind(mgr, tx.ch) /\ bs # <<>>
    <3>1. first < Number[bs[1]]
      BY <2>4 DEF Behind
    <3>2. first < Number[mgr'.blocks[1]]
      BY <1>1, <1>6, <2>4, <3>1
    <3> QED
      BY <2>2, <3>2 DEF Behind
  <2>5. CASE Behind(mgr, tx.ch) /\ bs = <<>>
    <3>1. mgr.tip # NoBlock /\ first <= Number[mgr.tip]
      BY <2>5 DEF Behind
    <3>2. Parent[b] = mgr.tip /\ mgr.tip \in Block
      BY <1>2, <3>1 DEF ExtendsTip
    <3>3. Number[b] = Number[mgr.tip] + 1 /\ Number[mgr.tip] \in Nat
      BY <3>1, <3>2, ChainAssumption, BlockAssumption
    <3>4. mgr'.blocks[1] = b
      <4>1. Len(bs) = 0
        BY <2>5, EmptySeq
      <4> QED
        BY <1>1, <1>5, <4>1
    <3> HIDE DEF first
    <3>5. first < Number[mgr'.blocks[1]]
      BY <2>3, <3>1, <3>3, <3>4
    <3> QED
      BY <2>2, <3>5 DEF Behind, first
  <2> QED
    BY <1>0, <2>1, <2>4, <2>5 DEF SegmentInv
<1>10. SegmentInv(mgr')
  BY <1>0, <1>1, <1>4, <1>7, <1>8, <1>9 DEF SegmentInv
<1> QED
  BY <1>1, <1>10 DEF ContentsInv, Keeps

-----------------------------------------------------------------------------
(* The theorems *)

\* The contents of a new manager (NewChannelManager).
LEMMA InitContents == Init => ContentsInv(mgr)
<1> SUFFICES ASSUME Init PROVE ContentsInv(mgr)
  OBVIOUS
<1>1. BooksInv(mgr)
  BY InitIInv DEF IInv
<1> DEFINE unused == [NewChannel(FALSE, 0) EXCEPT !.timeout = 0]
<1>2. /\ mgr.blocks = <<>> /\ mgr.blockCursor = 0 /\ mgr.currentChannel = NoChannel
      /\ mgr.channelQueue = <<>> /\ mgr.txChannels = {}
      /\ mgr.chan = [id \in ChannelID |-> unused]
  BY DEF Init
<1>3. unused.pending = {} /\ unused.confirmed = {} /\ unused.frameCursor = 0
  BY DEF NewChannel
<1> HIDE DEF unused
<1>4. \A id \in ChannelID : Aligned(mgr.chan[id])
  BY <1>2, <1>3, AlignedUnsent
<1>5. Len(<<>>) = 0
  OBVIOUS
<1>6. IsChain(mgr.blocks)
  BY <1>2, <1>5 DEF IsChain
<1>7. Covers(Len(mgr.channelQueue), QueuedBlocks(mgr), mgr.blocks, mgr.blockCursor)
  BY <1>2, <1>5 DEF Covers
<1>8. SegmentInv(mgr)
  BY <1>2, <1>6, <1>7 DEF SegmentInv
<1> QED
  BY <1>1, <1>4, <1>8 DEF ContentsInv

\* Every call keeps the contents, one step per method of channelManager.
LEMMA NextContents ==
  IInv /\ ContentsInv(mgr) /\ [Next]_vars => ContentsInv(mgr') /\ Keeps(mgr, mgr')
<1> SUFFICES ASSUME IInv, ContentsInv(mgr), [Next]_vars
             PROVE  ContentsInv(mgr') /\ Keeps(mgr, mgr')
  OBVIOUS
<1>0. BooksInv(mgr') /\ L1Number \subseteq Nat
  BY NextIInv, ChainAssumption DEF IInv, L1Number
<1>1. ASSUME NEW b \in Block, AddL2Block(b) PROVE ContentsInv(mgr') /\ Keeps(mgr, mgr')
  BY <1>0, <1>1, AddedContents DEF AddL2Block
<1>2. ASSUME NEW tx \in mgr.txChannels, TxFailed(tx)
      PROVE  ContentsInv(mgr') /\ Keeps(mgr, mgr')
  BY <1>2, FailedContents
<1>3. ASSUME NEW tx \in mgr.txChannels, NEW n \in L1Number, TxConfirmed(tx, n)
      PROVE  ContentsInv(mgr') /\ Keeps(mgr, mgr')
  BY <1>3, ConfirmedContents
<1>4. ASSUME NEW l1Head \in L1Number, NEW useBlobs \in BOOLEAN, NEW pi \in PubInfo,
             NEW r \in TxDataOutcome(mgr, l1Head, useBlobs, pi), TxData(l1Head, useBlobs, pi, r)
      PROVE  ContentsInv(mgr') /\ Keeps(mgr, mgr')
  BY <1>0, <1>4, TxDataContents DEF TxData, Running
<1>5. ASSUME NEW ss \in SyncStatus, SyncAndPrune(ss)
      PROVE  ContentsInv(mgr') /\ Keeps(mgr, mgr')
  BY <1>5, SyncedContents DEF SyncAndPrune, Running, OutOfSync
<1>6. ASSUME NEW o \in L1Number, ClearState(o) PROVE ContentsInv(mgr') /\ Keeps(mgr, mgr')
  BY <1>0, <1>6, ClearedContents DEF ClearState
<1>7. ASSUME NEW o \in L1Number, NEW useBlobs \in BOOLEAN, Restart(o, useBlobs)
      PROVE  ContentsInv(mgr') /\ Keeps(mgr, mgr')
  <2> DEFINE s == Cleared(mgr, o)
  <2>1. mgr' = [s EXCEPT !.useBlobs = useBlobs, !.panic = "none"]
    BY <1>7 DEF Restart
  <2>2. ContentsInv(s) /\ Keeps(mgr, s)
    BY <1>0, ClearedContents
  <2> HIDE DEF s
  <2>3. /\ mgr'.blocks = s.blocks /\ mgr'.blockCursor = s.blockCursor /\ mgr'.tip = s.tip
        /\ mgr'.currentChannel = s.currentChannel /\ mgr'.channelQueue = s.channelQueue
        /\ mgr'.txChannels = s.txChannels /\ mgr'.chan = s.chan
    BY <2>1, <2>2 DEF ContentsInv, BooksInv, Manager
  <2>4. SegmentInv(mgr')
    BY <2>2, <2>3, SegmentSame, BooksTypes DEF ContentsInv
  <2> QED
    BY <1>0, <2>2, <2>3, <2>4 DEF ContentsInv, Keeps
<1>8. ASSUME UNCHANGED vars PROVE ContentsInv(mgr') /\ Keeps(mgr, mgr')
  <2>1. mgr' = mgr
    BY <1>8 DEF vars
  <2> QED
    BY <2>1 DEF Keeps
<1> QED
  BY <1>1, <1>2, <1>3, <1>4, <1>5, <1>6, <1>7, <1>8, Zenon DEF Next

\* No sequence of calls, receipts and restarts breaks the contents of the channels.
THEOREM ContentsInvariant == Spec => [](IInv /\ ContentsInv(mgr))
<1>1. Init => IInv /\ ContentsInv(mgr)
  BY InitIInv, InitContents
<1>2. (IInv /\ ContentsInv(mgr)) /\ [Next]_vars => (IInv /\ ContentsInv(mgr))'
  <2>1. ContentsInv(mgr)' <=> ContentsInv(mgr')
    BY DEF ContentsInv
  <2> QED
    BY <2>1, NextIInv, NextContents
<1> QED
  BY <1>1, <1>2, PTL DEF Spec

\* The blocks held are one segment of an L2 chain that ends at the tip, whatever
\* reorgs, prunings, invalidations and restarts came between the loads.
THEOREM ChainHeld == Spec => []BlocksFormChain
<1>1. ContentsInv(mgr) => BlocksFormChain
  BY DEF ContentsInv, SegmentInv, BlocksFormChain
<1> QED
  BY <1>1, ContentsInvariant, PTL

\* The queued channels, read one after the other, hold every block below the cursor
\* once: nothing is lost and nothing is sent twice by a rewind or a pruning.
THEOREM CursorCovered == Spec => []ChannelsCoverCursor
<1>1. ContentsInv(mgr) => ChannelsCoverCursor
  <2> SUFFICES ASSUME ContentsInv(mgr) PROVE ChannelsCoverCursor
    OBVIOUS
  <2> DEFINE q == mgr.channelQueue
             n == Len(q)
             B == QueuedBlocks(mgr)
             Blocks(i) == mgr.chan[q[i]].blocks
  <2>1. BooksInv(mgr) /\ Covers(n, B, mgr.blocks, mgr.blockCursor)
    BY DEF ContentsInv, SegmentInv
  <2>2. n \in Nat /\ DOMAIN q = 1 .. n /\ (q = <<>> <=> n = 0)
    BY <2>1, BooksTypes, EmptySeq
  <2>3. \A i \in 1 .. n : B[i] = Blocks(i)
    BY <2>1, QueuedBlocksAt
  <2>4. mgr.blockCursor <= Len(mgr.blocks)
    BY <2>1 DEF BooksInv
  <2> HIDE DEF B, n
  <2>5. \A i \in DOMAIN q : Blocks(i) # <<>> /\ IsChain(Blocks(i))
    BY <2>1, <2>2, <2>3 DEF Covers
  <2>6. \A i \in 1 .. n - 1 : Parent[Blocks(i + 1)[1]] = LastOf(Blocks(i))
    <3> TAKE i \in 1 .. n - 1
    <3>1. i \in 1 .. n /\ i + 1 \in 1 .. n
      BY <2>2
    <3>2. B[i] = Blocks(i) /\ B[i + 1] = Blocks(i + 1)
      BY <2>3, <3>1
    <3> HIDE DEF Blocks
    <3> QED
      BY <2>1, <3>2 DEF Covers
  <2>7. n > 0 => /\ mgr.blockCursor > 0
                 /\ LastOf(Blocks(n)) = mgr.blocks[mgr.blockCursor]
                 /\ Number[Blocks(1)[1]] <= Number[mgr.blocks[1]]
    <3>1. n > 0 => 1 \in 1 .. n /\ n \in 1 .. n
      BY <2>2
    <3>2. n > 0 => B[1] = Blocks(1) /\ B[n] = Blocks(n)
      BY <2>3, <3>1
    <3> HIDE DEF Blocks
    <3> QED
      BY <2>1, <3>2 DEF Covers
  <2>8. n = 0 => mgr.blockCursor = 0
    BY <2>1 DEF Covers
  <2>9. n = 0 \/ n > 0
    BY <2>2
  <2> QED
    BY <2>2, <2>4, <2>5, <2>6, <2>7, <2>8, <2>9 DEF ChannelsCoverCursor, n
<1> QED
  BY <1>1, ContentsInvariant, PTL

\* A frame is always sent in the same group, whatever fails and is sent again.
THEOREM GroupsDisjoint == Spec => []TxsDoNotOverlap
<1>1. ContentsInv(mgr) => TxsDoNotOverlap
  <2> SUFFICES ASSUME ContentsInv(mgr), NEW id \in ChannelID,
                      NEW t \in mgr.chan[id].pending \cup mgr.chan[id].confirmed,
                      NEW u \in mgr.chan[id].pending \cup mgr.chan[id].confirmed, t # u
               PROVE  t.last < u.first \/ u.last < t.first
    BY DEF TxsDoNotOverlap
  <2>1. ChannelInv(id, mgr.chan[id]) /\ Aligned(mgr.chan[id])
    BY DEF ContentsInv, BooksInv
  <2> QED
    BY <2>1, AlignedDisjoint
<1> QED
  BY <1>1, ContentsInvariant, PTL

\* A closed channel keeps its blocks and its frames for ever, also when it has left
\* the queue.
THEOREM ClosedKept == Spec => ClosedChannelsKeepContents
<1>1. (IInv /\ ContentsInv(mgr)) /\ [Next]_vars =>
        [\A id \in ChannelID :
           mgr.chan[id].full => /\ mgr'.chan[id].full
                                /\ mgr'.chan[id].blocks = mgr.chan[id].blocks
                                /\ mgr'.chan[id].numFrames = mgr.chan[id].numFrames]_mgr
  BY NextContents DEF Keeps
<1> QED
  BY <1>1, ContentsInvariant, PTL DEF Spec, ClosedChannelsKeepContents
=============================================================================
