------------------------------- MODULE SafeDB -------------------------------
(***************************************************************************)
(* The safe head database (op-node/node/safedb/safedb.go): for the number  *)
(* of an L1 block, that block and the L2 block that became safe with it.   *)
(* The column of the key-value store is a function on the keys present;    *)
(* each operation holds the lock, and writes in one batch.                 *)
(***************************************************************************)
EXTENDS Chains

Entry == [l1 : L1Block, l2 : L2Block]

NewSafeDB == [n \in {} |-> n]

\* The keys are those of a range query that starts at n, and below n.
KeysFrom(db, n) == {m \in DOMAIN db : m >= n}
KeysBelow(db, n) == {m \in DOMAIN db : m < n}

\* Mutant: the key is the number of the L2 block's origin.
SafeHeadUpdatedByOrigin(db, b, src) ==
  LET n == L1Number[L1Origin[b]]
  IN  [m \in DOMAIN db \cup {n} |-> IF m = n THEN [l1 |-> src, l2 |-> b] ELSE db[m]]

\* SafeHeadUpdated: b became safe with the L1 block src.
SafeHeadUpdated(db, b, src) ==
  LET n == L1Number[src]
  IN  [m \in DOMAIN db \cup {n} |-> IF m = n THEN [l1 |-> src, l2 |-> b] ELSE db[m]]

\* The entries at or after the origin of s that made s, or a later block, safe.
MadeSafe(db, s) ==
  {n \in KeysFrom(db, L1Number[L1Origin[s]]) : Number[db[n].l2] >= Number[s]}

First(keys) == CHOOSE n \in keys : \A m \in keys : n <= m
Last(keys) == CHOOSE n \in keys : \A m \in keys : m <= n

\* Mutant: the search goes backwards and stops at the last such entry.
SafeHeadResetLast(db, s) ==
  IF MadeSafe(db, s) = {} THEN db
  ELSE LET n == Last(MadeSafe(db, s))
       IN  [m \in KeysBelow(db, n) \cup {n} |->
              IF m = n THEN [l1 |-> db[n].l1, l2 |-> s] ELSE db[m]]

\* Mutant: the entries that follow stay.
SafeHeadResetInPlace(db, s) ==
  IF MadeSafe(db, s) = {} THEN db
  ELSE [db EXCEPT ![First(MadeSafe(db, s))].l2 = s]

\* SafeHeadReset: the first entry that made s safe, and all that follow, go; s is
\* recorded in its place, unless the records start there.
SafeHeadReset(db, s) ==
  IF MadeSafe(db, s) = {} THEN db
  ELSE LET n == First(MadeSafe(db, s))
           kept == KeysBelow(db, n)
           keys == IF kept = {} THEN {} ELSE kept \cup {n}
       IN  [m \in keys |-> IF m = n THEN [l1 |-> db[n].l1, l2 |-> s] ELSE db[m]]

\* The reset to the zero reference that OnELSyncStarted asks for: every entry is
\* at or after the first.
SafeHeadClear(db) == NewSafeDB

NotFound == [l1 |-> NoBlock, l2 |-> NoBlock]

\* SafeHeadAtL1: the last entry at or before the L1 block's number.
SafeHeadAtL1(db, n) ==
  IF KeysBelow(db, n + 1) = {} THEN NotFound
  ELSE db[Last(KeysBelow(db, n + 1))]

-----------------------------------------------------------------------------
(* What the database relies on: the calls that derivation makes. *)

\* An update is for the L1 block of the last entry or a later one, and no lower
\* a safe head.
UpdateInOrder(db, b, src) ==
  \A n \in DOMAIN db : n <= L1Number[src] /\ Number[db[n].l2] <= Number[b]

\* No block above s was recorded as safe before the origin of s.
ResetInOrder(db, s) ==
  \A n \in KeysBelow(db, L1Number[L1Origin[s]]) : Number[db[n].l2] <= Number[s]
=============================================================================
