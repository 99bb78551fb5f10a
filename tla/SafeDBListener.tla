--------------------------- MODULE SafeDBListener ---------------------------
(***************************************************************************)
(* The safe head database under the calls of the sync deriver              *)
(* (op-node/rollup/driver/sync_deriver.go): an update for every safe block *)
(* derived, a reset for every reset of the engine.  The guards are what    *)
(* the database relies on; OpNode, which makes the calls, is checked for   *)
(* them.  The database is on disk: a restart changes nothing here.         *)
(***************************************************************************)
EXTENDS SafeDB

VARIABLE db

Heights == {L1Number[b] : b \in L1Block}

DBInit == db = NewSafeDB

DBUpdate ==
  \E b \in L2Block, src \in L1Block :
    UpdateInOrder(db, b, src) /\ db' = SafeHeadUpdated(db, b, src)

DBReset ==
  \E s \in L2Block : ResetInOrder(db, s) /\ db' = SafeHeadReset(db, s)

ELSyncStarted == db' = SafeHeadClear(db)

DBNext == DBUpdate \/ DBReset \/ ELSyncStarted

DBSpec == DBInit /\ [][DBNext]_db

-----------------------------------------------------------------------------
(* Properties *)

\* Every entry is under the number of its own L1 block.
DBTypeOK ==
  /\ DOMAIN db \subseteq Heights
  /\ \A n \in DOMAIN db : db[n] \in Entry /\ L1Number[db[n].l1] = n

\* A later L1 block never has a lower safe head: resets cut off what contradicts
\* the new safe head, and nothing that precedes it.
EntriesAscend ==
  \A m, n \in DOMAIN db : m <= n => Number[db[m].l2] <= Number[db[n].l2]

\* The database, seen through SafeHeadAtL1, is the promised history.
History == INSTANCE SafeHeadHistory WITH
  answers <- [n \in Heights |-> SafeHeadAtL1(db, n)],
  Answer <- Entry, Unknown <- NotFound,
  Rank <- [a \in Entry |-> Number[a.l2]]

ImplementsHistory == History!Spec
=============================================================================
