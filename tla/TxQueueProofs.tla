---------------------------- MODULE TxQueueProofs ----------------------------
(***************************************************************************)
(* What holds of the transaction queue for any number of transactions and  *)
(* any limit.  The types hold with and without Alt DA.  The two safety     *)
(* properties are proved for a batcher without Alt DA, whose publishing    *)
(* loop is the only caller of Queue.Send; with Alt DA they fail, as        *)
(* TxQueueClose.cfg shows for the first.                                   *)
(***************************************************************************)
EXTENDS TxQueue, FiniteSetTheorems, TLAPS

\* The loop starts with well-typed state.
LEMMA QueueInitType == Init => TypeOK
<1> SUFFICES ASSUME Init PROVE TypeOK
  OBVIOUS
<1>1. [pc |-> "none", err |-> FALSE] \in HandlerState
  BY Zenon DEF HandlerState
<1>2. handler \in [Tx -> HandlerState]
  BY <1>1 DEF Init
<1>3. killed \in BOOLEAN /\ useAltDA \in BOOLEAN
  BY Zenon DEF Init
<1>4. publisher \in PublisherState /\ sender \in [Tx -> SenderState]
  BY DEF Init, PublisherState, SenderState
<1> QED
  BY <1>2, <1>3, <1>4 DEF Init, TypeOK

\* Goroutines are at their steps and groups exist before they are used, whoever
\* calls Queue.Send.
THEOREM QueueTypeCorrect == Spec => []TypeOK
<1>1. Init => TypeOK
  BY QueueInitType
<1>2. TypeOK /\ [Next /\ UNCHANGED useAltDA]_<<vars, useAltDA>> => TypeOK'
  <2> SUFFICES ASSUME TypeOK, [Next]_vars, useAltDA' = useAltDA PROVE TypeOK'
    BY DEF vars
  <2> USE DEF TypeOK, PublisherState, SenderState, HandlerState
  <2>1. ASSUME NEW t \in Tx, SendDirect(t) PROVE TypeOK'
    BY <2>1 DEF SendDirect
  <2>2. ASSUME NEW t \in Tx, GroupContext(t) PROVE TypeOK'
    BY <2>2 DEF GroupContext
  <2>3. ASSUME NEW t \in Tx, Go(t) PROVE TypeOK'
    BY <2>3 DEF Go
  <2>4. ASSUME NEW t \in Tx, SendAsync(t) PROVE TypeOK'
    BY <2>4 DEF SendAsync
  <2>5. ASSUME NEW t \in Tx, NEW err \in BOOLEAN, Respond(t, err) PROVE TypeOK'
    BY <2>5 DEF Respond
  <2>6. ASSUME NEW t \in Tx, CtxDone(t) PROVE TypeOK'
    BY <2>6 DEF CtxDone
  <2>7. ASSUME NEW t \in Tx, Receive(t) PROVE TypeOK'
    BY <2>7 DEF Receive
  <2>8. ASSUME NEW t \in Tx, HandlerReturns(t) PROVE TypeOK'
    BY <2>8 DEF HandlerReturns
  <2>9. ASSUME NEW t \in Tx, RequestStep(t) PROVE TypeOK'
    BY <2>9 DEF RequestStep, RequestDA, Posted, PostFails
  <2>10. CASE Publish \/ NothingToPublish \/ SignalsEnd \/ DAWait \/ QueueWait \/ Kill
    BY <2>10 DEF Publish, NothingToPublish, SignalsEnd, DAWait, QueueWait, Kill, queueVars
  <2>11. CASE UNCHANGED vars
    BY <2>11 DEF vars, queueVars
  <2> QED
    BY <2>1, <2>2, <2>3, <2>4, <2>5, <2>6, <2>7, <2>8, <2>9, <2>10, <2>11
       DEF Next, SendStep, HandlerStep
<1> QED
  BY <1>1, <1>2, PTL DEF Spec

-----------------------------------------------------------------------------
(* One sender at a time *)

InSend(t) == sender[t] \in {"context", "go", "prepare"}
ActiveTxs == {t \in Tx : Active(t)}

\* Without Alt DA the loop is in Send for one transaction at most, which has the
\* group in use when it waits for a slot, so every handler that runs is in the
\* group in use: the one Queue.Wait waits for and whose slots are counted.
OneSender ==
  /\ daGroup = {}
  /\ \A t \in Tx : sender[t] # "post"
  /\ \A t \in Tx : InSend(t) => publisher = "send"
  /\ \A t, u \in Tx : InSend(t) /\ InSend(u) => t = u
  /\ \A t \in Tx : sender[t] = "go" => txGroup[t] = group
  /\ \A t \in Tx : Active(t) => txGroup[t] = group

QueueInv ==
  /\ TypeOK
  /\ OneSender
  /\ publisher = "closed" => ActiveTxs = {}
  /\ PendingBounded

\* Removing handlers keeps the number of handlers within the limit.
LEMMA FewerPending ==
  ASSUME NEW S, NEW T, IsFiniteSet(Tx), T \subseteq Tx, S \subseteq T,
         Cardinality(T) <= MaxPending
  PROVE  Cardinality(S) <= MaxPending
<1>1. IsFiniteSet(T)
  BY FS_Subset
<1>2. IsFiniteSet(S) /\ Cardinality(S) <= Cardinality(T)
  BY <1>1, FS_Subset
<1>3. Cardinality(S) \in Nat /\ Cardinality(T) \in Nat
  BY <1>1, <1>2, FS_CardinalityType
<1> QED
  BY <1>2, <1>3, QueueAssumption

\* One more handler adds at most one to their number.
LEMMA OneMorePending ==
  ASSUME NEW S, IsFiniteSet(S), NEW t
  PROVE  /\ Cardinality(S) \in Nat /\ Cardinality(S \cup {t}) \in Nat
         /\ Cardinality(S \cup {t}) <= Cardinality(S) + 1
<1>1. /\ IsFiniteSet(S \cup {t})
      /\ Cardinality(S \cup {t}) = IF t \in S THEN Cardinality(S) ELSE Cardinality(S) + 1
  BY FS_AddElement
<1>2. Cardinality(S) \in Nat /\ Cardinality(S \cup {t}) \in Nat
  BY <1>1, FS_CardinalityType
<1> QED
  BY <1>1, <1>2

\* Every step of the loop without Alt DA, its sends and the handlers keeps the
\* invariant.
LEMMA QueueInvStep ==
  ASSUME ~useAltDA, QueueInv, TypeOK', [Next]_vars
  PROVE  QueueInv'
<1> USE DEF QueueInv, OneSender, TypeOK, InSend, Active, ActiveTxs, PendingBounded
<1>0. /\ IsFiniteSet(Tx) /\ MaxPending \in Nat
      /\ (ActiveTxs' \subseteq ActiveTxs => PendingBounded')
  BY QueueAssumption, FewerPending
<1>1. ASSUME NEW t \in Tx, SendDirect(t) PROVE QueueInv'
  BY <1>0, <1>1 DEF SendDirect
<1>2. ASSUME NEW t \in Tx, GroupContext(t) PROVE QueueInv'
  BY <1>0, <1>2 DEF GroupContext, HandlersOf
<1>3. ASSUME NEW t \in Tx, Go(t) PROVE QueueInv'
  <2>1. ActiveTxs = HandlersOf(group) /\ txGroup[t] = group
    BY <1>3 DEF Go, HandlersOf
  <2>2. ActiveTxs' = ActiveTxs \cup {t}
    BY <1>3 DEF Go
  <2>3. IsFiniteSet(ActiveTxs)
    BY <1>0, FS_Subset
  <2>4. /\ Cardinality(ActiveTxs) \in Nat /\ Cardinality(ActiveTxs \cup {t}) \in Nat
        /\ Cardinality(ActiveTxs \cup {t}) <= Cardinality(ActiveTxs) + 1
    BY <2>3, OneMorePending
  <2>5. PendingBounded'
    <3>1. MaxPending = 0 \/ Cardinality(ActiveTxs) < MaxPending
      BY <1>3, <2>1 DEF Go
    <3>2. MaxPending > 0 => Cardinality(ActiveTxs \cup {t}) <= MaxPending
      BY <1>0, <2>4, <3>1
    <3> QED
      BY <2>2, <3>2
  <2> QED
    BY <1>3, <2>1, <2>5 DEF Go
<1>4. ASSUME NEW t \in Tx, SendAsync(t) PROVE QueueInv'
  BY <1>0, <1>4 DEF SendAsync
<1>5. ASSUME NEW t \in Tx, HandlerStep(t) PROVE QueueInv'
  BY <1>0, <1>5 DEF HandlerStep, Respond, CtxDone, Receive, HandlerReturns
<1>6. ASSUME NEW t \in Tx PROVE ~RequestStep(t)
  BY DEF RequestStep, RequestDA, Posted, PostFails
<1>7. CASE Publish \/ NothingToPublish \/ SignalsEnd \/ DAWait \/ Kill
  BY <1>0, <1>7 DEF Publish, NothingToPublish, SignalsEnd, DAWait, Kill, queueVars
<1>8. CASE QueueWait
  BY <1>0, <1>8 DEF QueueWait, queueVars, HandlersOf
<1>9. CASE UNCHANGED vars
  BY <1>0, <1>9 DEF vars, queueVars
<1> QED
  BY <1>1, <1>2, <1>3, <1>4, <1>5, <1>6, <1>7, <1>8, <1>9 DEF Next, SendStep

\* The invariant holds initially.
LEMMA QueueInvInit == Init => QueueInv
<1> SUFFICES ASSUME Init PROVE QueueInv
  OBVIOUS
<1>1. TypeOK
  BY QueueInitType
<1>2. {t \in Tx : Active(t)} = {}
  BY DEF Init, Active
<1>3. PendingBounded
  BY <1>2, FS_EmptySet, QueueAssumption DEF PendingBounded
<1> QED
  BY <1>1, <1>2, <1>3 DEF Init, QueueInv, OneSender, InSend, Active, ActiveTxs

\* Without Alt DA the invariant holds throughout.
THEOREM OneSenderInvariant == Spec => [](~useAltDA => QueueInv)
<1>1. Init => (~useAltDA => QueueInv)
  BY QueueInvInit
<1>2. (~useAltDA => QueueInv) /\ TypeOK' /\ [Next /\ UNCHANGED useAltDA]_<<vars, useAltDA>>
        => (~useAltDA => QueueInv)'
  <2> SUFFICES ASSUME ~useAltDA => QueueInv, TypeOK', [Next]_vars, useAltDA' = useAltDA,
                      ~useAltDA'
               PROVE  QueueInv'
    BY DEF vars
  <2> QED
    BY QueueInvStep
<1> QED
  BY <1>1, <1>2, QueueTypeCorrect, PTL DEF Spec

\* Without Alt DA publishingLoop never closes receiptsCh under a handler that
\* has yet to report.
THEOREM NoSendOnClosedReceipts == Spec => []SerialSendersReport
<1>1. (~useAltDA => QueueInv) => SerialSendersReport
  BY DEF QueueInv, ActiveTxs, Active, ReceiptsChannelOutlivesSenders, SerialSendersReport
<1> QED
  BY <1>1, OneSenderInvariant, PTL

\* Without Alt DA the queue never has more transactions in flight than its
\* limit, however often a failure replaces the group.
THEOREM PendingLimitKept == Spec => []SerialSendsBounded
<1>1. (~useAltDA => QueueInv) => SerialSendsBounded
  BY DEF QueueInv, SerialSendsBounded
<1> QED
  BY <1>1, OneSenderInvariant, PTL
=============================================================================
