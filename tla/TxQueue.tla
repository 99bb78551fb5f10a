------------------------------- MODULE TxQueue -------------------------------
(***************************************************************************)
(* The transaction queue (op-service/txmgr/queue.go) under the batcher's   *)
(* publishingLoop (op-batcher/batcher/driver.go), at the grain of the      *)
(* steps that BatcherDriver takes as one: Queue.Send first picks a group,  *)
(* then waits for one of its slots, then starts a handler in it.  Several  *)
(* goroutines are in Send at once when Alt DA is in use.  When the loop    *)
(* ends it waits for the DA requests, then for the queue, and closes the   *)
(* channel the handlers report on.                                         *)
(*                                                                         *)
(* A group is an errgroup.Group with its context (golang.org/x/sync): the  *)
(* first error of a handler cancels the context, and Wait returns when no  *)
(* handler runs.  Groups are numbered in the order of their creation.      *)
(***************************************************************************)
EXTENDS Integers, FiniteSets

CONSTANTS
  Tx,                      \* bound: the transactions sent while the loop runs
  MaxPending,              \* Queue.maxPending, 0 for no limit
  MaxConcurrentDARequests  \* limit of daGroup, 0 for no limit

ASSUME QueueAssumption ==
  /\ MaxPending \in Nat
  /\ MaxConcurrentDARequests \in Nat
  /\ IsFiniteSet(Tx)

VARIABLES
  publisher,   \* publishingLoop: where it is
  daGroup,     \* transactions whose DA request goroutine runs
  sender,      \* [Tx -> place of the goroutine that sends the transaction]
  handler,     \* [Tx -> place of its handler and the error it reports]
  txGroup,     \* [Tx -> the group Send picked for it], 0 before
  group,       \* Queue.group, 0 for nil
  cancelled,   \* groups that a handler's error cancelled
  killed,      \* killCtx, the parent of all group contexts, is cancelled
  useAltDA     \* CLIConfig.UseAltDA, chosen when the batcher is configured

queueVars == <<sender, handler, txGroup, group, cancelled>>
vars == <<publisher, daGroup, queueVars, killed>>

SenderState == {"none", "post", "context", "go", "prepare", "done"}
HandlerState == [pc : {"none", "wait", "report", "return", "done"}, err : BOOLEAN]
PublisherState == {"loop", "publish", "send", "daWait", "queueWait", "closed"}

-----------------------------------------------------------------------------
(* Queue *)

CtxErr(g) == killed \/ g \in cancelled

Active(t) == handler[t].pc \in {"wait", "report", "return"}

HandlersOf(g) == {t \in Tx : txGroup[t] = g /\ Active(t)}

\* Mutant: a cancelled group is replaced while its handlers still run.
GroupContextNoWait(t) ==
  /\ sender[t] = "context"
  /\ group' = IF group = 0 \/ CtxErr(group) THEN group + 1 ELSE group
  /\ txGroup' = [txGroup EXCEPT ![t] = group']
  /\ sender' = [sender EXCEPT ![t] = "go"]
  /\ UNCHANGED <<publisher, daGroup, handler, cancelled, killed>>

\* groupContext, under groupLock: the group in use, or, once that is cancelled
\* and its handlers returned, a new one.
GroupContext(t) ==
  /\ sender[t] = "context"
  /\ \/ /\ group # 0 /\ ~CtxErr(group)
        /\ UNCHANGED group
     \/ /\ group = 0 \/ CtxErr(group)
        /\ HandlersOf(group) = {}
        /\ group' = group + 1
  /\ txGroup' = [txGroup EXCEPT ![t] = group']
  /\ sender' = [sender EXCEPT ![t] = "go"]
  /\ UNCHANGED <<publisher, daGroup, handler, cancelled, killed>>

\* group.Go waits for a slot of the group that was picked, whichever group is
\* the queue's by now.
Go(t) ==
  /\ sender[t] = "go"
  /\ MaxPending = 0 \/ Cardinality(HandlersOf(txGroup[t])) < MaxPending
  /\ handler' = [handler EXCEPT ![t].pc = "wait"]
  /\ sender' = [sender EXCEPT ![t] = "prepare"]
  /\ UNCHANGED <<publisher, daGroup, txGroup, group, cancelled, killed>>

\* SendAsync returns when the transaction is prepared or could not be; the
\* response comes through a buffered channel, so it never blocks.  With it ends
\* the DA request, or the loop goes on.
SendAsync(t) ==
  /\ sender[t] = "prepare"
  /\ sender' = [sender EXCEPT ![t] = "done"]
  /\ IF t \in daGroup THEN daGroup' = daGroup \ {t} /\ UNCHANGED publisher
                       ELSE publisher' = "loop" /\ UNCHANGED daGroup
  /\ UNCHANGED <<handler, txGroup, group, cancelled, killed>>

\* handleResponse: the transaction was confirmed or failed ...
Respond(t, err) ==
  /\ handler[t].pc = "wait"
  /\ handler' = [handler EXCEPT ![t] = [pc |-> "report", err |-> err]]
  /\ UNCHANGED <<publisher, daGroup, sender, txGroup, group, cancelled, killed>>

\* Mutant: the handler waits for the response alone.
CtxDoneUnnoticed(t) ==
  /\ handler[t].pc = "wait"
  /\ FALSE
  /\ UNCHANGED vars

\* ... or the context of its group is done.
CtxDone(t) ==
  /\ handler[t].pc = "wait"
  /\ CtxErr(txGroup[t])
  /\ handler' = [handler EXCEPT ![t] = [pc |-> "report", err |-> TRUE]]
  /\ UNCHANGED <<publisher, daGroup, sender, txGroup, group, cancelled, killed>>

\* The receipts loop takes the receipt from the handler.
Receive(t) ==
  /\ handler[t].pc = "report"
  /\ publisher # "closed"
  /\ handler' = [handler EXCEPT ![t].pc = "return"]
  /\ UNCHANGED <<publisher, daGroup, sender, txGroup, group, cancelled, killed>>

\* The handler's error cancels the group, then its slot is free.
HandlerReturns(t) ==
  /\ handler[t].pc = "return"
  /\ cancelled' = IF handler[t].err THEN cancelled \cup {txGroup[t]} ELSE cancelled
  /\ handler' = [handler EXCEPT ![t].pc = "done"]
  /\ UNCHANGED <<publisher, daGroup, sender, txGroup, group, killed>>

-----------------------------------------------------------------------------
(* publishingLoop *)

\* publishStateToL1 found its context alive.
Publish ==
  /\ publisher = "loop"
  /\ ~killed
  /\ publisher' = "publish"
  /\ UNCHANGED <<daGroup, queueVars, killed>>

NothingToPublish ==
  /\ publisher = "publish"
  /\ publisher' = "loop"
  /\ UNCHANGED <<daGroup, queueVars, killed>>

\* The loop itself sends a transaction, a batch or a cancellation, and is in Send
\* until SendAsync returns.
SendDirect(t) ==
  /\ publisher = "publish"
  /\ sender[t] = "none"
  /\ sender' = [sender EXCEPT ![t] = "context"]
  /\ publisher' = "send"
  /\ UNCHANGED <<daGroup, handler, txGroup, group, cancelled, killed>>

\* publishToAltDAAndL1 starts a goroutine, unless too many run.
RequestDA(t) ==
  /\ useAltDA
  /\ publisher = "publish"
  /\ sender[t] = "none"
  /\ MaxConcurrentDARequests = 0 \/ Cardinality(daGroup) < MaxConcurrentDARequests
  /\ sender' = [sender EXCEPT ![t] = "post"]
  /\ daGroup' = daGroup \cup {t}
  /\ publisher' = "loop"
  /\ UNCHANGED <<handler, txGroup, group, cancelled, killed>>

\* The DA server took the data: the commitment is sent ...
Posted(t) ==
  /\ sender[t] = "post"
  /\ sender' = [sender EXCEPT ![t] = "context"]
  /\ UNCHANGED <<publisher, daGroup, handler, txGroup, group, cancelled, killed>>

\* ... or it did not, and the goroutine ends.
PostFails(t) ==
  /\ sender[t] = "post"
  /\ sender' = [sender EXCEPT ![t] = "done"]
  /\ daGroup' = daGroup \ {t}
  /\ UNCHANGED <<publisher, handler, txGroup, group, cancelled, killed>>

\* publishSignal is closed.
SignalsEnd ==
  /\ publisher = "loop"
  /\ publisher' = "daWait"
  /\ UNCHANGED <<daGroup, queueVars, killed>>

DAWait ==
  /\ publisher = "daWait"
  /\ daGroup = {}
  /\ publisher' = "queueWait"
  /\ UNCHANGED <<daGroup, queueVars, killed>>

\* Mutant: the queue is not waited for.
QueueWaitSkipped ==
  /\ publisher = "queueWait"
  /\ publisher' = "closed"
  /\ UNCHANGED <<daGroup, queueVars, killed>>

\* Queue.Wait waits for the group in use; then receiptsCh is closed.
QueueWait ==
  /\ publisher = "queueWait"
  /\ HandlersOf(group) = {}
  /\ publisher' = "closed"
  /\ UNCHANGED <<daGroup, queueVars, killed>>

\* StopBatchSubmitting runs out of patience.
Kill ==
  /\ ~killed
  /\ killed' = TRUE
  /\ UNCHANGED <<publisher, daGroup, queueVars>>

-----------------------------------------------------------------------------
Init ==
  /\ publisher = "loop"
  /\ daGroup = {}
  /\ sender = [t \in Tx |-> "none"]
  /\ handler = [t \in Tx |-> [pc |-> "none", err |-> FALSE]]
  /\ txGroup = [t \in Tx |-> 0]
  /\ group = 0
  /\ cancelled = {}
  /\ killed = FALSE
  /\ useAltDA \in BOOLEAN

SendStep(t) == SendDirect(t) \/ GroupContext(t) \/ Go(t) \/ SendAsync(t)
HandlerStep(t) == (\E err \in BOOLEAN : Respond(t, err)) \/ CtxDone(t) \/ Receive(t) \/ HandlerReturns(t)
RequestStep(t) == RequestDA(t) \/ Posted(t) \/ PostFails(t)

Next ==
  \/ \E t \in Tx : SendStep(t) \/ HandlerStep(t) \/ RequestStep(t)
  \/ Publish \/ NothingToPublish \/ SignalsEnd \/ DAWait \/ QueueWait \/ Kill

Spec == Init /\ [][Next /\ UNCHANGED useAltDA]_<<vars, useAltDA>>

\* Goroutines that can run do.  No answer is assumed of L1; of the DA server only
\* that a request fails once its context, cancelled before killCtx, is done.
Fairness ==
  /\ WF_vars(NothingToPublish) /\ WF_vars(SignalsEnd) /\ WF_vars(DAWait) /\ WF_vars(QueueWait)
  /\ \A t \in Tx :
       /\ WF_vars(GroupContext(t)) /\ WF_vars(Go(t)) /\ WF_vars(SendAsync(t))
       /\ WF_vars(CtxDone(t)) /\ WF_vars(Receive(t)) /\ WF_vars(HandlerReturns(t))
       /\ WF_vars(killed /\ PostFails(t))

FairSpec == Spec /\ Fairness
-----------------------------------------------------------------------------
(* Properties *)

\* Every goroutine is at one of its steps, and no transaction is in a group that
\* the queue has not created.
TypeOK ==
  /\ publisher \in PublisherState
  /\ daGroup \subseteq Tx
  /\ sender \in [Tx -> SenderState]
  /\ handler \in [Tx -> HandlerState]
  /\ group \in Nat
  /\ txGroup \in [Tx -> 0 .. group]
  /\ cancelled \subseteq 0 .. group
  /\ killed \in BOOLEAN
  /\ useAltDA \in BOOLEAN

\* No handler still has a receipt to hand over when the channel is closed, else it
\* panics.
ReceiptsChannelOutlivesSenders ==
  publisher = "closed" => \A t \in Tx : handler[t].pc \notin {"wait", "report"}

\* "We _must_ wait for all senders on receiptsCh to finish before we can close
\* it" (publishingLoop): so it does in a batcher without Alt DA, whose loop is the
\* only sender, however groups are cancelled and replaced.
SerialSendersReport == ~useAltDA => ReceiptsChannelOutlivesSenders

\* No more than maxPending transactions are pending.
PendingBounded ==
  MaxPending > 0 => Cardinality({t \in Tx : Active(t)}) <= MaxPending

\* "Send will wait until the number of pending txs is below the max pending"
\* (Queue.Send), also while a cancelled group is replaced by a new one, as long as
\* the loop is the only sender.
SerialSendsBounded == ~useAltDA => PendingBounded

\* A forced stop never hangs: once killCtx is cancelled the publishing loop gets
\* past a full queue, a cancelled group and the two waits, and closes receiptsCh
\* for the receipts loop to end.
KillEndsPublishing == killed ~> (publisher = "closed")
=============================================================================
