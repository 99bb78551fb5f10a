-------------------------- MODULE SequencerCluster --------------------------
(***************************************************************************)
(* A highly available sequencer: servers that each run an execution        *)
(* engine, an op-node with a Sequencer, and an op-conductor, and the raft  *)
(* cluster of the conductors, which elects a leader and keeps the unsafe   *)
(* head.  A block is committed to raft before a goroutine publishes it,    *)
(* and a server starts sequencing only on raft's head.  Blocks reach the   *)
(* other servers late, in any order, or never; leadership moves, calls     *)
(* fail and nodes restart at any moment.  L1 stands still.                 *)
(***************************************************************************)
EXTENDS Sequencer, Conductor

CONSTANTS
  Server,
  Leader0,    \* the server that leads and sequences at first
  Builder,    \* [L2Block -> Server]: whose engine may build the block
  Scenarios   \* bounds on the environment; a behaviour stays within one of them

\* The number of elections that no conductor asked for, of answers of raft that are
\* lost, of other calls that fail, of restarts of a node, and of health checks that
\* fail for reasons of their own; stalls tells whether a change of leadership may
\* take so long that health checks fail because of it.
Scenario ==
  [ elections : Nat, lost : Nat, faults : Nat, restarts : Nat, ill : Nat, stalls : BOOLEAN ]

ASSUME ClusterAssumption ==
  /\ Leader0 \in Server
  /\ Builder \in [L2Block -> Server]
  /\ Scenarios \subseteq Scenario

VARIABLES
  node,       \* engine controller, engine, queued payloads and event queue of each server
  seq,        \* its Sequencer
  con,        \* its OpConductor
  raft,       \* leader: who can commit; belief: who thinks it leads; news: what
              \* LeaderCh holds; log: the blocks committed; head: the unsafe head
              \* in the state machine
  published,  \* the blocks that were gossiped
  budget      \* what is left of the scenario's bounds

vars == <<node, seq, con, raft, published, budget>>

Controller0(b) == [NewController EXCEPT !.unsafe = b, !.pending = Genesis,
                                        !.localSafe = Genesis, !.safe = Genesis,
                                        !.finalized = Genesis]

\* One server sequences, and every node is at genesis.
Init ==
  /\ node = [s \in Server |->
       [ eng |-> Controller0(Genesis), payloads |-> {}, queue |-> <<>>,
         el |-> [head |-> Genesis, safe |-> Genesis, finalized |-> Genesis] ]]
  /\ seq = [s \in Server |->
       [NewSequencer EXCEPT !.head = Genesis, !.active = s = Leader0, !.due = s = Leader0]]
  /\ con = [s \in Server |-> NewConductor(s = Leader0, s = Leader0, NoBlock)]
  /\ raft = [ leader |-> Leader0, belief |-> {Leader0}, log |-> {Genesis},
              head |-> Genesis, news |-> [s \in Server |-> "none"] ]
  /\ published = {}
  /\ budget \in Scenarios

-----------------------------------------------------------------------------
(* The node's event queue *)

Next1(s, t) == node[s].queue # <<>> /\ Head(node[s].queue).t = t

Ref(s) == Head(node[s].queue).ref

\* The handlers of the first event leave the engine controller at e and the engine
\* at l, and have emitted evs.
ProcessedAt(s, e, l, evs) ==
  node' = [node EXCEPT ![s].eng = e, ![s].el = l, ![s].queue = Tail(@) \o evs]

Processed(s, evs) == node' = [node EXCEPT ![s].queue = Tail(@) \o evs]

Emitted(s, evs) == node' = [node EXCEPT ![s].queue = @ \o evs]

\* The outcome of a call: it answers, or, while faults are left, fails.
Call(up) ==
  /\ up \/ budget.faults > 0
  /\ budget' = IF up THEN budget ELSE [budget EXCEPT !.faults = @ - 1]

\* The outcome of a call to raft, which may have had its effect although it fails.
Answered(ok) ==
  /\ ok \/ budget.lost > 0
  /\ budget' = IF ok THEN budget ELSE [budget EXCEPT !.lost = @ - 1]

\* The gossiper takes calls.
Silent(s) == seq[s].gossiping = NoBlock

\* The next event's handler need not wait for the gossiper.
Ready(s) == Silent(s) \/ ~AsksGossiper(seq[s], Head(node[s].queue))

\* The sequencer's lock is free: no commit is under way.
Unlocked(s) == ~Next1(s, "Committed")

\* The lock is held by a handler that waits: for the conductor or the gossiper.
Held(s) == node[s].queue # <<>> /\ (~Unlocked(s) \/ ~Ready(s))

\* What the engine may build on p: the tree bounds the chain.
Jobs(s, p) == {b \in L2Block : b # Genesis /\ Parent[b] = p /\ Builder[b] = s}

-----------------------------------------------------------------------------
(* The node: engine controller and sequencer on each event *)

\* The driver's timer fires, between two drains of the queue.  Where the tree ends
\* and nothing is in hand it does not: nothing could be built.
FireSequencerAction(s) ==
  /\ node[s].queue = <<>> /\ seq[s].due
  /\ Jobs(s, seq[s].head) # {} \/ seq[s].latest # NoBuild \/ seq[s].buffer # NoBlock
  /\ seq' = [seq EXCEPT ![s].due = FALSE]
  /\ Emitted(s, <<Signal("SequencerAction")>>)
  /\ UNCHANGED <<con, raft, published, budget>>

HandleSequencerAction(s) ==
  /\ Next1(s, "SequencerAction") /\ Ready(s)
  /\ \E up \in BOOLEAN :
       LET r == OnSequencerAction(seq[s], node[s].eng, up)
       IN  /\ up \/ r # OnSequencerAction(seq[s], node[s].eng, TRUE)
           /\ Call(up)
           /\ seq' = [seq EXCEPT ![s] = r.seq]
           /\ Processed(s, r.evs)
  /\ UNCHANGED <<con, raft, published>>

\* onBuildStart: the engine is told the block to build on.
HandleBuildStart(s) ==
  /\ Next1(s, "BuildStart")
  /\ LET p == Ref(s)
         e == node[s].eng
         fcu == Forkchoice(node[s].el, p, e.safe, e.finalized)
     IN  \/ /\ Call(FALSE)
            /\ Processed(s, <<Signal("EngineTemporaryError")>>)
         \/ /\ \E b \in Jobs(s, p) :
                 ProcessedAt(s, e, fcu.el, <<ForkchoiceUpdate(p, e.safe, e.finalized),
                                             Event("BuildStarted", b)>>)
            /\ UNCHANGED budget
  /\ UNCHANGED <<seq, con, raft, published>>

HandleBuildStarted(s) ==
  /\ Next1(s, "BuildStarted") /\ Ready(s)
  /\ seq' = [seq EXCEPT ![s] = OnBuildStarted(@, Ref(s))]
  /\ Processed(s, <<>>)
  /\ UNCHANGED <<con, raft, published, budget>>

HandleBuildSeal(s) ==
  /\ Next1(s, "BuildSeal")
  /\ \E up \in BOOLEAN :
       /\ Call(up)
       /\ Processed(s, <<Event(IF up THEN "BuildSealed" ELSE "PayloadSealFailed", Ref(s))>>)
  /\ UNCHANGED <<seq, con, raft, published>>

HandlePayloadSealFailed(s) ==
  /\ Next1(s, "PayloadSealFailed") /\ Ready(s)
  /\ seq' = [seq EXCEPT ![s] = OnPayloadSealFailed(@, Ref(s))]
  /\ Processed(s, <<>>)
  /\ UNCHANGED <<con, raft, published, budget>>

\* unsafeHeadTracker.Apply: only a higher block replaces the head, and the commit
\* of any other block succeeds as well.
Apply(h, b) == IF Number[h] < Number[b] THEN b ELSE h

Commit(b) == raft' = [raft EXCEPT !.log = @ \cup {b}, !.head = Apply(@, b)]

\* Mutant: the conductor's answer is not looked at.
HandleBuildSealedRegardless(s) ==
  /\ Next1(s, "BuildSealed")
  /\ node' = [node EXCEPT ![s].queue =
                 (IF seq[s].latest.info = Ref(s) THEN <<Event("Committed", Ref(s))>> ELSE <<>>)
                   \o Tail(@)]
  /\ IF raft.leader = s THEN Commit(Ref(s)) ELSE UNCHANGED raft
  /\ UNCHANGED <<seq, con, published, budget>>

\* onBuildSealed, up to the conductor's answer.
HandleBuildSealed(s) ==
  /\ Next1(s, "BuildSealed")
  /\ LET b == Ref(s)
         error == Processed(s, <<Signal("EngineTemporaryError")>>)
     IN  \/ /\ seq[s].latest.info # b
            /\ Processed(s, <<>>)
            /\ UNCHANGED <<raft, budget>>
         \/ /\ seq[s].latest.info = b /\ raft.leader = s
            /\ Commit(b)
            /\ \/ /\ node' = [node EXCEPT ![s].queue = <<Event("Committed", b)>> \o Tail(@)]
                  /\ UNCHANGED budget
               \/ Answered(FALSE) /\ error
         \/ /\ seq[s].latest.info = b /\ raft.leader # s
            /\ error
            /\ UNCHANGED <<raft, budget>>
  /\ UNCHANGED <<seq, con, published>>

\* The rest of onBuildSealed: hand the block to the gossiper, and insert it oneself.
HandleCommitted(s) ==
  /\ Next1(s, "Committed") /\ Ready(s)
  /\ seq' = [seq EXCEPT ![s] = OnBuildSealed(@, Ref(s))]
  /\ Processed(s, <<Event("PayloadProcess", Ref(s))>>)
  /\ UNCHANGED <<con, raft, published, budget>>

\* SignAndPublishL2Payload, on the gossiper's goroutine: whatever the sequencer has
\* done since.
Publish(s) ==
  /\ ~Silent(s)
  /\ \E up \in BOOLEAN :
       /\ Call(up)
       /\ published' = IF up THEN published \cup {seq[s].gossiping} ELSE published
       /\ seq' = [seq EXCEPT ![s] = OnGossiped(@, up)]
  /\ UNCHANGED <<node, con, raft>>

HandlePayloadProcess(s) ==
  /\ Next1(s, "PayloadProcess")
  /\ \E up \in BOOLEAN :
       /\ Call(up)
       /\ Processed(s, <<IF up THEN Event("PayloadSuccess", Ref(s))
                         ELSE Signal("EngineTemporaryError")>>)
  /\ UNCHANGED <<seq, con, raft, published>>

\* UnsafeUpdate matters only if the engine's update failed.
HandlePayloadSuccess(s) ==
  /\ Next1(s, "PayloadSuccess") /\ Ready(s)
  /\ \E up \in BOOLEAN :
       LET r == TryUpdateEngineInternal(SetUnsafeHead(node[s].eng, Ref(s)), node[s].el, up)
       IN  /\ Call(up)
           /\ ProcessedAt(s, r.eng, r.el,
                (IF r.eng.needFCU THEN <<Signal("UnsafeUpdate")>> ELSE <<>>) \o r.evs)
  /\ seq' = [seq EXCEPT ![s] = OnPayloadSuccess(@, Ref(s))]
  /\ UNCHANGED <<con, raft, published>>

HandleUnsafeUpdate(s) ==
  /\ Next1(s, "UnsafeUpdate")
  /\ \E up \in {TRUE} \cup {~node[s].eng.needFCU} :
       LET r == TryUpdateEngine(node[s].eng, node[s].el, up)
       IN  Call(up) /\ ProcessedAt(s, r.eng, r.el, r.evs)
  /\ UNCHANGED <<seq, con, raft, published>>

HandleEngineTemporaryError(s) ==
  /\ Next1(s, "EngineTemporaryError")
  /\ seq' = [seq EXCEPT ![s] = OnEngineTemporaryError(@)]
  /\ Processed(s, <<>>)
  /\ UNCHANGED <<con, raft, published, budget>>

\* The engine controller inserts the next queued payload, and the sequencer takes
\* note of the head; that wakes a Stop that waits for it.
HandleForkchoiceUpdate(s) ==
  /\ Next1(s, "ForkchoiceUpdate")
  /\ LET ev == Head(node[s].queue)
         n == node[s]
     IN  /\ seq' = [seq EXCEPT ![s] = OnForkchoiceUpdate(@, ev.unsafe)]
         /\ con' = IF con[s].pc = "stopWait" THEN [con EXCEPT ![s].pc = "stop"] ELSE con
         /\ \E kept \in DropInapplicable(n.payloads, ev.unsafe, ev.safe) :
              LET next == {p \in Lowest(kept) : /\ Parent[p] = ev.unsafe
                                                /\ Number[p] = Number[ev.unsafe] + 1
                                                /\ p # n.eng.unsafe}
                  done(r) == node' = [node EXCEPT ![s] =
                               [ eng |-> r.eng, el |-> r.el, payloads |-> kept,
                                 queue |-> Tail(@.queue) \o r.evs ]]
              IN  \/ /\ next = {}
                     /\ done([eng |-> n.eng, el |-> n.el, evs |-> <<>>])
                     /\ UNCHANGED budget
                  \/ \E p \in next, up \in BOOLEAN :
                       Call(up) /\ done(InsertUnsafePayload(n.eng, n.el, p, up))
  /\ UNCHANGED <<raft, published>>

Handle(s) ==
  \/ HandleSequencerAction(s) \/ HandleBuildStart(s) \/ HandleBuildStarted(s)
  \/ HandleBuildSeal(s) \/ HandlePayloadSealFailed(s) \/ HandleBuildSealed(s)
  \/ HandleCommitted(s) \/ HandlePayloadProcess(s) \/ HandlePayloadSuccess(s)
  \/ HandleUnsafeUpdate(s) \/ HandleEngineTemporaryError(s) \/ HandleForkchoiceUpdate(s)

\* AddUnsafePayload: a payload that is queued already is refused.
AddUnsafePayload(s, b) ==
  node' = IF b \in node[s].payloads THEN node
          ELSE [node EXCEPT ![s].payloads = @ \cup {b},
                            ![s].queue = @ \o <<RequestForkchoiceUpdate(node[s].eng)>>]

\* A published block arrives.  One that would be dropped at once is left out.
ReceivePayload(s) ==
  /\ \E b \in published \ node[s].payloads :
       Number[b] > Number[node[s].eng.unsafe] /\ AddUnsafePayload(s, b)
  /\ UNCHANGED <<seq, con, raft, published, budget>>

\* SyncStep: an update that the engine is still owed.
SyncStep(s) ==
  /\ node[s].queue = <<>> /\ node[s].eng.needFCU
  /\ LET r == TryUpdateEngine(node[s].eng, node[s].el, TRUE)
     IN  node' = [node EXCEPT ![s].eng = r.eng, ![s].el = r.el, ![s].queue = r.evs]
  /\ UNCHANGED <<seq, con, raft, published, budget>>

-----------------------------------------------------------------------------
(* The conductor *)

\* The conductor's loop moves on to c; nothing else of the server changes.
Moves(s, c) == con' = [con EXCEPT ![s] = c]

TakeLeaderUpdate(s) ==
  /\ con[s].pc = "loop" /\ raft.news[s] # "none"
  /\ Moves(s, HandleLeaderUpdate(con[s], raft.news[s] = "leader"))
  /\ raft' = [raft EXCEPT !.news[s] = "none"]
  /\ UNCHANGED <<node, seq, published, budget>>

\* Nobody produces blocks.
Stalled == ~ \E s \in Server : raft.leader = s /\ seq[s].active

\* A health check of the node: its head stands still, or something else is wrong.
TakeHealthUpdate(s) ==
  /\ con[s].pc = "loop"
  /\ \E h \in Health :
       /\ \/ h = "ok" /\ ~Stalled /\ UNCHANGED budget
          \/ h = "unhealthy" /\ Stalled /\ budget.stalls /\ UNCHANGED budget
          \/ h # "ok" /\ budget.ill > 0 /\ budget' = [budget EXCEPT !.ill = @ - 1]
       /\ HandleHealthUpdate(con[s], h) # con[s]
       /\ Moves(s, HandleHealthUpdate(con[s], h))
  /\ UNCHANGED <<node, seq, raft, published>>

TakeAction(s) ==
  /\ con[s].pc = "loop" /\ con[s].queued
  /\ Moves(s, Action(con[s], NoBlock))
  /\ UNCHANGED <<node, seq, raft, published, budget>>

\* compareUnsafeHead, first half: LatestUnsafePayload needs a leader's barrier.
ReadConsensus(s) ==
  /\ con[s].pc = "consensus"
  /\ Moves(s, IF raft.leader = s
                THEN [con[s] EXCEPT !.pc = "compare", !.cons = raft.head]
                ELSE StartFailed(con[s], NoBlock))
  /\ UNCHANGED <<node, seq, raft, published, budget>>

\* Second half: the engine's head.  Only a node one block behind is helped.
CompareUnsafeHead(s) ==
  /\ con[s].pc = "compare"
  /\ LET h == node[s].el.head
         c == con[s].cons
     IN  \E up \in BOOLEAN :
           /\ Call(up)
           /\ Moves(s, CASE up /\ c = h -> [con[s] EXCEPT !.pc = "leading"]
                         [] up /\ Number[c] = Number[h] + 1 -> [con[s] EXCEPT !.pc = "post"]
                         [] OTHER -> StartFailed(con[s], NoBlock))
  /\ UNCHANGED <<node, seq, raft, published>>

PostUnsafePayload(s) ==
  /\ con[s].pc = "post"
  /\ \/ /\ AddUnsafePayload(s, con[s].cons)
        /\ Moves(s, [con[s] EXCEPT !.pc = "leading"])
        /\ UNCHANGED budget
     \/ /\ Call(FALSE)
        /\ Moves(s, StartFailed(con[s], NoBlock))
        /\ UNCHANGED node
  /\ UNCHANGED <<seq, raft, published>>

\* Sequencer.Start: the leader check is made before the lock is taken.
CheckLeading(s) ==
  /\ con[s].pc = "leading"
  /\ Moves(s, IF s \in raft.belief THEN [con[s] EXCEPT !.pc = "start"]
                ELSE StartFailed(con[s], NoBlock))
  /\ UNCHANGED <<node, seq, raft, published, budget>>

\* A sequencer that runs already is as good; the answer may be lost.
StartSequencer(s) ==
  /\ con[s].pc = "start" /\ Unlocked(s)
  /\ LET refused == StartRefused(seq[s], con[s].cons)
     IN  /\ refused \/ seq[s].active \/ Silent(s)
         /\ seq' = IF refused THEN seq ELSE [seq EXCEPT ![s] = ForceStart(@)]
         /\ \/ /\ Moves(s, IF refused THEN StartFailed(con[s], NoBlock)
                             ELSE StartSucceeded(con[s], NoBlock))
               /\ UNCHANGED budget
            \/ ~refused /\ Call(FALSE) /\ Moves(s, StartFailed(con[s], NoBlock))
  /\ UNCHANGED <<node, raft, published>>

\* Sequencer.Stop: the leader waits for its last block to become its head, unless it
\* fails to learn that it leads.
StopSequencer(s) ==
  /\ con[s].pc = "stop" /\ Unlocked(s)
  /\ LET behind == seq[s].active /\ ~HeadIsSealed(seq[s])
     IN  \E up \in {TRUE} \cup {~behind} :
           LET wait == behind /\ up /\ s \in raft.belief
           IN  /\ Call(up)
               /\ Moves(s, IF wait THEN [con[s] EXCEPT !.pc = "stopWait"]
                           ELSE StopReturned(con[s], TRUE, NoBlock))
               /\ seq' = IF wait \/ ~seq[s].active THEN seq ELSE [seq EXCEPT ![s] = Stop(@)]
  /\ UNCHANGED <<node, raft, published>>

\* The call times out, waiting for the head or for the lock.
StopTimeout(s) ==
  /\ con[s].pc = "stopWait" \/ (con[s].pc = "stop" /\ Held(s))
  /\ Moves(s, StopReturned(con[s], FALSE, NoBlock))
  /\ UNCHANGED <<node, seq, raft, published, budget>>

\* TransferLeader: not leading is no error.  A leader may fail to find a successor,
\* or give up waiting for one that takes over all the same.
TransferLeader(s) ==
  /\ con[s].pc = "transfer"
  /\ \/ /\ s \notin raft.belief \/ raft.leader # s
        /\ Moves(s, TransferReturned(con[s], s \notin raft.belief, NoBlock))
        /\ UNCHANGED <<raft, budget>>
     \/ /\ raft.leader = s
        /\ \E t \in Server \ {s}, ok \in BOOLEAN :
             /\ Answered(ok)
             /\ raft' = [raft EXCEPT !.leader = t, !.belief = (@ \ {s}) \cup {t},
                                     !.news[s] = "follower", !.news[t] = "leader"]
             /\ Moves(s, TransferReturned(con[s], ok, NoBlock))
     \/ /\ raft.leader = s
        /\ Answered(FALSE)
        /\ Moves(s, TransferReturned(con[s], FALSE, NoBlock))
        /\ UNCHANGED raft
  /\ UNCHANGED <<node, seq, published>>

Calls(s) ==
  \/ ReadConsensus(s) \/ CompareUnsafeHead(s) \/ PostUnsafePayload(s) \/ CheckLeading(s)
  \/ StartSequencer(s) \/ StopSequencer(s) \/ StopTimeout(s) \/ TransferLeader(s)

-----------------------------------------------------------------------------
(* Raft, and the failure of a node *)

\* Another server is elected; the old leader does not know yet.
Elect(s) ==
  /\ budget.elections > 0 /\ raft.leader # s
  /\ raft' = [raft EXCEPT !.leader = s, !.belief = @ \cup {s}, !.news[s] = "leader"]
  /\ budget' = [budget EXCEPT !.elections = @ - 1]
  /\ UNCHANGED <<node, seq, con, published>>

StepDown(s) ==
  /\ s \in raft.belief /\ raft.leader # s
  /\ raft' = [raft EXCEPT !.belief = @ \ {s}, !.news[s] = "follower"]
  /\ UNCHANGED <<node, seq, con, published, budget>>

\* Mutant: the conductor goes on waiting for a stop that nobody serves.
RestartNodeKeepingCall(s) ==
  /\ budget.restarts > 0
  /\ budget' = [budget EXCEPT !.restarts = @ - 1]
  /\ LET e == Controller0(node[s].el.head)
     IN  node' = [node EXCEPT ![s].eng = e, ![s].payloads = {},
                              ![s].queue = <<RequestForkchoiceUpdate(e)>>]
  /\ seq' = [seq EXCEPT ![s] = NewSequencer]
  /\ UNCHANGED <<con, raft, published>>

\* The node starts again, stopped, with what its engine has; the conductor runs on.
RestartNode(s) ==
  /\ budget.restarts > 0
  /\ budget' = [budget EXCEPT !.restarts = @ - 1]
  /\ LET e == Controller0(node[s].el.head)
     IN  node' = [node EXCEPT ![s].eng = e, ![s].payloads = {},
                              ![s].queue = <<RequestForkchoiceUpdate(e)>>]
  /\ seq' = [seq EXCEPT ![s] = NewSequencer]
  /\ con' = IF con[s].pc = "stopWait" THEN [con EXCEPT ![s] = StopReturned(@, FALSE, NoBlock)]
            ELSE con
  /\ UNCHANGED <<raft, published>>

Next ==
  \E s \in Server :
    \/ FireSequencerAction(s) \/ Handle(s) \/ Publish(s) \/ ReceivePayload(s) \/ SyncStep(s)
    \/ TakeLeaderUpdate(s) \/ TakeHealthUpdate(s) \/ TakeAction(s) \/ Calls(s)
    \/ Elect(s) \/ StepDown(s) \/ RestartNode(s)

Spec == Init /\ [][Next]_vars

(***************************************************************************)
(* Fairness: a node's event loop goes on, a publication and the            *)
(* conductor's calls end, the conductor's select does not ignore a ready   *)
(* channel for ever, a leader that was replaced finds out, and a published *)
(* block reaches every node by gossip or by the sync protocol that fills   *)
(* the gaps.  Nothing is assumed of the health checks.                     *)
(***************************************************************************)
Fairness ==
  \A s \in Server :
    /\ WF_vars(Handle(s) \/ SyncStep(s) \/ FireSequencerAction(s))
    /\ WF_vars(Publish(s))
    /\ WF_vars(Calls(s))
    /\ WF_vars(StepDown(s))
    /\ WF_vars(ReceivePayload(s))
    /\ SF_vars(TakeLeaderUpdate(s))
    /\ SF_vars(TakeAction(s))

FairSpec == Spec /\ Fairness

-----------------------------------------------------------------------------
(* Properties *)

\* The state has the shape the code gives it; a stop waits only for a sequencer that
\* runs, and the conductor has a head in hand exactly while it starts one.
TypeOK ==
  /\ \A s \in Server :
       /\ node[s].eng \in Controller /\ node[s].el \in Engine
       /\ node[s].payloads \subseteq L2Block
       /\ seq[s] \in SequencerState
       /\ con[s] \in [ leader : BOOLEAN, health : Health, active : BOOLEAN, prev : Status,
                       status : Status, queued : BOOLEAN, pc : Place, failed : BOOLEAN,
                       cons : L2Ref ]
  /\ raft \in [ leader : Server, belief : SUBSET Server, log : SUBSET L2Block,
                head : L2Block, news : [Server -> {"none", "leader", "follower"}] ]
  /\ published \subseteq L2Block
  /\ \A s \in Server :
       /\ con[s].pc = "stopWait" => seq[s].active
       /\ con[s].cons # NoBlock <=> con[s].pc \in {"compare", "post", "leading", "start"}

\* The blocks that were ever published form one chain: leadership moving while
\* blocks are built, committed and gossiped makes nobody reorganize unsafe blocks.
NoUnsafeReorg ==
  \A b, c \in published : Extends(b, c) \/ Extends(c, b)

\* Raft's head is on top of every published block, so whoever takes over from it
\* drops none.
HeadCoversPublished ==
  \A b \in published : Extends(raft.head, b)

\* No two blocks of one height were committed.
OneBlockPerHeight ==
  \A b, c \in raft.log : Number[b] = Number[c] => b = c

\* The one way in which unsafe blocks are ever dropped is that consensus took two
\* blocks of one height (Apply does not refuse the second).  Otherwise, although
\* answers are lost, jobs expire, nodes crash between the commit and the gossip and
\* blocks arrive by every path, the published blocks form one chain and raft's head
\* is on top of it (onBuildSealed commits before anyone can build on the block).
ReorgOnlyByRivals ==
  OneBlockPerHeight => NoUnsafeReorg /\ HeadCoversPublished

\* A server that starts to sequence does so on top of every published block, again
\* unless consensus has rivals (OpConductor.startSequencer, Sequencer.Start).
StartsOnTop ==
  [][\A s \in Server : ~seq[s].active /\ seq[s].active' /\ OneBlockPerHeight =>
       \A b \in published : Extends(seq[s].head, b)]_vars

\* A block is committed, and handed to the gossiper, only while its sequencer runs:
\* a stop leaves no job behind that would be sealed and sent out later.  (The
\* gossiper may be publishing still when the stop returns.)
SequencesOnlyWhileActive ==
  [][/\ \A b \in raft'.log \ raft.log : seq[Builder[b]].active
     /\ \A s \in Server : seq'[s].gossiping \notin {NoBlock, seq[s].gossiping} =>
          seq[s].active]_vars

\* The cluster does not stop sequencing for good: after every change of leadership
\* the leader's sequencer is started in the end.
SequencingResumes == []<>~Stalled
=============================================================================
