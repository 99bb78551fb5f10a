# Mantle v2: specifications of the batcher, the rollup node and highly available sequencing

Mantle v2 is an OP-Stack rollup. Its **sequencer** builds L2 blocks; the **batcher** packs them into
channels, cuts the channels into frames and puts the frames into L1 transactions; every **rollup node**
derives the safe L2 chain back from those transactions and tells its execution engine. Several
sequencers may stand by for each other under **conductors**. This directory specifies the control logic
of these parts:

- the batcher, end to end below its RPC interface: its data structure, its goroutines, its transaction
  queue, and how it starts and stops;
- a verifier node: engine controller, attributes handler, derivation pipeline, finalizer, safe head
  database, step scheduler and event queue, through reorganizations, failing calls, resets and restarts;
- the round trip of a block: the batcher against L1 and the stages of derivation that read it back;
- a cluster of sequencers: the sequencer, the engine controller under it, the conductor above it, and
  raft as the environment.

Contents:
[Inventory](#inventory-of-the-system) ·
[Batcher](#the-batcher) ·
[Node](#the-rollup-node) ·
[Cluster](#the-sequencer-cluster) ·
[Modules](#modules-and-their-correspondence-to-the-code) ·
[Runs](#runs) ·
[Fairness](#fairness) ·
[Proofs](#proofs) ·
[Findings](#findings) ·
[Observations without a run](#observations-without-a-run) ·
[Left out](#what-the-models-leave-out) ·
[Not modelled](#not-modelled) ·
[Plan](#plan)

## Inventory of the system

| Component | State it keeps | Operations | Hard parts and what makes it correct | Modules |
|---|---|---|---|---|
| `op-batcher/batcher` channel, manager | block queue and cursor, queued channels, transactions in flight | load, pack, cut frames, confirm, fail, prune, clear | receipts out of order, reorgs, timeouts; every block goes to L1 in order | `Channel`, `ChannelManager` |
| `op-batcher/batcher` driver | three loops, signal channel, txpool state, contexts | start, stop, flush, poll, publish, receive | interleavings at every unlock, shutdown order | `BatcherDriver`, `BatcherLifecycle` |
| `op-service/txmgr` queue | error group and its context | send, wait | group replaced while others send; limit | `TxQueue` |
| `op-service/txmgr` manager | nonce, send state | send, bump fees, confirm | timeouts and retries; one transaction per nonce | |
| `op-node/rollup/derive` | traversal, stages, last attributes, reset state | step, reset, deposits-only replacement | L1 reorganizes between two steps; every node derives the same chain | `DerivationPipeline`, `DerivationStages`, `RoundTrip` |
| `op-node/rollup/engine`, `attributes` | unsafe, pending safe, local safe, safe, finalized heads; queued payloads; attributes | insert, consolidate, build, force, forkchoice, reset | events handled after the reset that made them obsolete; engine errors of three severities | `EngineController`, `OpNode` |
| `op-node/rollup/finality` | bounded buffer of L1/L2 links | derived, finalize, reset | only what was derived from a finalized L1 block is finalized | `Finalizer` |
| `op-node/rollup/driver`, `sync`, `op-service/event` | event queue, step schedule | handle events, back off, find heads | no event or request is lost; a walk back that meets a reorg | `OpNode` |
| `op-node/node/safedb` | L1 height to safe head, on disk | update, cut, query | reorganizations while the node was down | `SafeDB`, `SafeHeadHistory` |
| `op-node/rollup/sequencing`, `async` | building job, latest head and sealed block, gossip buffer, active flag | start, seal, commit, gossip, insert, stop | crash between commit and gossip; no two blocks of a height | `Sequencer` |
| `op-conductor` | leader, health, sequencer active; unsafe head in raft | react to changes, start, stop, hand over | leadership moves during every remote call; somebody sequences in the end | `Conductor`, `SequencerCluster` |
| `op-node/p2p` | peers, payload queues | gossip, request | network I/O | |
| `op-proposer` | last proposal | propose | retries of what was submitted | |
| `op-alt-da` | commitments, challenges | challenge, resolve, expire | windows and reorgs | |
| `op-challenger` | games in progress | schedule, act | a game is handled by one worker at a time | |
| `packages/contracts-bedrock` | outputs, withdrawals | propose, prove, finalize | Solidity, atomic calls | |
| `cannon`, `op-program`, `rust` | VM state | step | data, outside model checking | |
| `gas-oracle`, `op-dispute-mon`, `op-supervisor`, deployment, tests | | | monitoring, interop, tooling | |

`PROJECT.json` lists every component with its status, and under `hazards` the places in the modelled
code where a test would hardly reach what can go wrong.

## The batcher

```
   sequencer (op-node)                      L1
      |  sync status, blocks                ^   | receipts
      v                                     |   v
 blockLoadingLoop --publishSignal--> publishingLoop --Queue.Send--> handlers --receiptsCh--> receiptsLoop
      |   syncAndPrune, AddL2Block, Clear    | TxData                         TxFailed, TxConfirmed |
      +--------------------------> channelManager (channelMgrMutex) <------------------------------+
      +--unsafeBytesUpdated--> throttlingLoop
```

Blocks are held in a queue with a cursor: those before the cursor are in a channel, those after it are
not. A channel that timed out on L1, or whose data availability type has to change, is *invalidated*:
the cursor goes back to its first block, and it and all newer channels are dropped. Blocks and channels
that became safe are *pruned* from the front. If the sequencer's status contradicts what is held, all is
*cleared* and loaded again. A transaction carries consecutive frames of one channel; if it fails, the
channel's frame cursor goes back to its first frame. The manager is called by three goroutines under one
lock; between the calls anything may happen.

What makes it correct: the blocks held are one chain; the queued channels hold exactly the blocks before
the cursor, without gap or overlap; a channel counts as submitted only if each frame is confirmed; every
transaction taken out of a channel is reported on; shutdown ends every goroutine and loses no receipt.

## The rollup node

```
  L1 watchers --head, finalized-->  +--------- one first-in first-out queue of events ---------+
  p2p --unsafe payloads---------->  | SyncDeriver, StepSchedulingDeriver, PipelineDeriver,      |
  operator --reset--------------->  | AttributesHandler, EngineController, Finalizer            |
                                    +-----------------------------------------------------------+
                                         | forkchoice, build, seal, insert        | safe heads
                                         v                                        v
                                    execution engine                         safe head database
```

The driver's loop drains the queue and, when it is empty, attempts a step if one was requested. An
event is handled by every component in the order of registration; what the handlers emit goes to the
end of the queue, so between two events of one activity anything may be handled, a reset included. The
pipeline hands out attributes one at a time and waits for their confirmation; the attributes handler
compares them with the block the engine has at that height, or has them built; the engine controller
promotes the result to pending safe, local safe and safe; the finalizer notes from which L1 block it
came. L1 is read by number and by hash, so a reorganization shows up as a parent that does not match,
as a block that is not found, or as an origin that is not canonical, and leads to a reset: the heads are
found again from the engine's labels (`FindL2Heads`) and the pipeline starts a channel timeout earlier.

What makes it correct: the safe and the finalized head are what L1 determines, whatever was in flight
when L1 or the node changed; finality is never taken back; the safe head database says the same as L1;
and when L1 stands still, derivation gets to its end.

## The sequencer cluster

```
   server p                                     server q
   op-conductor  <---- raft: leader, unsafe head ---->  op-conductor
     | start on raft's head, stop, post payload            |
     v  ^ commit, "am I leader"                            v  ^
   op-node: Sequencer, EngineController  <--- gossip --->  op-node
     v                                                     v
   execution engine                                     execution engine
```

A block that the sequencer sealed is committed to raft, then handed to the gossiper and inserted into the
own engine; each is an event or a call that may fail. The gossiper publishes it on a goroutine of its own,
whatever the sequencer does meanwhile, a stop included. A conductor hears of leadership and health
and runs `action()`, which decides among eight cases and calls its sequencer; every one of these calls
is a step of its own here, because leadership, the node's head and the sequencer change in between. Only
the leader can commit, but a server that was replaced goes on for a while: its conductor has not heard
of it, or its stop waits or has timed out.

What makes it correct: the published blocks are one chain, raft's head is on top of it, and a server starts
there, unless consensus was given two blocks of one height; only a running sequencer commits blocks and
hands them to the gossiper; and after a change of leadership somebody sequences again.

## Modules and their correspondence to the code

### Batcher

`Channel` (`channel.go`, `channel_builder.go`, `channel_config.go`, `tx_data.go`). A channel is a record,
its methods are operators. A block stands for its hash, with constants for its height, parent and L1
origin. Frames are numbers, a transaction is a channel and a range of frames: the Go code's transaction
identifier is the list of frame identifiers, so sending the same frames again gives the same identifier.
The compressor is nondeterministic: a channel may be full after any number of blocks and may have any
number of frames ready, except that a span batch releases nothing before it is closed, and that closing a
channel always cuts at least one frame.

`ChannelManager` extends it (`channel_manager.go`, `sync_actions.go`, `syncAndPrune` of `driver.go`). The
variable `mgr` is the manager; the operators that take a manager `s` are the methods it calls internally,
and there is one action for each method that is called from outside: `AddL2Block`, `TxFailed`,
`TxConfirmed`, `TxData`, `SyncAndPrune`, `ClearState`, and `Restart` for a new process. Here the callers
may make any call with any argument in any order, which includes a sequencer that answers anything: it is
the abstract specification of which the driver is an implementation. `chan` keeps channels that left the
queue because `txChannels` still refers to them. A Go panic sets `mgr.panic` to the reason, after which
only `Restart` is possible. `rewindToBlock`'s unsigned subtraction is an integer here, and a negative
index panics like the index out of range it becomes.

`BatcherDriver` extends it (`driver.go`, `queue.go`). One action for each stretch of a loop between two
points where another goroutine may run: taking or releasing a lock, sending, receiving. The receipts loop
reads `txpoolState` without the lock, so its read (`ReceiveReceipt`) and its write (`SetTxPoolState`) are
two steps. `Send` is one step here. A bag holds the transactions in flight, because the same identifier
can be in flight twice after a state was cleared. `StopAndStart` is what a stop and a start leave behind;
the steps of those calls are in `BatcherLifecycle`. Whether Alt DA is in use is chosen at the start and
kept in the variable `useAltDA`, so that one run covers both. `framesFit` likewise tells whether a frame of
the configured size fits in a blob: if it does not, `blobTxCandidate` fails and `SendTransaction` returns its
error with the transaction in nobody's hands, which is a disjunct of its own.

`TxQueue` (`queue.go`, the end of `publishingLoop`) splits `Send` into the four steps between which other
senders may run: pick a group under the lock, enter it, prepare, answer. Here a transaction is an opaque
name and the channel manager is left out. A group is a number, so that a sender may hold an old one.
`useAltDA` tells whether there are several senders.

`BatcherLifecycle` (`driver.go`) has any number of callers in `StartBatchSubmitting`,
`StopBatchSubmitting` and `Flush`, the lock, the two contexts, and the loops reduced to whether they run
and what they wait for. The deferred calls of a loop run in Go's order: `wg.Done` first, then the closing
of the channels. The throttler that stops the batcher itself is a caller whose context is already done.

### Rollup node

`Chains` holds the trees of L1 and L2 blocks that the node's modules share: numbers, parents, origins, the
batches each L1 block contains, and what a chain of L1 blocks determines (`Derived`, `DerivedTip`). A batch
is named by the block it gives. A batch in `Invalid` gives a block that the engine refuses;
`DepositsOnly` is its replacement.

`EngineController` (`engine/*.go`, `sync/start.go`) and `DerivationPipeline` (`derive/pipeline.go`,
`l1_traversal.go`, `attributes_queue.go`, `check_l1.go`) are operators: they take a component's fields and
return the new ones with the events to emit. The execution engine is three labels and does what
op-program's implementation of the engine API in this repository does on a forkchoice update. The
pipeline's stages between the L1 traversal and the attributes queue are reduced to what they yield.
`Finalizer` (`finality/finalizer.go`) and `SafeDB` (`node/safedb/safedb.go`) likewise.

The walk of `FindL2Heads` is a set here: `Walked` is what the loop passes at most, `NotCanonical` and `Canonical`
what it makes of the L1 origins it sees, `ReadyForSafe` the blocks at which it stops early. Each of the loop's
variables is the highest or lowest block of one of them. `Rewound` and `ReorgFinalized` are two of its early returns.

`OpNode` composes them. Its variables are the components' fields, the queue and the environment; there is
one action for each event, which does what *all* components do on it, in the order of registration, and
one for each call that another goroutine makes (`OnL1Unsafe`, `OnL1Finalized`, `ReceivePayload`,
`ManualReset`). The node is a verifier with consensus-layer sync, past Holocene and before interop, with
the safe head database on. A call that fails takes one of `budget.faults`; one that fails while `initialReset`
looks up the parent of an L2 block resets the pipeline once more (`WalksBack`). `Restart` keeps the engine's
labels and the database and nothing else. Past Holocene a backup unsafe head is never restored, and
`needSafeHeadUpdate` is never set without `needFCUCall`, so neither is a field.

`DerivationStages` (`derive/frame_queue.go`, `channel_assembler.go`, `channel.go`, `channel_in_reader.go`,
`batch_stage.go`, `base_batch_stage.go`, the head of `batches.go`, `initialReset` of `pipeline.go`) has the stages that
`DerivationPipeline` leaves out, by the rules of Holocene, as one record: the L1 origin, the data of the L1
block that is not read yet, the channel that is being assembled, the batches of the channel that is being
read, and the safe head. `RoundTrip` extends `ChannelManager` and composes it with them: the loops of the
batcher, reduced to a tick that gets its status from this node, the loading of a block, a publication and a
receipt; L1, which includes what was sent in any order; the sequencer, which adds blocks; and the node, one
frame or batch at a time. A transaction that was reported as failed may still be included, and what is sent
again is a submission of its own, so the frames of a channel can be on L1 twice. The node of `RoundTrip`
has no engine: a batch that is accepted is safe.

`SafeDBListener` is the database under any calls in the order it relies on (`UpdateInOrder`,
`ResetInOrder`). `OpNode` extends it and is checked to make the calls in that order (`ListenerInOrder`).
`SafeHeadHistory` is the abstract specification of what the database promises to those who query it; that both the
database and the node implement it is proved, and the run `node` checks it.

### Sequencer cluster

`Sequencer` (`sequencing/sequencer.go`, `async/asyncgossiper.go`) and `Conductor`
(`op-conductor/conductor/service.go`) are operators as above. A building job is named by the block it will
give: sealing a job twice gives the same block, and a new job may give another one. `due` is "an action is
planned and the driver's timer has not fired". `gossiping` is the block that the gossiper's goroutine is
publishing: `OnBuildSealed` hands it over, and `Publish` is the rest (`SignAndPublishL2Payload`), which may
fail. Until it ends the gossiper takes no calls, and the handlers that `AsksGossiper` names wait, with the
sequencer's lock in their hands.

`SequencerCluster` composes them with `EngineController`, one copy of each per server. `onBuildSealed`
holds the sequencer's lock while it waits for the conductor, so it is two events here, the second
(`Committed`) at the front of the queue, and `Unlocked` keeps a start or a stop out in between. `Stop`
gives up the lock while it waits for its last block; that is the place `stopWait`. It does not wait if the
server does not lead or fails to learn whether it does, and never for the gossiper. `raft.leader` is who can
commit, `raft.belief` who thinks that it leads, `raft.news` what `LeaderCh` holds, which keeps only the
latest value. Raft's log is one history: a commit is one step, and `raft.log` the blocks committed so far. `UnsafeUpdate` is left out where it does
nothing.

### Proof and model-checking modules

`ChannelManagerProofs`, `ChannelContentsProofs`, `BatcherDriverProofs`, `TxQueueProofs`,
`BatcherLifecycleProofs`, `OpNodeProofs` (the node and its safe head database), `SequencerClusterProofs` and
`RoundTripProofs` hold the theorems. The `MC` modules give the constants values; `TxQueue` and
`BatcherLifecycle` are checked directly. Definitions whose comment begins with "Mutant" are wrong variants
of the definition that follows; they are used to see that each property can fail.

## Runs

| Run | Shows | Distinct states (about) |
|---|---|---|
| `channel_manager` | all properties of `ChannelManager` | 160 400 |
| `driver` | the loops, with and without Alt DA, with frames that fit in blobs and not | 668 596 |
| `queue` | the queue with one sender and with several, liveness under kill | 214 618 |
| `lifecycle` | starts, stops, flushes, and who may kill what is in flight; liveness of a forced stop | 4 422 |
| `node` | safety of the node through a reorganization, a failing call, a restart and a manual reset; the database implements its history; what resets find | 219 080 |
| `node_finality` | finality around a reorganization, a failing call, or a restart and a failing call | 384 600 |
| `node_live` | the safe head converges when L1 stands still | 1 315 |
| `node_stale` | a violated property, see [Findings](#findings) | |
| `round_trip` | batcher, L1 and derivation together | 1 252 600 |
| `cluster` | safety of the cluster | 1 557 957 |
| `cluster_live` | sequencing resumes after a change of leadership | 77 866 |
| `cluster_reorg` | a violated property, see [Findings](#findings) | |

What the properties say, beyond the types:

- `BlocksFormChain`, `ChannelsCoverCursor`: the block queue is a segment of one chain and the queued
  channels are its part before the cursor, after any mix of reorgs, invalidations, prunings and clears.
- `FullySubmittedIsConfirmed`, `TxsDoNotOverlap`: no order of failures and late confirmations makes a
  channel look complete with a frame missing, and resubmission cuts the frames at the same places.
- `PendingTxsTracked`: the manager's map and the channels' maps of unconfirmed transactions agree.
- `AssertedPanicsUnreachable`: two of the code's panics are assertions that hold. The other two are not,
  see [below](#observations-without-a-run).
- `NothingLeftBehind`: when the batcher has nothing left to send, to load or to wait for, and the node has
  read all of L1, the node has derived every block. So whatever derivation dropped because it came late, out
  of order or twice, the batcher noticed.
- `PrunedStaysSafe`: a block that the batcher has let go of is derived again by a node that was reset.
- `PanicOnlyOnceSafe`: a rewind that panics because the blocks are gone concerns blocks that are safe.
- `ClosedChannelsKeepContents`: nothing is added to a channel after its last frame was cut.
- `FittingTxsAccountedFor`: if frames fit in a blob, every transaction the manager waits for is in the hands
  of a goroutine that will report on it, whichever call fails. Without that premise (`TxsAccountedFor`) it
  does not hold, see [Observations](#observations-without-a-run).
- `CancellationTracked`: the pool waits for a cancellation transaction exactly when there is one.
- `SerialSendersReport`, `SerialSendsBounded`, `KillEndsPublishing`: the queue's three promises, the first
  two for a single sender. With several the first two do not hold, see
  [Observations](#observations-without-a-run).
- `NoOtherRoutinesExist`, `InFlightIsReceived`, `OnlyForceKills`, `ForcedStopReturns`: one generation of
  loops, nothing left after a stop, no receipt without a reader, what is in flight is given up only by a
  forced stop (never by a start that meets a stop, nor by a stop that is not forced), and a forced stop does
  not hang.
- `NoCriticalError`: none of the sanity checks that make the node exit fails.
- `SafeIsDerived`, `FinalizedIsDerived`, `FinalityIsFinal`: a node that has read L1 and is at rest calls
  safe, and the engine at any time calls finalized, only what L1 determines, and finality only grows.
- `PromotedIsBuilt`: a block becomes safe with an L1 block only if that L1 block carries its batch, and in
  its deposits-only form exactly if the engine rejects the original; what peers sent and what was in flight
  during a reset cannot slip in.
- `NothingAwaited`: no failure, reset or restart in between loses the event that ends a wait, so an empty
  queue means that nobody waits.
- `ResetIsCanonical`: a reset finds heads that extend each other and whose L1 origins are canonical as far
  as the L1 node can tell.
- `ListenerInOrder`, `SafeDBIsTruthful`: the database is called in the order it relies on and gives, for
  every L1 block the node has read, what was safe there.
- `SafeHeadConverges`: no event, confirmation or step request is lost.
- `ImplementsHistory`: an update or a reset never changes what is known of lower heights.
- `ReorgOnlyByRivals`: there is one way only in which published blocks can come to be on different chains, or
  off the chain of raft's head: consensus was given two blocks of one height. Lost answers, expired jobs,
  restarts between commit and publication, blocks that come late or never, and elections do no harm
  otherwise. That consensus *can* be given two is what `cluster_reorg` shows, and it is in the run `cluster`
  too: its scenarios `LostThenExpires` and `UpdateOwed` reach such states without a second election, and
  violate `NoUnsafeReorg` (see [Observations](#observations-without-a-run)).
- `StartsOnTop`: with the same exception, a server starts to sequence on top of all that was published.
- `SequencesOnlyWhileActive`: a sequencer that was stopped commits no block and hands none to the gossiper,
  whatever was queued when the stop came. What the gossiper has in hand it may publish afterwards.
- `SequencingResumes`: the leader's sequencer is active again and again, not that it never fails.

**Scenarios.** What the environment may do is bounded by the constant `Scenarios`: the initial state picks
one record of numbers, and each fault takes one away. One run thus covers several bounded environments
instead of their product, which would be out of reach. The actions themselves are never bounded otherwise.

**Bounds.** `channel_manager` has a chain of three heights that forks at the last (`g`, `a1`, then `a2` or
`b2`), two channels, two frames per channel with both DA types (one or two frames per transaction), and
two L1 heights with a channel timeout of one. That is enough for a reorg, two channels in the queue, a
channel that is invalidated while another follows, a failure behind a confirmation, a timeout on chain, a
timeout by the sequencing window, and pruning in the middle of a channel. `ChannelID` also bounds how many
channels are ever created, as an identifier is random and not used again; `MaxFrames` stands for the
65 536 frames of the code. `driver` has two channels of one frame and two transactions in flight, and one
slot in each group. There L1 stands still, so channels do not time out; the proofs cover it.
`SignalEvery` is 100 in the code. The queue has three transactions: two for a group that fails and one for
its replacement. The life cycle has two callers; each may start, stop and flush again and again.

The node's L1 is `a0 a1 a2` with the branch `b1 b2 b3` on `a0`. `a1` and `a2` hold a batch each (`x1`,
`x2`); `b1` holds one that is invalid (`y1`) and is replaced by `d1`, `b2` holds none, `b3` one on top of
`d1` (`y2`). So a reorganization finds safe blocks that have to go, a longer branch, an L1 block without
batches, and a replacement that must not be confused with the original, which peers also gossip. The
scenarios are one reorganization, one failing call anywhere, and one restart with one manual reset; for
finality, a reorganization, a failing call, or a restart with a failing call while L1 blocks become final;
the last is where the pipeline's reset walks back over a parent that cannot be had. The finalizer's buffer
holds one entry in `node`, so that it overflows, and two in the other runs; the code's holds `4 * 32 + 1`.

`round_trip` has three L2 blocks, the last two with a later L1 origin, three channels of up to two frames
and a channel timeout of one L1 block; the runs of the batcher alone cover blobs and reorganized L2 chains.
Its scenarios are: four L1 and two L2 blocks without faults, which is enough for a channel that times out on
L1, is rewound and sent again; three L1 blocks and one L2 block with a failure that may be a false one, or
with a new batcher process whose predecessor's transactions are still to be included; and two L1 blocks and
three L2 blocks with a reset of the node to any block that was safe. Two transactions may be in flight, one
in the last scenario. The sequencing window does not expire.

The cluster has two servers. `p` has two jobs for genesis, `p1` and `r1`, so a job that was dropped can be
replaced by another; on `p1` either may build, `p2` or `q2`: blocks that compete at both heights, and a server
that is two behind. The scenarios of `cluster` are: two calls of a node that fail (`UpdateOwed`); an election
with a lost answer of raft and a failing call, in any order (`LostThenExpires`); a restart with an ill leader
(`NodeRestarts`); and a restart during which the network stalls and every conductor may find its node
unhealthy (`RestartStalls`). In the first two raft comes to hold two blocks of one height in some states, in
which the premise of `ReorgOnlyByRivals` fails; in the other two, and in `AnswerLost` of `cluster_live`, where
no call but raft's fails, `NoUnsafeReorg` holds as it stands. `StartsOnTop` is checked with leadership that
moves once; a second election, in combination with a fault, would make the state space too large for a
passing run, and `ElectedTwice` is the scenario of `cluster_reorg` only. That the answer of a *transfer* of
leadership is lost is in the model (`TransferLeader`) but in no run's scenario.

The view of the batcher's MC modules leaves out channels that nothing refers to any more, and that of
`round_trip` the L1 blocks that no one will read again. Such a channel
cannot change, so a property that it violates was violated when it was still referred to. Symmetry is over
the random channel identifiers. The queue's run allows the system to end, because the publishing loop
does, and so do the round trip's and the cluster's runs, because the finite chains end. The others check for deadlock.

## Fairness

`TxQueue!Fairness`: goroutines that can run do. Nothing is assumed of L1 (a transaction need never be
confirmed nor fail), and a DA request is only assumed to fail once its context is done: it is bound to
`shutdownCtx`, which a stop cancels. `Publish` and `Respond` have no fairness.

`BatcherLifecycle!Fairness`: weak fairness of the goroutines; requests to the node end only once their
context is done. Strong fairness of taking the lock, because Go's mutex does not starve a waiter, and of the
loader's exit, because `select` picks at random among the cases that are ready. That publishing ends and
what is in flight is reported once `killCtx` is done is assumed here and is `KillEndsPublishing` of `TxQueue`.

`OpNode!Fairness`: the event loop handles what is queued (weak); its `select` does not ignore a requested
step for ever while other goroutines keep emitting (strong); the watchers poll L1 (weak). Nothing is assumed
of the gossip, of operators and of L1 itself.

`SequencerCluster!Fairness`: a node's event loop, timer and step go on, a publication ends (well or badly), a
conductor's call ends, a leader that was replaced steps down when its lease runs out, and a published block reaches every node, by gossip or
by the requests that fill gaps in the payload queue (all weak); the conductor's `select` does not ignore
leader updates or queued actions for ever (strong). The last but one is needed: raft gives only the
last block, so a server two blocks behind waits for its peers. Nothing is assumed of health checks.

## Proofs

All theorems hold for every value of the constants that satisfies the named assumptions (`BlockAssumption`,
`ConfigAssumption`, `ChainAssumption`, `DriverAssumption`, `QueueAssumption`, `LifecycleAssumption`,
`ChainsAssumption`, `OpNodeAssumption`, `ChannelTimeoutAssumption`, `FinalityAssumption`, `ClusterAssumption`,
`SyncLookbackAssumption` and `RoundTripAssumption`), which TLC
evaluates in the runs. Blocks, channels, transactions and callers need not be finite sets unless a
cardinality is taken.

*Channel manager.* `ManagerInvariant` proves the inductive `IInv`. `FullySubmittedIsConfirmed` is not
inductive: a step that empties `pending` of a closed channel must know that every frame before the frame
cursor is in a pending or a confirmed transaction, that transactions lie within the frames cut, and that a
closed channel has frames. `PendingTxsTracked` needs that the queue has no channel twice and that a channel
without blocks, which is what a fresh identifier maps to, has no frames and no transactions.
`AssertedPanicsUnreachable` follows from the range of pending transactions and from `StartAfresh` excluding
more blocks than are held. `TypeCorrect`, `FullSubmission`, `TxTracking` and `NoAssertedPanic` follow from
`IInv`.

*Contents of channels.* `ContentsInvariant` extends `IInv` by what the channels hold, in terms of heights
along the chain. None of `BlocksFormChain`, `ChannelsCoverCursor` and `TxsDoNotOverlap` is inductive:

- Dropping the last channels rewinds the cursor to the first block of one of them, and pruning takes
  channels and blocks from the front by different conditions. `Covers` says what makes the two agree: each
  queued channel is a piece of chain that begins where the one before it ends, the last one ends at the
  cursor, and the first one reaches into the blocks held, or a rewind to its successor would strand it.
- A channel that left the queue keeps its record, and a late receipt may invalidate it. It begins below
  every block that is held or may be loaded next (`Behind`), so this cannot move the cursor.
- A failure rewinds the frame cursor. All transactions of a channel begin at a multiple of the frames per
  transaction, all but the last of a closed channel are of full size, and the cursor is at such a multiple
  or at the end (`Aligned`). So two transactions are equal or share no frame.

From it: `ChainHeld`, `CursorCovered`, `GroupsDisjoint`, and the action property `ClosedKept`. TLC checked
the invariant on the instance of `channel_manager` before it was proved.

*Driver.* `DriverImplementsManager` shows `DriverSpec => Spec`: every step of a loop is one call of the
manager, or leaves it alone. The manager's theorems therefore hold of the driver (`DriverFullSubmission`,
`DriverContents`).
`NoTxLost` and `PoolStateTracked` rest on `DriverInvariant`: the manager's `IInv`, the types of the loops and
the two properties `FittingTxsAccountedFor` and `CancellationTracked` are inductive together. The argument for
the first is that no step of the manager adds to `txChannels` but the one that hands the new transaction to
the publishing loop, and that each hand-over between goroutines keeps it in one of the places `Outstanding`
names; lemmas about bags serve the queue. The premise `framesFit` rules out the one step that does not, the
error of `blobTxCandidate`; it is a fact about the configuration, chosen at the start and never changed.

*Queue.* Without Alt DA there is one sender, and `OneSenderInvariant` says where it is: at most one
transaction is between its first step and the end of `SendAsync`, only while the publishing loop is in
`Send`, and every active handler is in the queue's current group. `NoSendOnClosedReceipts` and
`PendingLimitKept` follow. With Alt DA there are several senders and a handler may be in a replaced
group, see [Observations](#observations-without-a-run).

*Life cycle.* `LifecycleInvariant` says that a caller past the lock holds it, that `running` and the lock
determine whether loops may exist, and that loops end in the order of the channels between them: the
publishing loop is past its signals only if the loader closed them, the receipts loop ends only after the
publishing loop, and nothing is in flight then. From it: `OneGeneration`, `ReceiptsLoopEndsLast`.
`KilledByForceOnly` adds that a kill context that is done belongs to a forced stop that waits for the loops,
or to a generation whose loops are off and which the next start replaces.

*Node.* `NodeInvariant` proves `IInv`. Its part `Shape` holds always: the labels of the engine and of the
controller are blocks that the engine accepts, every event carries what its kind says, and a `Job` or a
promotion is of attributes whose block is `Built` of a batch of the L1 block it names. The rest has two phases,
because a node that has just started must not run handlers that read heads nobody has set. `Starting`: until the
first reset the controller knows nothing, no attributes exist, and the queue holds few kinds of events, in the
order of the rounds of step and reset that may be repeated by failed calls. `Running`: the heads are known, and
whoever waits finds the end of the wait in the queue, a lemma about the events of every handler. If the pipeline is
`unconfirmed`, a `DerivedAttributes` or its confirmation is queued; if the attributes handler has `sent`, some
event of that build is queued, or an error or a reset that makes it try again, or the block is pending safe already.
From it: `NodeTypeCorrect`, `NodePromotesWhatWasBuilt`, `NodeAwaitsNothing`.

`NodeResetsToCanonicalHeads` is about the walk of `FindL2Heads`. The origins of an L2 chain ascend and those that are
canonical form its lower part, because an origin is its parent's or the next; so the parent of the lowest
block that is not canonical is canonical or, if the L1 node does not have its height yet, plausible. Its premises are
those under which the code returns heads at all: the engine was not rewound and its finalized block is on its chain
and canonical.

`NodeImplementsHistory` composes the node with the theorem on its database below: in a node whose listener calls
come in order (`ListenerInOrder`, which the run checks), every step is a `Learn`, a `Forget` or a stutter of
`SafeHeadHistory`, and `EntriesAscend` holds.

`NodeKeepsFinality` says `FinalityIsFinal` under `HeadKeepsFinalized`: the engine's head stays on the chain of its
finalized block. The premise is about the engine and L1, not about the node's bookkeeping: the engine moves its head
before it looks at the finalized label. The argument is `Ahead`: the controller's finalized head is unknown or not
lower than the engine's label, and the label is on the engine's chain; a restart forgets the controller's, a reset
takes it back from the engine, and `promoteFinalized` refuses to go lower. TLC meets no step that violates the premise
in any scenario of this project; no run lists it, because no single fault that we could think of breaks it: a reset
never goes below the finalized block.

*Safe head database.* `DBTypeOK` and `EntriesAscend` are inductive together, given the order of calls that
the guards of `SafeDBListener` state and the run `node` checks of the node: `TypeCorrect`, `Ascending`.
`Implements` shows that the database implements `SafeHeadHistory` under the mapping of `answers` to what
`SafeHeadAtL1` returns for each height: an update or a reset is one `Learn`, a clearing, or a reset to
before the first record, a `Forget`. It needs `EntriesAscend`: a reset cuts the table at the *first* entry
that made its block safe or passed it, and only if safe heads ascend with the keys do the answers that
remain below that entry stay at or below the reset's block.

*Sequencer cluster.* The handlers of the sequencer's events do not look at `active`, so
`SequencesOnlyWhileActive` is about a stop and the events that were queued before it. `ClusterInvariant` says
of each server's queue that it holds at most one event of a building job, from `SequencerAction` to the
hand-over of the block to the gossiper, that a commit in progress is at its head and that the sequencer is
active then, and that a sequencer that was stopped has no job in hand while the queue holds an event of one.
A job that is started all the same stays in hand and is never sealed, because an action is due only while
the sequencer is active. The events and the job in hand are of blocks that this server builds, and every
label of a controller is known. From it: `ClusterTypeCorrect` and the action property
`SequencedWhileRunning`, for every number of servers, every tree of blocks and every scenario, the ones
in which `NoUnsafeReorg` fails included. It says nothing of the publication itself, which goes on in the
gossiper's goroutine after a stop. TLC checked the invariant on the instance of `cluster` first.

*Round trip.* `RoundTripInvariant` follows a block around: the heights that the loader asks for were
sequenced (`LoadingInv`), what the manager and its channels hold was loaded (`Within`), what the node reads
off L1 is in a channel, and what it makes safe was read (`NodeOK`). Every height from genesis to the unsafe
head has a block whose L1 origin exists (`SequencedInv`), which bounds where a reset starts and what a
cleared manager starts from. So every call of the manager is one that `ChannelManager` allows
(`RoundTripImplementsManager`), and the manager's theorems hold with the node in the loop
(`RoundTripContents`). `RoundTripTypeCorrect` is not only about types: the node never derives what was not
sequenced, and neither it nor the batcher knows of an L1 block that does not exist. `RoundTripAssumption`
says of the chain that heights are unique, that genesis is the lowest block with L1 origin 0, and that the
sequencing window does not expire. TLC checked the invariant on the instance of `round_trip` first.

Only model-checked:

- `SafeIsDerived`, `SafeDBIsTruthful` and `ListenerInOrder` of the node, which do not hold in
  every scenario: finality that meets a reorganization lets a block of the old branch be promoted after a reset
  (`node_stale`), and the three fail;
- `NoCriticalError`, because the sanity checks are kept by how many events each chain of handlers takes compared
  with a reset's, and by heads in order; and `FinalizedIsDerived`, which compares with `DerivedTip`, a fold over the L1
  chain whose value at each block is an induction;
- `NothingLeftBehind`, `PrunedStaysSafe` and `PanicOnlyOnceSafe`, which relate a channel to what the node
  makes of all its frames on L1, an induction over L1;
- `ReorgOnlyByRivals` and `StartsOnTop`, which compare chains of blocks in raft, in the queues and in the
  engines of all servers;
- the liveness properties `KillEndsPublishing`, `ForcedStopReturns`, `SafeHeadConverges` and
  `SequencingResumes`, because fairness and `ENABLED` are out of the proof system's reach.

What a recursive function computes for every input needs induction, which is out of the proof system's reach
too. Where a proof needs a fact of that kind it argues with a least counterexample instead: for the
frames of an L1 block (`FramesExist`), and for the chains of `Chains`, whose recursion is well-founded because
numbers follow parents (`ChainExists`, `FromParents`). From that come the facts on chains that the node's proofs use:
a chain has one block of each number, and of two blocks of a chain the higher extends the lower.

## Findings

| Run | What happens | What the repository says |
|---|---|---|
| `node_stale` | The finalizer finds that its L1 block is gone and resets the node while the build of a later block of the old branch is in flight. The end of that build is handled after `forceReset`; its number is above the reset heads, so it becomes pending safe, local safe and safe (`engine_controller.go:778`) | `engine_controller.go:776` "Only promote if not already stale.", `:777` "Resets/overwrites happen through engine-resets, not through promotion." |
| `cluster_reorg` | Leadership goes from `p` to `q` and back while `p`'s sealed block waits for its commit; `q` publishes a block of that height in between. `Apply` keeps the higher head and reports success either way (`raft_fsm.go:48`), so `p` publishes its block too | `op-conductor/README.md:15` "The design will provide below guarantees:", `:17` "No unsafe reorgs" |

`node_stale` needs finality signals during a reorganization. In the scenarios of `node`, where resets come
from derivation itself, from a failing call, from an operator or from a restart, `SafeIsDerived` holds.
`cluster_reorg` takes two changes of leadership while one commit is under way. Its cause, that `Apply`
reports success for a block that does not become the head, has other ways to it, see
[below](#observations-without-a-run); `ReorgOnlyByRivals` says that within the scenarios of `cluster` there is
no other cause.

## Observations without a run

What follows was met while modelling. Each is a state or behaviour of the specifications above, or of a
scenario that was tried and not kept; no run of the project depends on it.

Batcher:

- `Flush` may come when there is no current channel. `getReadyChannel` (`channel_manager.go:288`) then
  evaluates `TotalFrames` of nil, although its comment promises `io.EOF`. `mgr.panic = "nil currentChannel"`
  is reachable in `channel_manager`.
- An error of `blobTxCandidate` (`driver.go:979`) is returned after the frames were dequeued, and nobody reports
  the transaction as failed: it stays pending, and its frames are not sent again before the channel is dropped
  or the state is cleared. The comment at `driver.go:856` says that they are put back. It takes a frame longer
  than a blob holds, which `initChannelConfig` (`service.go:275`) excludes unless `TestUseMaxTxSizeForBlobs` is
  set; the comment at `driver.go:977` expects it only with a wrong configuration. `TxsAccountedFor` as an
  invariant of `driver` in place of `FittingTxsAccountedFor` shows it.
- With Alt DA there are several senders. One may pick a group (`queue.go:82`), and enter it after it was
  cancelled and replaced; `Wait` then misses it and `receiptsCh` can be closed under it (`driver.go:515`),
  and more transactions than the limit can be pending (`queue.go:68`).
- A forced stop waits behind a start that holds the lock while it waits for the node (`driver.go:235`, `:239`).
- A flush that races a stop sends on a closed channel (`driver.go:272`); the RPC server recovers from it.
- `rewindToBlock` (`channel_manager.go:132`) can index out of range, without any fault. `isTimedOut`
  (`channel_builder.go`) counts a channel as timed out if its frames span *at least* the channel timeout,
  `channelTimedOut` (`channel_assembler.go:64`) only if they span more. If they span exactly the timeout, the
  node derives the channel; a tick prunes its blocks; and when the receipt of the last frame is handled
  after that, the rewind does not find them. The same happens if frames are on L1 twice. The process ends
  and no block is lost (`PanicOnlyOnceSafe`).
- A start that fails after `running` was set (`driver.go:162`) leaves it set, without loops, until a stop.

Node:

- A failed write of the safe head database is repaired by the reset it causes, unless the block was
  finalized before (`sync_deriver.go:138`): the entry then stays missing.
- `forceReset` confirms the pipeline itself (`engine_controller.go:890`). A listener that refuses the reset
  therefore does not keep derivation from going on, which the comment at `sync_deriver.go:157` expects.
- A payload whose insertion failed temporarily stays queued, and posting it again is refused as a
  duplicate (`engine_controller.go:1028`): nothing retries it before the next forkchoice event.

Cluster:

- Raft may commit a block and the answer be lost. `onBuildSealed` keeps the job and seals it again; if the
  seal now expires (`sequencer.go:331`), another block of that height is built, whose commit `Apply` ignores
  and which is published. The first block is gossiped by nobody, but raft's head is still that block, and
  after one change of leadership the new leader publishes a block on top of it: `NoUnsafeReorg` and
  `HeadCoversPublished` fail in the scenario `LostThenExpires`.
- `onPayloadSuccess` forgets a published block (`sequencer.go:350`) once the engine has its payload, but the
  head that the next block is built on moves only with the forkchoice update. If that update fails, and
  `UnsafeUpdate`'s too, the sequencer builds a second block of that height, `Apply` ignores its commit, and it
  is published: two blocks of one height without any election. `NoUnsafeReorg` fails in the scenario
  `UpdateOwed`. The driver's own step must fail or be backing off as well while the sequencer waits its second:
  the model leaves open which of the two acts first.
- When raft's head and the engine's are different blocks of one height, as after such a rebuild,
  `compareUnsafeHead` finds a difference of 0 in the numbers and different hashes, and a server with the
  other block does not start until raft's head moves.
- A stop waits for the last sealed block only while its server leads (`sequencer.go:741`), and never for the
  gossiper: a block may be published by a server whose sequencer has been stopped already, or whose
  successor has been started. The successor starts on that block all the same, because raft has it.
- A block that was committed and not published, with a next leader two blocks behind, stalls the cluster
  until the blocks in between arrive by gossip.
- If every conductor finds its node unhealthy and inactive, leadership may go round for ever
  (`service.go:748`, `:757`).
- A start in flight may start a server that has lost leadership since `action()` looked; the commit of its
  first block fails then. With two moves of leadership it may start below the top of raft.
- `onSequencerAction` does not check that the sequencer is active; that `Stop` clears the job and the plan
  is what keeps a stopped one from committing (`SequencesOnlyWhileActive`).

## What the models leave out

Batcher:

- Errors of the channel-out (adding a block, cutting a frame, creating a channel): the compressor and the
  encoder do not fail on blocks of the sequencer.
- The order in which an error group cancels its context and frees a slot is one step in `TxQueue`, and the
  handler's return is a step after the receipt was taken.
- A receipt with neither an error nor a receipt, which `handleReceipt` ignores: `SendAsync` never produces one.
- A failed `getSyncStatus` ends a tick without any effect, so it is no step. A zero `HeadL1` cannot occur
  after `getSyncStatus`; the other zero references are modelled.
- `L2BlockToBlockRef` at the end of a load decodes a block that was just loaded; its error is not modelled.
- `publishStateToL1`'s checks of its context and of the closed transaction manager are in `TxQueue` and
  `BatcherLifecycle`, not in `BatcherDriver`.
- `blockLoadingLoop` closes two channels one after the other; nothing reads both, and it is one step.
- `blobTxCandidate` reads `prevCurrentL1` without the lock: a stale value picks another blob format, not
  other contents.
- DA throttling, metrics, logging, the admin calls that change the throttle controller.

Node:

- In `OpNode`, the stages between the L1 traversal and the attributes queue, reduced to the batches they
  yield in order. They are in `RoundTrip`, where in turn L1 does not reorganize and the engine refuses
  nothing.
- The empty batches that derivation makes when the sequencing window expires, span batches that overlap the
  safe chain with other contents, the checks of a batch's L1 origin and of the time drift, which blocks of
  the sequencer pass, oversized channels, and the stages before Holocene.
- After a reset to the head of L1 the data of the first block may be opened twice; its batches are drained
  either way.
- A reorganization to a branch that is not longer is seen by the node only when the branch grows; the
  model's branches grow.
- A reorganization between the end of `FindL2Heads` and the traversal's first steps is seen as one before or
  after it.
- Goroutines that request a step race with the event loop on the scheduler's fields; requests are atomic here.
- A sealed payload that fails its sanity checks (`build_seal.go:85`): of attributes that were derived it
  cannot, because batches that are empty or hold deposits are dropped (`batches.go:178`, `:385`) and
  attributes begin with the deposits.
- A seal that expires asks for no step by itself, and a temporary error of another source clears
  `sentAttributes`; both only repeat work.
- The closing of the database while queries run, and encoding of its keys.
- Execution-layer sync, interop, the Alt DA finalizer, the status tracker.
- Of `FindL2Heads`: the recovery of an engine that finished its sync without a finalized block
  (`start.go:128`), the checks against the genesis of another chain, the refusal of a very deep
  reorganization (`start.go:210`) and the option that skips the walk (`start.go:249`). The sanity checks on the
  origins of a block and its parent (`start.go:260`) are assumptions on the chain (`ChainsAssumption`).

Cluster:

- L1 stands still: no resets, no derived blocks, no choice of the L1 origin; its error is one with the other
  errors of preparing attributes.
- The maximal safe lag, which is off by default, the recover mode, pausing a conductor, the leader
  override, restarts of a conductor, membership and snapshots.
- An engine that finds its own block invalid.

## Not modelled

| Part | Why |
|---|---|
| Batcher service, channel config, compressors, DA throttling | wiring, a price comparison, sizes and floating-point control: free choices of the models that use them |
| Channel bank, batch queue, span batch checks | the stages before Holocene, and a comparison of contents |
| Transaction manager | planned; `TxQueue` takes it as an environment that answers or does not |
| p2p | network I/O and scoring; published blocks arrive late, in any order or, without fairness, never |
| hashicorp/raft | external: who can commit, who believes to lead, one log |
| Proposer, Alt DA manager, challenger scheduler | planned |
| Supervisor and interop | a system of its own, not in use by a single chain |
| Dispute monitor, gas oracle | monitoring, and a loop that writes one number at a time |
| Fault proof VM and program, contracts | data, instruction by instruction, or atomic calls of Solidity |
| Deployment, bindings, tests | generated code and tooling; the largest part of the repository's lines |

## Plan

1. The round trip with a reorganizing L1, an expiring sequencing window and, under fairness of L1, the
   liveness property that every unsafe block becomes safe; `DerivationStages` shown to implement what
   `Chains!Derived` says.
2. Transaction manager with its send state; proposer; Alt DA windows; challenger scheduler.
3. Proofs of `OpNode`'s `ListenerInOrder` and `NoCriticalError` for scenarios in which finality does not meet a
   reorganization, and of the cluster's `ReorgOnlyByRivals`, by an invariant that every block in a queue, an
   engine or a job in hand is in raft's log or on top of it.
