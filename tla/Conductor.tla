----------------------------- MODULE Conductor -----------------------------
(***************************************************************************)
(* The OpConductor's control loop (op-conductor/conductor/service.go): it  *)
(* hears of leadership and of the sequencer's health, and starts or stops  *)
(* the sequencer and hands leadership on so that a healthy leader          *)
(* sequences and nobody else does.  The operators are the loop's handlers  *)
(* and the decisions of action(); the remote calls between them are steps  *)
(* of SequencerCluster.  Pausing and overriding the leader are left out.   *)
(***************************************************************************)
EXTENDS Naturals

\* The outcome of a health check: down is ErrSequencerConnectionDown.
Health == {"ok", "unhealthy", "down"}

Status == [leader : BOOLEAN, healthy : BOOLEAN, active : BOOLEAN]

\* Where the loop is: in loopAction's select, in one of the calls of startSequencer,
\* in stopSequencer, or in transferLeader.
Place ==
  { "loop", "consensus", "compare", "post", "leading", "start",
    "stop", "stopWait", "transfer" }

\* leader, health and active are the conductor's view; prev is prevState, status
\* what the current action() entered with, failed whether it has met an error,
\* cons the unsafe head it read from the consensus.
NewStatus(l, h, a) == [leader |-> l, healthy |-> h, active |-> a]

NewConductor(l, a, none) ==
  [ leader |-> l, health |-> "ok", active |-> a, prev |-> NewStatus(l, TRUE, a),
    status |-> NewStatus(l, TRUE, a), queued |-> FALSE, pc |-> "loop",
    failed |-> FALSE, cons |-> none ]

HandleLeaderUpdate(c, l) == [c EXCEPT !.leader = l, !.queued = TRUE]

HandleHealthUpdate(c, h) ==
  [c EXCEPT !.health = h, !.queued = @ \/ h # "ok" \/ c.health # "ok"]

-----------------------------------------------------------------------------
(* action() *)

\* Mutant: an error is not retried.
FinishWithoutRetry(c, none) ==
  [c EXCEPT !.pc = "loop", !.failed = FALSE, !.cons = none,
            !.prev = IF c.failed THEN @ ELSE c.status]

\* Its end: an error queues another action and leaves prevState alone.
Finish(c, none) ==
  [c EXCEPT !.pc = "loop", !.failed = FALSE, !.cons = none,
            !.queued = @ \/ c.failed, !.prev = IF c.failed THEN @ ELSE c.status]

\* The network stalled while leadership was on its way here.
TakesOver(c) == ~c.prev.leader /\ ~c.prev.active /\ c.health # "down"

ShouldWaitForHealthRecovery(c) ==
  c.prev.leader /\ ~c.prev.healthy /\ ~c.prev.active /\ c.health # "down"

\* The first call that action() makes, or its end.
Action(c0, none) ==
  LET s == NewStatus(c0.leader, c0.health = "ok", c0.active)
      c == [c0 EXCEPT !.queued = FALSE, !.status = s]
      at(pc) == [c EXCEPT !.pc = pc]
  IN  CASE ~s.leader /\ ~s.active              -> Finish(c, none)
        [] ~s.leader /\ s.active               -> at("stop")
        [] s.leader /\ ~s.healthy /\ ~s.active -> at(IF TakesOver(c) THEN "consensus"
                                                     ELSE "transfer")
        [] s.leader /\ ~s.healthy /\ s.active  ->
             IF ShouldWaitForHealthRecovery(c) THEN Finish([c EXCEPT !.failed = TRUE], none)
             ELSE at("stop")
        [] s.leader /\ s.healthy /\ ~s.active  -> at("consensus")
        [] s.leader /\ s.healthy /\ s.active   -> Finish(c, none)

\* startSequencer failed: an unhealthy leader hands leadership on instead.
StartFailed(c, none) ==
  IF c.status.healthy THEN Finish([c EXCEPT !.failed = TRUE], none)
  ELSE [c EXCEPT !.pc = "transfer", !.cons = none]

StartSucceeded(c, none) == Finish([c EXCEPT !.active = TRUE], none)

\* stopSequencer returned: an unhealthy leader hands leadership on in any case.
StopReturned(c0, ok, none) ==
  LET c == [c0 EXCEPT !.active = @ /\ ~ok, !.failed = ~ok]
  IN  IF c.status.leader THEN [c EXCEPT !.pc = "transfer"] ELSE Finish(c, none)

\* transferLeader returned; an error that the server does not lead is none.
TransferReturned(c, ok, none) ==
  Finish([c EXCEPT !.leader = @ /\ ~ok, !.failed = @ \/ ~ok], none)
=============================================================================
