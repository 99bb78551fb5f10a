-------------------------- MODULE DerivationStages --------------------------
(***************************************************************************)
(* The stages of the derivation pipeline that turn the batcher's L1        *)
(* transactions back into L2 blocks, by the rules of Holocene              *)
(* (op-node/rollup/derive): FrameQueue, ChannelAssembler with Channel,     *)
(* ChannelInReader and BatchStage.  They are one record, and the operators *)
(* give the record that a call leaves behind.                              *)
(*                                                                         *)
(* The data sources cut a transaction into pieces of one frame each, and   *)
(* the frame queue is only filled when it is empty: it holds one frame at  *)
(* most and has nothing to prune.  A batch is the block it gives, and a    *)
(* span batch is the sequence of its batches.  Block numbers stand for     *)
(* timestamps.                                                             *)
(***************************************************************************)
EXTENDS Integers, Sequences, FiniteSetsExt

CONSTANTS
  Number, Parent,   \* of an L2 block
  L1Origin,         \* the number of its L1 origin
  ChannelTimeout,   \* L1 blocks that a channel may span
  NoChannel

\* No channel is being assembled.
NoStaged == [id |-> NoChannel, frames |-> 0, openBlock |-> 0]

\* Mutant: the channel timeout is added instead.
StartOriginAhead(safe) == L1Origin[safe] + ChannelTimeout

\* Mutant: what was included up to the safe head's origin is taken to be old.
StartOriginAfter(safe) == IF L1Origin[safe] = 0 THEN 0 ELSE L1Origin[safe] + 1

\* The L1 block from which derivation starts after a reset to the safe head: the
\* origin of an ancestor that is a channel timeout older, because the channel that
\* holds the next block may have been opened that early (initialReset).
StartOrigin(safe) ==
  LET Older == {b \in DOMAIN Number : /\ Number[b] <= Number[safe]
                                      /\ L1Origin[b] + ChannelTimeout <= L1Origin[safe]}
  IN  Max({0} \cup {L1Origin[b] : b \in Older})

\* The stages after the reset.  The data of the first L1 block is opened with it.
ResetStages(safe, frames) ==
  [ origin |-> StartOrigin(safe),
    datas |-> frames, channel |-> NoStaged, batches |-> <<>>, safe |-> safe ]

\* Everything read from the L1 block is used up: the stages return io.EOF.
Drained(st) == st.datas = <<>> /\ st.batches = <<>>

ChannelTimedOut(ch, origin) == ch.openBlock + ChannelTimeout < origin

\* The next L1 block is opened.  NextRawChannel looks at the timeout before it
\* asks for a frame.
AdvanceOrigin(st, frames) ==
  [ st EXCEPT !.origin = @ + 1, !.datas = frames,
              !.channel = IF ChannelTimedOut(@, st.origin + 1) THEN NoStaged ELSE @ ]

\* AddFrame: frames of a channel come in order.  There is no last frame yet, since
\* the assembler lets go of a channel that is complete.
Accepts(ch, f) == f.id = ch.id /\ f.number = ch.frames

\* NextRawChannel for one frame.  A first frame starts a channel; any other must be
\* the next frame of the channel that was started last.  The last one hands the
\* channel's batches to the reader.
IngestFrame(st, batchesOf) ==
  LET f == Head(st.datas)
      ch == IF f.number = 0 THEN [id |-> f.id, frames |-> 0, openBlock |-> st.origin]
            ELSE st.channel
      rest == [st EXCEPT !.datas = Tail(@)]
  IN  CASE ~Accepts(ch, f)          -> rest
        [] Accepts(ch, f) /\ f.last ->
             [rest EXCEPT !.channel = NoStaged, !.batches = batchesOf[f.id]]
        [] OTHER                    -> [rest EXCEPT !.channel = [ch EXCEPT !.frames = @ + 1]]

\* FlushChannel of the batch stage and of the two stages before it.
FlushChannel(st) == [st EXCEPT !.batches = <<>>, !.channel = NoStaged]

\* The number of a batch stands for its timestamp.
CheckSingularBatch(safe, b) ==
  CASE Number[b] < Number[safe] + 1                        -> "past"
    [] Number[b] = Number[safe] + 1 /\ Parent[b] = safe    -> "accept"
    [] OTHER                                               -> "drop"

\* NextBatch of the batch stage.  Until the L1 origin of the safe head has been passed
\* batches can only be old and are drained.  A batch that is dropped takes its channel
\* with it.
NextBatch(st) ==
  LET b == Head(st.batches)
      rest == [st EXCEPT !.batches = Tail(@)]
      validity == CheckSingularBatch(st.safe, b)
  IN  CASE st.origin <= L1Origin[st.safe] \/ validity = "past" -> rest
        [] st.origin > L1Origin[st.safe] /\ validity = "accept" -> [rest EXCEPT !.safe = b]
        [] OTHER                                                -> FlushChannel(st)
=============================================================================
