-------------------------- MODULE ExportPipeline --------------------------
(* The hardware branch of export_project (core/src/export/exporter.cpp): a   *)
(* producer thread renders frames into a bounded queue and the export thread *)
(* takes them out, encodes them, mixes the audio and flushes the encoders.   *)
(* Both sleep on one condition variable; the cancel flag is read in their    *)
(* predicates but is set by a third thread that notifies nobody.             *)
EXTENDS Integers, Sequences, FiniteSets

CONSTANTS
    Total,        \* total_video, at least 1 in this branch
    AudioChunks,  \* passes of the loop that still have audio to mix
    Depth,        \* producer_depth
    Pool,         \* frames the hardware frame pool can lend at a time
    CanCancel     \* TRUE: the queue may raise the cancel flag

ASSUME PipelineAssumption ==
    /\ Total \in Nat \ {0} /\ Depth \in Nat \ {0} /\ Pool \in Nat \ {0}
    /\ AudioChunks \in Nat
    /\ CanCancel \in BOOLEAN

Frames == 0..Total - 1
Miss == -1          \* a slot without a frame: produce() could not make one

VARIABLES
    cancelled,    \* what control->should_cancel() returns
    queue,        \* ready_frames
    done,         \* producer_done
    prod, f,      \* the producer's place in its loop, and its frame counter
    inHand,       \* the frame the producer has rendered and not yet queued
    missed,       \* history: the frames produce() came back without
    cons, frame,  \* the export thread's place in its loop, and its counter
    toSend,       \* the slot it took, a sequence of at most one element
    audio,        \* audio_sample, in passes
    ended,        \* ended
    sent,         \* the frames given to the video encoder, in order
    flushed,      \* the encoders were sent their end-of-stream
    ok            \* what export_project returned

vars == <<cancelled, queue, done, prod, f, inHand, missed, cons, frame, toSend,
          audio, ended, sent, flushed, ok>>
producerVars == <<prod, f, inHand, missed>>
consumerVars == <<cons, frame, toSend, audio, ended, sent, flushed, ok>>

Slot == Frames \cup {Miss}

\* Frames of the pool that are out: they return when the encoder has taken the
\* frame or the slot is freed.
Lent == Cardinality({x \in Frames : \/ inHand = <<x>> \/ toSend = <<x>>
                                    \/ \E i \in 1..Len(queue) : queue[i] = x})

\* qcv.notify_all() from the other thread.
WakeConsumer == cons' = IF cons = "asleep" THEN "take" ELSE cons
WakeProducer == prod' = IF prod = "asleep" THEN "put" ELSE prod
-----------------------------------------------------------------------------
Init ==
    /\ cancelled = FALSE /\ queue = <<>> /\ done = FALSE
    /\ prod = "render" /\ f = 0 /\ inHand = <<>> /\ missed = {}
    /\ cons = "loop" /\ frame = 0 /\ toSend = <<>> /\ audio = 0
    /\ ended = FALSE /\ sent = <<>> /\ flushed = FALSE /\ ok = FALSE

\* RenderQueue::cancel, remove, cancel_all or the destructor.
Cancel ==
    /\ CanCancel /\ ~cancelled /\ cons # "returned"
    /\ cancelled' = TRUE
    /\ UNCHANGED <<queue, done, producerVars, consumerVars>>
-----------------------------------------------------------------------------
(* The producer thread. *)

\* pump.produce(): a frame, or a slot that stays empty: decoding, converting or
\* uploading the picture may fail, and av_hwframe_get_buffer does when the pool
\* has lent out all it has.
Render ==
    /\ prod = "render" /\ f < Total
    /\ \/ Lent < Pool /\ inHand' = <<f>> /\ missed' = missed
       \/ inHand' = <<Miss>> /\ missed' = missed \cup {f}
    /\ prod' = "put"
    /\ UNCHANGED <<cancelled, queue, done, f, consumerVars>>

RenderedAll ==
    /\ prod = "render" /\ f = Total
    /\ prod' = "finish"
    /\ UNCHANGED <<cancelled, queue, done, f, inHand, missed, consumerVars>>

\* The section under qmu: give up, push, or wait.
PutCancelled ==
    /\ prod = "put" /\ cancelled
    /\ inHand' = <<>>
    /\ prod' = "finish"
    /\ UNCHANGED <<cancelled, queue, done, f, missed, consumerVars>>

Put ==
    /\ prod = "put" /\ ~cancelled /\ Len(queue) < Depth
    /\ queue' = queue \o inHand
    /\ inHand' = <<>>
    /\ f' = f + 1
    /\ prod' = "render"
    /\ WakeConsumer
    /\ UNCHANGED <<cancelled, done, missed, frame, toSend, audio, ended, sent, flushed, ok>>

PutWait ==
    /\ prod = "put" /\ ~cancelled /\ Len(queue) >= Depth
    /\ prod' = "asleep"
    /\ UNCHANGED <<cancelled, queue, done, f, inHand, missed, consumerVars>>

ProducerDone ==
    /\ prod = "finish"
    /\ done' = TRUE
    /\ prod' = "exited"
    /\ WakeConsumer
    /\ UNCHANGED <<cancelled, queue, f, inHand, missed, frame, toSend, audio, ended, sent,
                   flushed, ok>>
-----------------------------------------------------------------------------
(* The export thread. *)

\* while (!ended && !cancelled())
LoopTest ==
    /\ cons = "loop"
    /\ cons' = IF ended \/ cancelled THEN "join" ELSE "take"
    /\ UNCHANGED <<cancelled, queue, done, producerVars, frame, toSend, audio,
                   ended, sent, flushed, ok>>

\* Mutant: the newest slot is taken, not the oldest.
TakeNewest ==
    /\ cons = "take" /\ (queue # <<>> \/ done \/ cancelled)
    /\ toSend' = IF queue = <<>> THEN <<>> ELSE <<queue[Len(queue)]>>
    /\ queue' = SubSeq(queue, 1, Len(queue) - 1)
    /\ cons' = "encode"
    /\ WakeProducer
    /\ UNCHANGED <<cancelled, done, f, inHand, missed, frame, audio, ended, sent, flushed, ok>>

\* Mutant: no notification after a slot was taken.
TakeSilently ==
    /\ cons = "take" /\ (queue # <<>> \/ done \/ cancelled)
    /\ toSend' = IF queue = <<>> THEN <<>> ELSE <<Head(queue)>>
    /\ queue' = IF queue = <<>> THEN <<>> ELSE Tail(queue)
    /\ cons' = "encode"
    /\ UNCHANGED <<cancelled, done, producerVars, frame, audio, ended, sent,
                   flushed, ok>>

\* The section under qmu, and the notification after it.
Take ==
    /\ cons = "take" /\ (queue # <<>> \/ done \/ cancelled)
    /\ toSend' = IF queue = <<>> THEN <<>> ELSE <<Head(queue)>>
    /\ queue' = IF queue = <<>> THEN <<>> ELSE Tail(queue)
    /\ cons' = "encode"
    /\ WakeProducer
    /\ UNCHANGED <<cancelled, done, f, inHand, missed, frame, audio, ended, sent, flushed, ok>>

TakeWait ==
    /\ cons = "take" /\ queue = <<>> /\ ~done /\ ~cancelled
    /\ cons' = "asleep"
    /\ UNCHANGED <<cancelled, queue, done, producerVars, frame, toSend, audio,
                   ended, sent, flushed, ok>>

\* Mutant: an off-by-one ends the loop before the last frame.
EncodeEndsEarly ==
    /\ cons = "encode"
    /\ sent' = IF toSend \in {<<>>, <<Miss>>} THEN sent ELSE sent \o toSend
    /\ toSend' = <<>>
    /\ frame' = frame + 1
    /\ audio' = IF audio < AudioChunks THEN audio + 1 ELSE audio
    /\ ended' = (frame' + 1 >= Total)
    /\ flushed' = (flushed \/ ended')
    /\ cons' = "loop"
    /\ UNCHANGED <<cancelled, queue, done, producerVars, ok>>

\* The rest of a pass: send the frame if the slot has one, count the pass, mix
\* audio, and flush both encoders once frames and audio are through.
Encode ==
    /\ cons = "encode"
    /\ sent' = IF toSend \in {<<>>, <<Miss>>} THEN sent ELSE sent \o toSend
    /\ toSend' = <<>>
    /\ frame' = frame + 1
    /\ audio' = IF audio < AudioChunks THEN audio + 1 ELSE audio
    /\ ended' = (frame' >= Total /\ audio' = AudioChunks)
    /\ flushed' = (flushed \/ ended')
    /\ cons' = "loop"
    /\ UNCHANGED <<cancelled, queue, done, producerVars, ok>>

\* producer.join(), then the slots left in the queue are freed.
Join ==
    /\ cons = "join" /\ prod = "exited"
    /\ queue' = <<>>
    /\ cons' = "trailer"
    /\ UNCHANGED <<cancelled, done, producerVars, frame, toSend, audio, ended, sent,
                   flushed, ok>>

\* av_write_trailer, teardown, `if (cancelled()) return fail(...)`.
Return ==
    /\ cons = "trailer"
    /\ ok' = ~cancelled
    /\ cons' = "returned"
    /\ UNCHANGED <<cancelled, queue, done, producerVars, frame, toSend, audio, ended,
                   sent, flushed>>
-----------------------------------------------------------------------------
\* A condition variable may wake without a notification.
SpuriousWake ==
    \/ /\ prod = "asleep" /\ WakeProducer
       /\ UNCHANGED <<cancelled, queue, done, f, inHand, missed, consumerVars>>
    \/ /\ cons = "asleep" /\ WakeConsumer
       /\ UNCHANGED <<cancelled, queue, done, producerVars, frame, toSend, audio,
                      ended, sent, flushed, ok>>

Producer == Render \/ RenderedAll \/ PutCancelled \/ Put \/ PutWait \/ ProducerDone
Consumer == LoopTest \/ Take \/ TakeWait \/ Encode \/ Join \/ Return

Next == Producer \/ Consumer \/ Cancel \/ SpuriousWake

\* Two threads the scheduler runs whenever they are not asleep or joining;
\* no thread relies on a spurious wake-up.
Spec == Init /\ [][Next]_vars /\ WF_vars(Producer) /\ WF_vars(Consumer)
-----------------------------------------------------------------------------
TypeOK ==
    /\ cancelled \in BOOLEAN /\ done \in BOOLEAN /\ ended \in BOOLEAN
    /\ flushed \in BOOLEAN /\ ok \in BOOLEAN
    /\ queue \in Seq(Slot) /\ Len(queue) <= Depth
    /\ prod \in {"render", "put", "asleep", "finish", "exited"}
    /\ cons \in {"loop", "take", "asleep", "encode", "join", "trailer", "returned"}
    /\ f \in 0..Total /\ frame \in Nat /\ audio \in 0..AudioChunks
    /\ inHand \in Seq(Slot) /\ Len(inHand) <= 1
    /\ toSend \in Seq(Slot) /\ Len(toSend) <= 1
    /\ sent \in Seq(Frames) /\ missed \subseteq Frames

\* The encoder sees the frames in timeline order and none twice: the pts of a
\* frame is its index, and the muxer is handed them in the order sent.
SentInOrder == \A i, j \in 1..Len(sent) : i < j => sent[i] < sent[j]

\* An export that reports success has sent every frame the pump could make, and
\* flushed after the last: none stays in the queue or in a thread's hand. The loop
\* ends by a count of passes, not of frames, so a slot without a frame must use up
\* one pass and no more. (Which frames were missed the caller is not told.)
MadeIsSent ==
    ok => flushed /\ Frames = missed \cup {sent[i] : i \in 1..Len(sent)}

\* When export_project returns, the producer is gone and every frame is freed:
\* the frame pool and the queue live on the stack of the call.
NothingLeftBehind == cons = "returned" => prod = "exited" /\ queue = <<>> /\ Lent = 0

\* Unless it is cancelled, an export returns: neither thread waits for the
\* other for ever.
Terminates == <>(cancelled \/ cons = "returned")

\* A cancelled export stops ("progress + cancel", docs/ARCHITECTURE.md:69).
CancelStops == cancelled ~> cons = "returned"
=============================================================================
