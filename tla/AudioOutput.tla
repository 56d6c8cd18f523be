----------------------------- MODULE AudioOutput -----------------------------
(***************************************************************************)
(* Sound of the timeline: audio_pipeline.cpp, which says what is to be     *)
(* heard, audio_output.cpp, whose writer thread hands it to ALSA, and the  *)
(* calls sequence_controller.cpp makes of both.                            *)
(*                                                                         *)
(* The worker of the controller takes commands and feeds sound frame by    *)
(* frame; the window ends a scrub and destroys the controller.  Calls of   *)
(* the pipeline hold its mutex_; the flush of a pause, made on the output  *)
(* itself, does not.  `todo` is what each of the two threads has still to  *)
(* do of the call it is in, the next step first.                           *)
(*                                                                         *)
(* The timeline is one clip, heard from its first frame.  The sound of a   *)
(* frame is one number, that of the frame; a frame stands for 40 ms.       *)
(***************************************************************************)
EXTENDS Integers, Sequences, FiniteSetsExt

CONSTANTS
    Length,       \* frames of the timeline, and of the clip
    Lead,         \* kAudioLeadMs, in frames
    DeviceMax,    \* what the device buffers, 50 ms in the code
    QueueMax,     \* q_max, three seconds in the code
    MaxCommands,  \* bound: commands of the window that the worker takes
    MaxScrubs     \* bound: scrubs that end

ASSUME AudioAssumption ==
    /\ {Length, Lead, DeviceMax} \subseteq Nat \ {0}
    /\ QueueMax \in Nat /\ QueueMax > 2 * Lead
    /\ MaxCommands \in Nat /\ MaxScrubs \in Nat

Grain == -1      \* the sound of a scrub
Silence == -2    \* what the writer holds the device with
None == -1       \* no frame
Callers == {"worker", "window"}

VARIABLES
    \* the output
    queue,     \* q from q_start
    batch,     \* what the writer has taken of it and not yet handed on
    device,    \* what the device has and has not played
    writer,    \* the ALSA thread; "none" is not joinable
    stopping,  \* alsa_stopping_
    hold,      \* hold_active
    pcm,       \* pcm is a handle
    open,      \* open_ and alsa_ok
    \* the pipeline
    mutex,     \* who holds mutex_
    active,    \* active_
    mark,      \* feed_watermarks_ of the clip
    lastFed,   \* last_seq_fed_
    \* the controller
    playing, frame, scrubOpen,
    todo,      \* what each caller has still to do
    quit,      \* the controller is being destroyed
    crashed,   \* undefined behaviour: nothing is said of what follows
    \* history
    heard,     \* the frame heard last since the device was emptied
    commands, scrubs

deviceVars == <<device, pcm, heard>>
threadVars == <<writer, batch, stopping>>
outputVars == <<queue, deviceVars, threadVars, hold, open>>
pipeVars == <<mutex, active, mark, lastFed>>
playVars == <<playing, frame, scrubOpen>>
bounds == <<quit, commands, scrubs>>
vars == <<outputVars, pipeVars, playVars, todo, crashed, bounds>>

Init ==
    /\ queue = <<>> /\ batch = <<>> /\ device = <<>>
    /\ writer = "none" /\ stopping = FALSE /\ hold = FALSE
    /\ pcm = FALSE /\ open = FALSE
    /\ mutex = "none" /\ active = FALSE /\ mark = None /\ lastFed = None
    /\ playing = FALSE /\ frame = 0 /\ scrubOpen = FALSE
    /\ todo = [c \in Callers |-> <<>>]
    /\ quit = FALSE /\ crashed = FALSE
    /\ heard = None /\ commands = 0 /\ scrubs = 0
-----------------------------------------------------------------------------
(* Calls, a step at a time *)

At(c, step) == ~crashed /\ todo[c] # <<>> /\ Head(todo[c]) = step

\* The step is done; these come before the rest of the call.
Then(c, steps) == todo' = [todo EXCEPT ![c] = steps \o Tail(@)]

Free(c) == mutex \in {"none", c}
Woken == IF writer = "asleep" THEN "eval" ELSE writer
-----------------------------------------------------------------------------
(* The output: audio_output.cpp *)

\* Mutant: the writer is not woken.
StopThreadSilently(c, steps) ==
    \/ /\ writer = "none"
       /\ Then(c, steps)
       /\ UNCHANGED <<writer, stopping, crashed>>
    \/ /\ writer # "none"
       /\ stopping' = TRUE
       /\ Then(c, <<"join", "joined">> \o steps)
       /\ UNCHANGED <<writer, crashed>>

\* alsa_thread_stop() up to its join().  A thread that another is joining is
\* still joinable: to join it as well is undefined.
StopThread(c, steps) ==
    \/ /\ writer = "none"
       /\ Then(c, steps)
       /\ UNCHANGED <<writer, stopping, crashed>>
    \/ /\ writer # "none"
       /\ stopping' = TRUE
       /\ writer' = Woken
       /\ crashed' = \E d \in Callers \ {c} : At(d, "join")
       /\ Then(c, <<"join", "joined">> \o steps)

\* Mutant: what is queued and played is dropped while the writer runs.
FlushRunning(c) ==
    /\ At(c, "flush")
    /\ Then(c, IF open THEN <<"clear", "drop", "start">> ELSE <<>>)
    /\ UNCHANGED <<outputVars, pipeVars, playVars, crashed, bounds>>

Flush(c) ==
    /\ At(c, "flush")
    /\ \/ ~open /\ Then(c, <<>>) /\ UNCHANGED <<writer, stopping, crashed>>
       \/ open /\ StopThread(c, <<"clear", "drop", "start">>)
    /\ UNCHANGED <<queue, batch, deviceVars, hold, open, pipeVars, playVars, bounds>>

Join(c) ==
    /\ At(c, "join") /\ writer = "ended"
    /\ writer' = "none"
    /\ Then(c, <<>>)
    /\ UNCHANGED <<queue, batch, stopping, deviceVars, hold, open, pipeVars,
                   playVars, crashed, bounds>>

Joined(c) ==
    /\ At(c, "joined")
    /\ stopping' = FALSE
    /\ Then(c, <<>>)
    /\ UNCHANGED <<queue, batch, writer, deviceVars, hold, open, pipeVars,
                   playVars, crashed, bounds>>

Clear(c) ==
    /\ At(c, "clear")
    /\ queue' = <<>>
    /\ Then(c, <<>>)
    /\ UNCHANGED <<threadVars, deviceVars, hold, open, pipeVars, playVars,
                   crashed, bounds>>

\* The handle is looked at, and then used.
Drop(c) ==
    /\ At(c, "drop")
    /\ Then(c, IF open /\ pcm THEN <<"dropping">> ELSE <<>>)
    /\ UNCHANGED <<outputVars, pipeVars, playVars, crashed, bounds>>

Dropping(c) ==
    /\ At(c, "dropping")
    /\ IF pcm THEN device' = <<>> /\ heard' = None /\ UNCHANGED crashed
              ELSE crashed' = TRUE /\ UNCHANGED <<device, heard>>
    /\ Then(c, <<>>)
    /\ UNCHANGED <<queue, threadVars, pcm, hold, open, pipeVars, playVars, bounds>>

\* alsa_thread_start()
Start(c) ==
    /\ At(c, "start")
    /\ IF open /\ writer = "none" THEN writer' = "eval" /\ stopping' = FALSE
                                  ELSE UNCHANGED <<writer, stopping>>
    /\ Then(c, <<>>)
    /\ UNCHANGED <<queue, batch, deviceVars, hold, open, pipeVars, playVars,
                   crashed, bounds>>

Close(c) ==
    /\ At(c, "close")
    /\ StopThread(c, <<"closePcm", "closed">>)
    /\ UNCHANGED <<queue, batch, deviceVars, hold, open, pipeVars, playVars, bounds>>

ClosePcm(c) ==
    /\ At(c, "closePcm")
    /\ pcm' = FALSE /\ device' = <<>> /\ heard' = None
    /\ Then(c, <<>>)
    /\ UNCHANGED <<queue, threadVars, hold, open, pipeVars, playVars, crashed, bounds>>

Closed(c) ==
    /\ At(c, "closed")
    /\ open' = FALSE /\ queue' = <<>>
    /\ Then(c, <<>>)
    /\ UNCHANGED <<threadVars, deviceVars, hold, pipeVars, playVars, crashed, bounds>>

\* open(), after its close(), and the end of open_output(): there is a device
\* or there is none.
OpenDevice(c) ==
    /\ At(c, "openDevice")
    /\ \/ /\ pcm' = TRUE /\ open' = TRUE /\ active' = TRUE
          /\ IF writer = "none" THEN writer' = "eval" /\ stopping' = FALSE
                                ELSE UNCHANGED <<writer, stopping>>
       \/ UNCHANGED <<pcm, open, active, writer, stopping>>
    /\ mutex' = "none"
    /\ Then(c, <<>>)
    /\ UNCHANGED <<queue, batch, device, heard, hold, mark, lastFed, playVars,
                   crashed, bounds>>

\* write_float(): what does not fit drops all that waits.
Enqueued(s) == IF Len(queue) + Len(s) > QueueMax THEN s ELSE queue \o s

\* Mutant: the writer is not told.
WriteFloatSilently(s) ==
    /\ queue' = IF s # <<>> /\ open /\ pcm THEN Enqueued(s) ELSE queue
    /\ UNCHANGED writer

WriteFloat(s) ==
    IF s # <<>> /\ open /\ pcm
    THEN queue' = Enqueued(s) /\ writer' = Woken
    ELSE UNCHANGED <<queue, writer>>

\* set_hold_active(true) notifies without q_mutex: a writer that has seen
\* no hold and is not yet asleep misses it.
Hold(c) ==
    /\ At(c, "hold")
    /\ \/ ~active /\ UNCHANGED <<hold, writer>>
       \/ active /\ hold' = TRUE /\ writer' \in {writer, Woken}
    /\ Then(c, <<>>)
    /\ UNCHANGED <<queue, batch, stopping, deviceVars, open, pipeVars, playVars,
                   crashed, bounds>>
-----------------------------------------------------------------------------
(* The writer thread *)

writerElse == <<pipeVars, playVars, todo, bounds>>

WriterTake ==
    /\ writer = "eval" /\ ~stopping /\ queue # <<>>
    /\ batch' = queue /\ queue' = <<>>
    /\ writer' = "write"
    /\ UNCHANGED <<stopping, deviceVars, hold, open, crashed, writerElse>>

WriterSleep ==
    /\ writer = "eval" /\ ~stopping /\ queue = <<>> /\ ~hold
    /\ writer' = "asleep"
    /\ UNCHANGED <<queue, batch, stopping, deviceVars, hold, open, crashed, writerElse>>

\* The queue is empty and the output is to be held: silence, if there is room.
WriterHold ==
    /\ writer = "eval" /\ ~stopping /\ queue = <<>> /\ hold
    /\ pcm /\ Len(device) < DeviceMax
    /\ device' = Append(device, Silence)
    /\ UNCHANGED <<queue, threadVars, pcm, heard, hold, open, crashed, writerElse>>

\* A piece is written; stopping may have been set after it was looked at.
WriterWrite ==
    /\ writer = "write" /\ batch # <<>>
    /\ IF pcm
       THEN /\ Len(device) < DeviceMax
            /\ device' = Append(device, Head(batch)) /\ batch' = Tail(batch)
                    /\ UNCHANGED crashed
       ELSE crashed' = TRUE /\ UNCHANGED <<device, batch>>
    /\ UNCHANGED <<queue, writer, stopping, pcm, heard, hold, open, writerElse>>

\* The batch is written, or an error cannot be recovered from and what is
\* left of it is dropped.
WriterNext ==
    /\ writer = "write" /\ ~stopping
    /\ batch' = <<>>
    /\ writer' = "eval"
    /\ UNCHANGED <<queue, stopping, deviceVars, hold, open, crashed, writerElse>>

WriterEnd ==
    /\ writer \in {"eval", "write"} /\ stopping
    /\ batch' = <<>>
    /\ writer' = "ended"
    /\ UNCHANGED <<queue, stopping, deviceVars, hold, open, crashed, writerElse>>

\* The device, in its own time.
DevicePlays ==
    /\ device # <<>>
    /\ device' = Tail(device)
    /\ heard' = IF Head(device) >= 0 THEN Head(device) ELSE heard
    /\ UNCHANGED <<queue, threadVars, pcm, hold, open, crashed, writerElse>>
-----------------------------------------------------------------------------
(* The pipeline: audio_pipeline.cpp *)

CloseOutput(c) ==
    /\ At(c, "closeOutput") /\ Free(c)
    /\ IF active THEN mutex' = c /\ Then(c, <<"flush", "close", "inactive">>)
                 ELSE Then(c, <<>>) /\ UNCHANGED mutex
    /\ UNCHANGED <<outputVars, active, mark, lastFed, playVars, crashed, bounds>>

Inactive(c) ==
    /\ At(c, "inactive")
    /\ active' = FALSE /\ mutex' = "none"
    /\ Then(c, <<>>)
    /\ UNCHANGED <<outputVars, mark, lastFed, playVars, crashed, bounds>>

OpenOutput(c) ==
    /\ At(c, "openOutput") /\ Free(c)
    /\ IF active THEN Then(c, <<>>) /\ UNCHANGED mutex
                 ELSE mutex' = c /\ Then(c, <<"close", "openDevice">>)
    /\ UNCHANGED <<outputVars, active, mark, lastFed, playVars, crashed, bounds>>

\* reanchor_locked(), up to its flush
Anchored(c, steps) ==
    /\ mark' = None /\ lastFed' = frame
    /\ IF active THEN mutex' = c /\ Then(c, <<"flush">> \o steps)
                 ELSE UNCHANGED mutex /\ Then(c, <<>>)

Rewind(c) ==
    /\ At(c, "rewind") /\ Free(c)
    /\ Anchored(c, <<"unlock">>)
    /\ UNCHANGED <<outputVars, active, playVars, crashed, bounds>>

Unlock(c) ==
    /\ At(c, "unlock")
    /\ mutex' = "none"
    /\ Then(c, <<>>)
    /\ UNCHANGED <<outputVars, active, mark, lastFed, playVars, crashed, bounds>>

\* Where the sound of frame p goes on, after what has been fed of the clip.
From(p) == Max({p, mark})

\* Mutant: what was fed before is not looked at.
MixedAgain(p, want) == [i \in 1..want |-> p + i - 1]

\* write_mixed(): the sound from there, up to what is wanted from p on.
Mixed(p, want) == [i \in 1..Max({0, p + want - From(p)}) |-> From(p) + i - 1]

\* What is fed moves the mark, no further than the clip goes.
WriteMixed(p, s) ==
    /\ mark' = IF s = <<>> THEN mark
               ELSE Max({mark, p, Min({From(p) + Len(s), Length})})
    /\ WriteFloat(s)

Ready == active /\ open /\ frame < Length

Preroll(c) ==
    /\ At(c, "preroll") /\ Free(c)
    /\ IF Ready THEN \E s \in {<<>>, Mixed(frame, Lead)} : WriteMixed(frame, s)
                ELSE UNCHANGED <<mark, queue, writer>>
    /\ Then(c, <<>>)
    /\ UNCHANGED <<batch, stopping, deviceVars, hold, open, mutex, active, lastFed,
                   playVars, crashed, bounds>>

\* What is written less what is audible: what the device and the queue have,
\* once the program has written that much at all.
Backlog == IF pcm THEN Len(device) + Len(queue) ELSE 0

\* The second half of play_step().  A decoder may give nothing; the frame is
\* asked for again with some of the next when too little waits.
Fed(p) ==
    IF Backlog > Lead + 1 THEN {<<>>}
    ELSE {<<>>, Mixed(p, 1)} \cup (IF Backlog < Lead THEN {Mixed(p, 2)} ELSE {})

Feed(c) ==
    /\ \E s \in Fed(frame) : WriteMixed(frame, s)
    /\ lastFed' = Max({lastFed, frame})
    /\ mutex' = "none"
    /\ Then(c, <<>>)
    /\ UNCHANGED <<active, batch, stopping, deviceVars, hold, open, playVars,
                   crashed, bounds>>

\* play_step(): the run begins anew when the playhead has gone back, or when
\* sound and picture are found to be two seconds apart.
PlayStep(c) ==
    /\ At(c, "feed") /\ Free(c)
    /\ IF ~Ready
       THEN /\ Then(c, <<>>)
            /\ UNCHANGED <<outputVars, pipeVars, playVars, crashed, bounds>>
       ELSE \/ /\ Anchored(c, <<"feedOn">>)
               /\ UNCHANGED <<outputVars, active, playVars, crashed, bounds>>
            \/ /\ ~(lastFed >= 0 /\ frame < lastFed - 1)
               /\ Feed(c)

FeedOn(c) == At(c, "feedOn") /\ Feed(c)

\* play_scrub_grain()
ScrubGrain(c) ==
    /\ At(c, "grain") /\ Free(c)
    /\ WriteFloat(IF Ready /\ ~playing THEN <<Grain>> ELSE <<>>)
    /\ Then(c, <<>>)
    /\ UNCHANGED <<batch, stopping, deviceVars, hold, open, pipeVars, playVars,
                   crashed, bounds>>

\* reset(), of a project with other media and of the destructor: the output
\* is flushed, no longer used, and left open.
Reset(c) ==
    /\ At(c, "reset") /\ Free(c)
    /\ IF active THEN mutex' = c /\ Then(c, <<"flush", "inactive">>)
                 ELSE UNCHANGED mutex /\ Then(c, <<>>)
    /\ mark' = None /\ lastFed' = None
    /\ UNCHANGED <<outputVars, active, playVars, crashed, bounds>>
-----------------------------------------------------------------------------
(* The controller: sequence_controller.cpp *)

\* The end of handle_play()
NowPlaying(c) ==
    /\ At(c, "play")
    /\ playing' = TRUE
    /\ Then(c, <<>>)
    /\ UNCHANGED <<outputVars, pipeVars, frame, scrubOpen, crashed, bounds>>

\* handle_seek_preview(), once it has asked for the output: the window clears
\* the same flag, and neither takes a lock.
ScrubOpened(c) ==
    /\ At(c, "scrubOpened")
    /\ scrubOpen' = TRUE
    /\ Then(c, <<>>)
    /\ UNCHANGED <<outputVars, pipeVars, playing, frame, crashed, bounds>>

Begin(c, steps) == ~crashed /\ todo[c] = <<>> /\ todo' = [todo EXCEPT ![c] = steps]
Command(steps) == ~quit /\ Begin("worker", steps)
Counts == commands < MaxCommands /\ commands' = commands + 1 /\ UNCHANGED <<quit, scrubs>>

Play ==
    /\ Counts
    /\ LET again == frame >= Length - 1 IN
       /\ frame' = IF again THEN 0 ELSE frame
       /\ Command((IF again THEN <<"rewind">> ELSE <<>>)
                   \o (IF again /\ playing THEN <<"preroll">> ELSE <<>>)
                   \o <<"openOutput", "rewind", "preroll", "hold", "play">>)
    /\ UNCHANGED <<outputVars, pipeVars, playing, scrubOpen, crashed>>

\* The flush is the output's: mutex_ is not taken.
Pause ==
    /\ Counts
    /\ playing' = FALSE
    /\ hold' = (hold /\ ~active)
    /\ Command(IF active THEN <<"flush">> ELSE <<>>)
    /\ UNCHANGED <<queue, deviceVars, threadVars, open, pipeVars, frame, scrubOpen,
                   crashed>>

ReleaseAudio ==
    /\ Counts
    /\ playing' = FALSE
    /\ hold' = (hold /\ ~active)
    /\ Command(IF active THEN <<"closeOutput">> ELSE <<>>)
    /\ UNCHANGED <<queue, deviceVars, threadVars, open, pipeVars, frame, scrubOpen,
                   crashed>>

Seek(f) ==
    /\ Counts
    /\ frame' = f
    /\ Command(<<"rewind">> \o (IF playing THEN <<"preroll">> ELSE <<>>))
    /\ UNCHANGED <<outputVars, pipeVars, playing, scrubOpen, crashed>>

\* handle_set_project(), after every edit; the media are the same or not.
SetProject ==
    /\ Counts
    /\ playing' = FALSE
    /\ \/ Command(<<"rewind">>)
       \/ Command(<<"reset", "rewind">>)
    /\ UNCHANGED <<outputVars, pipeVars, frame, scrubOpen, crashed>>

\* handle_seek_preview(): a grain of sound while paused, a step while playing
SeekPreview(f) ==
    /\ Counts
    /\ frame' = f
    /\ Command(IF playing THEN (IF active THEN <<"feed">> ELSE <<>>)
               ELSE IF scrubOpen THEN <<"grain">>
               ELSE <<"openOutput", "rewind", "scrubOpened", "grain">>)
    /\ UNCHANGED <<outputVars, pipeVars, playing, scrubOpen, crashed>>

\* present_next(): the next frame, or a later one when the worker is late;
\* then the sound fed so far is put forward to it.
Present ==
    /\ playing /\ frame + 1 < Length
    /\ \E late \in frame..(Length - 1) :
          /\ late > frame => mutex = "none"
          /\ frame' = late + 1
          /\ mark' = IF late > frame /\ active THEN Max({0, mark, late}) ELSE mark
    /\ Command(IF active THEN <<"feed">> ELSE <<>>)
    /\ UNCHANGED <<outputVars, mutex, active, lastFed, playing, scrubOpen, crashed, bounds>>

\* The last frame has been shown; the output stays open and held.
PlayedOut ==
    /\ playing /\ frame + 1 >= Length
    /\ Command(<<>>)
    /\ playing' = FALSE
    /\ UNCHANGED <<outputVars, pipeVars, frame, scrubOpen, crashed, bounds>>

\* end_scrub(), on the window's thread
EndScrub ==
    /\ ~quit /\ scrubs < MaxScrubs /\ scrubs' = scrubs + 1
    /\ scrubOpen' = FALSE
    /\ Begin("window", IF active /\ ~playing THEN <<"closeOutput">> ELSE <<>>)
    /\ UNCHANGED <<outputVars, pipeVars, playing, frame, crashed, quit, commands>>

\* The destructor, once the worker has been joined
Destroy ==
    /\ ~quit /\ todo["worker"] = <<>>
    /\ quit' = TRUE
    /\ Begin("window", <<"reset", "close">>)
    /\ UNCHANGED <<outputVars, pipeVars, playVars, crashed, commands, scrubs>>
-----------------------------------------------------------------------------
Step(c) ==
    \/ Flush(c) \/ Join(c) \/ Joined(c) \/ Clear(c) \/ Drop(c) \/ Dropping(c) \/ Start(c)
    \/ Close(c) \/ ClosePcm(c) \/ Closed(c) \/ OpenDevice(c) \/ Hold(c)
    \/ CloseOutput(c) \/ Inactive(c) \/ OpenOutput(c) \/ Rewind(c) \/ Unlock(c)
    \/ Preroll(c) \/ PlayStep(c) \/ FeedOn(c) \/ ScrubGrain(c) \/ Reset(c)
    \/ ScrubOpened(c) \/ NowPlaying(c)

Worker ==
    \/ Step("worker")
    \/ Play \/ Pause \/ ReleaseAudio \/ SetProject \/ Present \/ PlayedOut
    \/ \E f \in 0..(Length - 1) : Seek(f) \/ SeekPreview(f)

Window == Step("window") \/ EndScrub \/ Destroy

Writer == WriterTake \/ WriterSleep \/ WriterHold \/ WriterWrite \/ WriterNext \/ WriterEnd

Next == Worker \/ Window \/ (~crashed /\ (Writer \/ DevicePlays))

\* Every thread goes on, the device plays, and a mutex that is let go again
\* and again is got.
Fairness ==
    /\ WF_vars(Step("worker")) /\ SF_vars(Step("window"))
    /\ WF_vars(~crashed /\ Writer) /\ WF_vars(~crashed /\ DevicePlays)

Spec == Init /\ [][Next]_vars /\ Fairness
-----------------------------------------------------------------------------
(* Properties *)

\* When a flush is about to let the writer run again, nothing of before is
\* left anywhere: not in the queue, not in the hands of the writer it has
\* joined, not in the device.
FlushSilences ==
    \A c \in Callers :
        At(c, "start") => \A s \in {queue, batch, device} : \A i \in DOMAIN s : s[i] = Silence

\* The sound of the clip is heard in order and no frame of it twice, from one
\* flush to the next: across the lead, the writer's batches, late pictures and
\* drags of the playhead while it plays.
Coming == device \o batch \o queue

InOrder ==
    \A i \in DOMAIN Coming : Coming[i] \in 0..(Length - 1) =>
        /\ Coming[i] > heard
        /\ \A j \in 1..(i - 1) : Coming[j] \in 0..(Length - 1) => Coming[j] < Coming[i]

\* The worker is in the flush of a pause, which takes no mutex, and the window in
\* a call: the one may take back the stop of the writer that the other waits for.
Overlap ==
    /\ todo["worker"] # <<>> /\ todo["window"] # <<>> /\ mutex # "worker"
    /\ Head(todo["worker"]) \in {"flush", "join", "joined", "clear", "drop", "dropping", "start"}

\* A call of the output returns, while the two are kept apart: the writer that is
\* joined ends, asleep or with a device that takes no more.
CallsReturn == []~Overlap => []<>(crashed \/ \A c \in Callers : todo[c] = <<>>)

\* Sound that waits is taken by the writer or dropped by a flush.
SoundLeaves == []<>(crashed \/ queue = <<>>)

\* flush() joins the writer before it drops what the device has.
DropsJoined == \A c \in Callers : At(c, "dropping") => writer = "none"
=============================================================================
