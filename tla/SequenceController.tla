------------------------- MODULE SequenceController -------------------------
(***************************************************************************)
(* Playback of the timeline (sequence_controller.cpp): the GUI thread      *)
(* pushes requests, which push() coalesces, and one worker thread takes    *)
(* them off the queue, decodes and presents frames.                        *)
(*                                                                         *)
(* queue_ and ready_ are guarded by mutex_, but the worker holds it only   *)
(* to take a request, to fill or pop ready_ and to look for a newer        *)
(* preview; playing_, play_pause_intent_, current_frame_ and scrubbing_    *)
(* are atomics that both threads read.  One step of the worker runs to the *)
(* next point where the GUI can change what it reads; a step of the GUI is *)
(* one call.  The audio side and the statistics are left out.              *)
(***************************************************************************)
EXTENDS Integers, FiniteSetsExt, SequencesExt

CONSTANTS
    Projects,      \* snapshots of the project that differ in their pictures
    LengthOf,      \* their duration_frames
    Lookahead,     \* kLookahead, 24 in the code
    MaxRequests    \* bound: calls of the GUI

ASSUME LookaheadAssumption == Lookahead \in Nat \ {0}
ASSUME LengthAssumption == \A p \in Projects : LengthOf[p] \in Nat

NoProject == "none"
ASSUME ProjectAssumption == NoProject \notin Projects
NoFrame == [frame |-> -1, project |-> NoProject]

VARIABLES
    \* shared
    queue, intent, playing, scrubbing, stopping, current, total,
    \* the worker's
    project, ready, readyBase, pc, req, shown,
    \* history of the GUI: calls made, the last project given, the frame last
    \* sought while paused (-1: none or moved), whether pause came after play, whether
    \* the worker refused the last play
    calls, asked, goal, pausedLast, refused

guiVars == <<calls, asked, goal, pausedLast>>
vars == <<queue, intent, playing, scrubbing, stopping, current, total,
          project, ready, readyBase, pc, req, shown, guiVars, refused>>

Request(command, arg, p) == [command |-> command, arg |-> arg, project |-> p]
Seeks == {"Seek", "SeekPreview"}

ClampTo(x, lo, hi) == Max({lo, Min({x, hi})})

-----------------------------------------------------------------------------
(* The GUI thread *)

\* Mutant: play throws away every request before it.
OutdatedByPlay(r, new) ==
    \/ new.command = "Play"
    \/ new.command \in Seeks /\ r.command \in Seeks
    \/ new.command = "Pause" /\ r.command = "Play"
    \/ new.command = "SwapProject" /\ r.command = "SwapProject"

\* Mutant: pause throws away the seeks before it, as play does.
OutdatedByPause(r, new) ==
    \/ new.command \in Seeks /\ r.command \in Seeks
    \/ new.command \in {"Play", "Pause"} /\ r.command \in Seeks \cup {"Play"}
    \/ new.command = "SwapProject" /\ r.command = "SwapProject"

\* A request makes some of those before it pointless.
Outdated(r, new) ==
    \/ new.command \in Seeks /\ r.command \in Seeks
    \/ new.command = "Pause" /\ r.command = "Play"
    \/ new.command = "Play" /\ r.command \in Seeks
    \/ new.command = "SwapProject" /\ r.command = "SwapProject"

\* The numberings of some positions in their order: there is one.
Numberings(positions) ==
    {f \in [1 .. Cardinality(positions) -> positions] :
        /\ Range(f) = positions
        /\ \A m, n \in DOMAIN f : m < n => f[m] < f[n]}

\* The others keep their order, and the new one comes last.
Push(new) ==
    \E stays \in Numberings({i \in DOMAIN queue : ~Outdated(queue[i], new)}) :
        queue' = Append([n \in DOMAIN stays |-> queue[stays[n]]], new)

Call == ~stopping /\ calls < MaxRequests /\ calls' = calls + 1
workerVars == <<playing, current, total, project, ready, readyBase, pc, req, shown>>

\* A project too short for the frame sought moves the playhead.
KeptGoal(p) == IF goal < LengthOf[p] THEN goal ELSE -1

\* push_snapshot, after every edit; frame -1 stands for where the playhead is.
SetProject(p, frame) ==
    /\ Call
    /\ Push(Request("SetProject", frame, p))
    /\ asked' = p
    /\ goal' = IF frame >= 0 /\ LengthOf[p] > 0 THEN frame ELSE KeptGoal(p)
    /\ pausedLast' = TRUE
    /\ UNCHANGED <<intent, refused, scrubbing, stopping, workerVars>>

\* push_live_snapshot, push_grade_snapshot.  When it replaces a swap that was
\* queued before a seek, the seek is bounded by the project before both: then
\* the playhead need not come to rest where it was sent.
SwapProject(p) ==
    /\ Call /\ asked # NoProject
    /\ Push(Request("SwapProject", 0, p))
    /\ asked' = p
    /\ goal' = IF \E r \in Range(queue) : r.command = "SwapProject" THEN -1 ELSE KeptGoal(p)
    /\ UNCHANGED <<intent, refused, scrubbing, stopping, pausedLast, workerVars>>

\* push_audio_mix_snapshot, after edits that change no picture.
UpdateAudioMix ==
    /\ Call /\ asked # NoProject
    /\ Push(Request("UpdateAudioMix", 0, asked))
    /\ UNCHANGED <<intent, refused, scrubbing, stopping, asked, goal, pausedLast, workerVars>>

PushPlay ==
    /\ intent' = TRUE /\ refused' = FALSE
    /\ Push(Request("Play", 0, NoProject))
    /\ goal' = -1
    /\ pausedLast' = FALSE

PushPause ==
    /\ intent' = FALSE /\ refused' = FALSE
    /\ Push(Request("Pause", 0, NoProject))
    /\ pausedLast' = TRUE
    /\ UNCHANGED goal

Play == Call /\ PushPlay /\ UNCHANGED <<asked, scrubbing, stopping, workerVars>>
Pause == Call /\ PushPause /\ UNCHANGED <<asked, scrubbing, stopping, workerVars>>

TogglePlayPause ==
    /\ Call
    /\ IF intent THEN PushPause ELSE PushPlay
    /\ UNCHANGED <<asked, scrubbing, stopping, workerVars>>

ReleaseAudio ==
    /\ Call
    /\ Push(Request("ReleaseAudio", 0, NoProject))
    /\ pausedLast' = TRUE
    /\ UNCHANGED <<intent, refused, asked, scrubbing, stopping, goal, workerVars>>

\* The GUI seeks within the length of the project it has.
SeekTo(command, frame) ==
    /\ Call
    /\ asked # NoProject /\ frame < LengthOf[asked]
    /\ Push(Request(command, frame, NoProject))
    /\ goal' = IF pausedLast THEN frame ELSE -1
    /\ UNCHANGED <<intent, refused, asked, stopping, pausedLast, workerVars>>

Seek(frame) == SeekTo("Seek", frame) /\ UNCHANGED scrubbing

\* A drag of the playhead: begin_scrub with the preview, end_scrub and a seek
\* when it is let go.
Drag(frame) == SeekTo("SeekPreview", frame) /\ scrubbing' = TRUE
Drop(frame) == scrubbing /\ SeekTo("Seek", frame) /\ scrubbing' = FALSE

Step(delta) ==
    /\ Call
    /\ Push(Request("Step", delta, NoProject))
    /\ goal' = -1
    /\ UNCHANGED <<intent, refused, asked, scrubbing, stopping, pausedLast, workerVars>>

\* The destructor, up to the join.
Destroy ==
    /\ ~stopping
    /\ stopping' = TRUE
    /\ queue' = <<>>
    /\ UNCHANGED <<intent, refused, scrubbing, workerVars, guiVars>>

-----------------------------------------------------------------------------
(* Frames *)

Frame(n, p) == [frame |-> n, project |-> p]

\* The frames from base on that fill_lookahead decodes behind those there are.
Filled(frames, base, n, p) ==
    LET last == ClampTo(n - base, 0, Lookahead)
    IN [i \in 1 .. Max({Len(frames), last}) |->
           IF i <= Len(frames) THEN frames[i] ELSE Frame(base + i - 1, p)]

FillLookahead(base) ==
    LET kept == IF readyBase = base THEN ready ELSE <<>>
    IN Filled(kept, base, total, project)

ResetReady == ready' = <<>> /\ readyBase' = -1

Show(n, picture) == shown' = [position |-> n, picture |-> picture]

\* Within the n frames there are; an empty timeline takes any frame.
SeekTarget(frame, n) ==
    IF n > 0 THEN ClampTo(frame, 0, n - 1) ELSE Max({frame, 0})

\* handle_seek once the project is p, of n frames.
HandleSeek(frame, p, n) ==
    LET target == SeekTarget(frame, n)
    IN IF p = NoProject THEN UNCHANGED <<current, ready, readyBase, shown>>
       ELSE /\ current' = target
            /\ ResetReady
            /\ Show(target, Frame(target, p))

-----------------------------------------------------------------------------
(* The worker thread *)

Goto(label) == pc' = label
unreadByGui == <<scrubbing, stopping, guiVars>>

TakeRequest ==
    /\ pc = "top"
    /\ queue # <<>>
    /\ req' = Head(queue)
    /\ queue' = Tail(queue)
    /\ Goto("handle")
    /\ UNCHANGED <<intent, refused, playing, current, total, project, ready, readyBase,
                   shown, unreadByGui>>

NothingToTake ==
    /\ pc = "top"
    /\ queue = <<>>
    /\ Goto(IF playing THEN "fill" ELSE "sleep")
    /\ UNCHANGED <<queue, intent, refused, playing, current, total, project, ready,
                   readyBase, req, shown, unreadByGui>>

\* Mutant: playing_ is reset and the intent of the key is not.
StopKeepsIntent == playing' = FALSE /\ intent' = intent /\ refused' = FALSE

StopPlaying == playing' = FALSE /\ intent' = FALSE /\ refused' = FALSE
Handle(command) == pc = "handle" /\ req.command = command
handled == <<queue, req, unreadByGui>>

HandleSetProject ==
    LET anchor == IF req.arg >= 0 THEN req.arg ELSE Max({current, 0})
    IN /\ Handle("SetProject")
       /\ StopPlaying
       /\ project' = req.project
       /\ total' = LengthOf[req.project]
       /\ HandleSeek(anchor, project', total')
       /\ Goto("top")
       /\ UNCHANGED handled

\* Mutant: a swap while playing shows the new project with the next frame.
SwapKeepsReady ==
    /\ Handle("SwapProject")
    /\ project' = req.project
    /\ total' = LengthOf[req.project]
    /\ IF current >= 0 /\ ~playing THEN HandleSeek(current, project', total')
       ELSE UNCHANGED <<current, ready, readyBase, shown>>
    /\ Goto("top")
    /\ UNCHANGED <<handled, playing, intent, refused>>

HandleSwapProject ==
    /\ Handle("SwapProject")
    /\ project' = req.project
    /\ total' = LengthOf[req.project]
    /\ IF current >= 0 THEN HandleSeek(current, project', total')
       ELSE UNCHANGED <<current, ready, readyBase, shown>>
    /\ Goto("top")
    /\ UNCHANGED <<handled, playing, intent, refused>>

HandleUpdateAudioMix ==
    /\ Handle("UpdateAudioMix")
    /\ project' = req.project
    /\ Goto("top")
    /\ UNCHANGED <<handled, playing, intent, refused, current, total, ready, readyBase, shown>>

\* At the end of the timeline play starts over.
HandlePlay ==
    /\ Handle("Play")
    /\ IF project = NoProject \/ total <= 0
       THEN refused' = intent /\ UNCHANGED <<playing, intent, current, ready, readyBase, shown>>
       ELSE /\ intent' = TRUE /\ playing' = TRUE /\ refused' = FALSE
            /\ IF current >= total - 1 THEN HandleSeek(0, project, total)
               ELSE ResetReady /\ UNCHANGED <<current, shown>>
    /\ Goto("top")
    /\ UNCHANGED <<handled, project, total>>

HandlePause ==
    /\ Handle("Pause") \/ Handle("ReleaseAudio")
    /\ StopPlaying
    /\ Goto("top")
    /\ UNCHANGED <<handled, current, total, project, ready, readyBase, shown>>

HandleSeekOrStep ==
    /\ Handle("Seek") \/ Handle("Step")
    /\ HandleSeek(IF req.command = "Seek" THEN req.arg ELSE current + req.arg, project, total)
    /\ Goto("top")
    /\ UNCHANGED <<handled, playing, intent, refused, total, project>>

PreviewTarget == SeekTarget(req.arg, total)
Superseded(target) ==
    \E i \in DOMAIN queue : queue[i].command = "SeekPreview" /\ queue[i].arg # target

\* handle_seek_preview up to the decoding: a seek while playing, unless the
\* playhead is being dragged; given up when a newer preview waits.
HandleSeekPreview ==
    /\ Handle("SeekPreview")
    /\ IF project = NoProject
       THEN Goto("top") /\ UNCHANGED <<current, ready, readyBase, shown>>
       ELSE IF playing /\ ~scrubbing
       THEN Goto("top") /\ HandleSeek(req.arg, project, total)
       ELSE /\ current' = PreviewTarget
            /\ IF Superseded(PreviewTarget)
               THEN Goto("top") /\ UNCHANGED <<ready, readyBase>>
               ELSE Goto("preview") /\ ResetReady
            /\ UNCHANGED shown
    /\ UNCHANGED <<handled, playing, intent, refused, total, project>>

\* The rest, once the frame is decoded.
FinishPreview ==
    /\ pc = "preview"
    /\ IF Superseded(PreviewTarget) THEN UNCHANGED <<current, shown>>
       ELSE /\ current' = PreviewTarget
            /\ Show(PreviewTarget, Frame(PreviewTarget, project))
    /\ Goto("top")
    /\ UNCHANGED <<handled, playing, intent, refused, total, project, ready, readyBase>>

\* While playing: decode ahead, then wait for the next frame to be due or for
\* a request.
Fill ==
    /\ pc = "fill"
    /\ ready' = FillLookahead(current + 1)
    /\ readyBase' = current + 1
    /\ Goto("wait")
    /\ UNCHANGED <<handled, playing, intent, refused, current, total, project, shown>>

\* Mutant: the wait without a request does not look at stopping_.
InterruptedByRequest ==
    /\ pc \in {"wait", "sleep"}
    /\ queue # <<>> \/ (stopping /\ pc = "wait")
    /\ Goto(IF stopping /\ queue = <<>> THEN "exited" ELSE "top")
    /\ UNCHANGED <<handled, playing, intent, refused, current, total, project, ready, readyBase, shown>>

\* Mutant: push() wakes a worker that plays and forgets one that sleeps.
InterruptedWhilePlaying ==
    /\ pc \in {"wait", "sleep"}
    /\ stopping \/ (queue # <<>> /\ pc = "wait")
    /\ Goto(IF stopping /\ queue = <<>> THEN "exited" ELSE "top")
    /\ UNCHANGED <<handled, playing, intent, refused, current, total, project, ready, readyBase, shown>>

\* The wait ends for a request or the end; cv_.wait_until holds mutex_ again.
Interrupted ==
    /\ pc \in {"wait", "sleep"}
    /\ stopping \/ queue # <<>>
    /\ Goto(IF stopping /\ queue = <<>> THEN "exited" ELSE "top")
    /\ UNCHANGED <<handled, playing, intent, refused, current, total, project, ready, readyBase, shown>>

FrameDue ==
    /\ pc = "wait"
    /\ ~stopping /\ queue = <<>>
    /\ Goto("present")
    /\ UNCHANGED <<handled, playing, intent, refused, current, total, project, ready, readyBase, shown>>

\* present_next at the end of the timeline.
PresentEnd ==
    /\ pc = "present"
    /\ current + 1 >= total
    /\ StopPlaying
    /\ Goto("top")
    /\ UNCHANGED <<handled, current, total, project, ready, readyBase, shown>>

\* SonicSync::reconcile: no further than lead frames before the sound.
Reconcile(want, audible, lead, n) ==
    LET ceiling == audible + Max({lead, 1})
    IN IF n <= 0 THEN want
       ELSE ClampTo(IF audible >= 0 /\ want > ceiling THEN ceiling ELSE want, 0, n - 1)

\* Where present_next takes the playhead when the frame is over a second
\* late: owed frames on, but not too far from the sound.
CaughtUp(owed, audible) ==
    Min({Reconcile(current + owed, audible, Lookahead, total), total - 1})

\* Mutant: the frame that is presented stays in ready_.
PresentWithoutPop(n, frames, base) ==
    LET want == n + 1
        use == IF frames # <<>> /\ base = want THEN frames
               ELSE Filled(<<>>, want, total, project)
    IN /\ current' = want
       /\ ready' = use
       /\ readyBase' = IF use = <<>> THEN want ELSE want + 1
       /\ Show(want, IF use = <<>> THEN NoFrame ELSE Head(use))
       /\ Goto("top")
       /\ UNCHANGED <<handled, playing, intent, refused, total, project>>

\* Present the frame after n; a jump threw away what was decoded ahead.
PresentAfter(n, frames, base) ==
    LET want == n + 1
        use == IF frames # <<>> /\ base = want THEN frames
               ELSE Filled(<<>>, want, total, project)
    IN /\ current' = want
       /\ ready' = IF use = <<>> THEN <<>> ELSE Tail(use)
       /\ readyBase' = IF use = <<>> THEN want ELSE want + 1
       /\ Show(want, IF use = <<>> THEN NoFrame ELSE Head(use))
       /\ Goto("top")
       /\ UNCHANGED <<handled, playing, intent, refused, total, project>>

Present ==
    /\ pc = "present" /\ current + 1 < total
    /\ PresentAfter(current, ready, readyBase)

PresentLate ==
    /\ pc = "present" /\ current + 1 < total
    /\ \E owed \in 2 .. total, audible \in -1 .. total - 1 :
          PresentAfter(CaughtUp(owed, audible), <<>>, -1)

-----------------------------------------------------------------------------
Init ==
    /\ queue = <<>> /\ intent = FALSE /\ playing = FALSE
    /\ scrubbing = FALSE /\ stopping = FALSE
    /\ current = -1 /\ total = -1 /\ project = NoProject
    /\ ready = <<>> /\ readyBase = -1
    /\ pc = "top" /\ req = Request("Stop", 0, NoProject)
    /\ shown = [position |-> -1, picture |-> NoFrame]
    /\ calls = 0 /\ asked = NoProject /\ goal = -1 /\ pausedLast = TRUE /\ refused = FALSE

LastFrame == Max({LengthOf[p] : p \in Projects}) - 1

Gui ==
    \/ \E p \in Projects : \/ \E frame \in {-1, 0} : SetProject(p, frame)
                           \/ SwapProject(p)
    \/ UpdateAudioMix \/ Play \/ Pause \/ TogglePlayPause \/ ReleaseAudio
    \/ \E frame \in 0 .. LastFrame : Seek(frame) \/ Drag(frame) \/ Drop(frame)
    \/ \E delta \in {-1, 1} : Step(delta)
    \/ Destroy

Worker ==
    \/ TakeRequest \/ NothingToTake
    \/ HandleSetProject \/ HandleSwapProject \/ HandleUpdateAudioMix
    \/ HandlePlay \/ HandlePause \/ HandleSeekOrStep
    \/ HandleSeekPreview \/ FinishPreview
    \/ Fill \/ Interrupted \/ FrameDue \/ PresentEnd \/ Present \/ PresentLate

Next == Gui \/ Worker

\* The worker is a thread of its own; nothing makes the GUI call.
Spec == Init /\ [][Next]_vars /\ WF_vars(Worker)

-----------------------------------------------------------------------------
(* Properties *)

\* The worker has done all it was asked to.
AtRest == queue = <<>> /\ pc \in {"wait", "sleep"} /\ ~stopping

\* However requests were coalesced, the worker ends up with the project the
\* GUI gave it last.
LatestProjectWins == AtRest => project = asked

\* However seeks and previews were coalesced and given up, a playhead moved
\* while paused rests where it was moved last, and that frame is on screen.
SeekHonoured ==
    AtRest /\ goal >= 0 => current = goal /\ shown.position = goal

\* The intent that the play / pause key toggles agrees with what the worker
\* does once it has nothing left to do, and a pause asked for last holds.
TransportSettles ==
    AtRest => /\ intent = (playing \/ refused)
              /\ pausedLast => ~playing

\* A picture on screen is the one of the position shown beside it; the frames
\* decoded ahead are those that follow one another from ready_base_ on. Once the
\* queue is served, all of them are pictures of the project given last.
PictureMatches ==
    /\ shown.picture # NoFrame => shown.picture.frame = shown.position
    /\ \A i \in DOMAIN ready : ready[i].frame = readyBase + i - 1
    /\ AtRest /\ shown.picture # NoFrame => shown.picture.project = asked
    /\ AtRest /\ playing => \A i \in DOMAIN ready : ready[i].project = asked

\* Requests do not wait for ever, nor does the destructor.
RequestsServed == (queue # <<>>) ~> (queue = <<>>)
ShutdownReturns == stopping ~> (pc = "exited")
=============================================================================
