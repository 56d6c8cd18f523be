# Nova Canvas Studio: a verification of its core

Nova Canvas Studio is a nonlinear video editor in C++20 with Qt 6 and FFmpeg.
This directory holds TLA+ models of the parts of it that keep state over many
steps or share state between threads, the TLC configurations that check them
on small instances, and theorems about them that TLAPS proves for every value
of the constants. Line numbers below are those of the files under `src/`;
`core` stands for `src/core/src` and `gui` for `src/gui/src`.

## The system

Two halves: `core`, a library without a window, and `gui`, the Qt program. The
window thread owns the project and edits it; every other thread works on
copies (`shared_ptr<const Project>`) or on requests it is sent.

| Component | State | Operations | Interacts with | Hard because |
|---|---|---|---|---|
| Timeline model and edit operations `core/timeline/{model,edit_ops}.cpp` | tracks of clips, links between clips, `next_clip_id` | about 40 edits: place, link, lift, ripple, blade, move, trim, set, tracks | each returns a command for the undo stack; found by id from every widget | long sequences of legal edits; two tracks change together; locks, ids, pointers into vectors that are being erased |
| Undo stack and commands `edit_ops.cpp:374-454` | `undo_`, `redo_` of differences | record, undo, redo, clear | the sequence, by kind and index | a difference is exact only on the sequence it was taken from |
| Timeline gestures `gui/Widgets/timeline_{interaction,drag,snap,selection}.cpp`, `gui/features/{app,timeline}` | selection, the clip or edge that is held, snapshots from the press | press, move, release, marquee, delete keys | edit operations, by signals | snapshots outlive edits; what is shown and what is committed are computed apart |
| Render queue `core/export/render_queue.cpp` | `jobs_`, `next_id_`, flags | enqueue, start, pause, cancel, remove, clear, restore; a worker | exporter (cancel flag, progress), project file, window callbacks | two threads, an atomic flag outside the mutex, restart from a file |
| Exporter `core/export/exporter.cpp` | container, encoders, device and pool, queue of frames | one call: set-up in ten steps, then a producer and a consumer thread, or one loop | renderer, render queue, FFmpeg | every step may fail; bounded queue, condition variable, cancel by a third thread |
| Renderer `core/export/renderer.cpp` | a decoder per track and the clip it is open for | frame on the GPU, composited frame, sound | exporter, decoders | two ways to make a frame move the same decoders |
| Video decoder `core/media/{video_decoder,sw_decode}.cpp` | position in the film, believed length, frames held at its end | decode to a frame, to hardware or memory | renderer, timeline decoder, thumbnails | stateful answers to stateless questions |
| Playback `gui/features/playback/sequence_controller.cpp` | requests, frames decoded ahead, position, transport | play, pause, toggle, seek, preview, step, project swaps; a worker | timeline decoder, audio, window | requests are coalesced; both threads write the transport flags |
| Timeline decoder `gui/features/playback/timeline_decoder.cpp` | decoders, frame cache, previews, LUTs, one baked transition | frame, preview, project swaps; a bake thread | playback worker, frame cache | four caches under edits; a thread whose result is adopted |
| Frame cache `core/media/frame_cache.cpp` | map, LRU list, bytes | get, put, clear | timeline decoder | two structures that must agree |
| Audio output and pipeline `gui/features/playback/audio_*.cpp` | queue, device, writer thread, watermarks | open, close, flush, hold, feed | playback worker, window | three threads, two mutexes, joins |
| Thumbnails `gui/features/thumbnails/thumbnail_service.cpp` | queue, waiters per key, LRU cache, files, flags | request, pause, destructor; workers | filmstrip, render queue callbacks, disk | flags outside the mutex, one key asked for and another stored |
| Autosave `core/project/autosave.cpp` | files of a project by slot | plan a turnover, find the newest | recovery in `open_file` | order of slots against order of time |
| Project file `core/project/project.cpp`, `gui/features/project/ProjectActions.cpp` | the document on disk | save, load, new, open | all of the above | a load while others run |
| Grade graph `core/grade_graph` | nodes, and a vector of edges | connect, branch, layers, save and load, evaluate | renderer, colour page | no cycles; half-done edits; the order of edges means something |
| Encoders, audio processing, colour science, drawing, GPU kernels | library objects, pictures, samples | | | arithmetic and I/O |

What makes them correct, in a sentence each: edits keep tracks in order, pairs
together, locked tracks alone and ids unique; undo restores exactly what was; a
drag or a trim ends where it was shown, and the delete key takes what is
selected; a started job is served, only one runs, a cancel is honoured and
Completed means exported; an export sends every frame it can make once, in order and
as the timeline has it, gives back what it opened and ends; playback ends up with the
last project, position and transport asked for and shows the picture of the
position it names; a frame on screen is of the project as it is now, whichever
cache it is from; sound is heard once and in order and a flush leaves none; a
request for a thumbnail is answered; a cache stays within its bound; the evaluator
finds an order for a grade graph, and editing it loses no path.

## Modules

| Module | Models | Role |
|---|---|---|
| `RenderQueue` | `render_queue.cpp`, what the Deliver page calls | state machine, safety and liveness |
| `ExportPipeline` | the two threads of `export_project`, 1071-1255, and its return | state machine, safety and liveness |
| `ExportProject` | the whole call: set-up with its failures, either branch, the end | state machine over `ExportPipeline` |
| `VideoDecoder` | `decode_to_hw`, `decode_to_frame` and the demuxer they share | operators on the state of a decoder |
| `ExportPictures` | `RenderSession` and `FramePump::produce`: what each exported frame shows | composes `ExportProject` and `VideoDecoder` |
| `UndoHistory` | nothing in particular: what undo promises | abstract specification |
| `UndoStack` | `EditCommand`, `TrackListCommand`, `UndoStack` | implements `UndoHistory` |
| `EditOps` | `model.cpp` and the helpers of `edit_ops.cpp` | operators on clips and tracks |
| `EditSession` | every operation of `edit_ops.cpp`, recorded as the window does | state machine over `UndoStack` and `EditOps` |
| `TimelineGestures` | mouse and delete keys on the timeline | state machine over `EditSession` |
| `SequenceController` | `sequence_controller.cpp`, `SonicSync::reconcile` | state machine, safety and liveness |
| `FrameCache` | `frame_cache.cpp` | operators, and a state machine of them |
| `TimelineDecoder` | `timeline_decoder.cpp` with its bake thread | state machine, composes `FrameCache` |
| `AudioOutput` | `audio_output.cpp`, `audio_pipeline.cpp`, the calls of both | state machine, safety and liveness |
| `ThumbnailService` | `thumbnail_service.cpp` and the filmstrip that asks | state machine, safety and liveness |
| `GradeGraph` | `grade_graph/{graph,edit}.cpp`, the wires of `serialize.cpp` | state machine, safety |
| `...Proofs` | `SequenceController`, `AudioOutput`, `ThumbnailService`, `GradeGraph`; `ExportProofs` for the render queue and the three modules of the export; `EditSessionProofs` for the undo stack and the operations of the editor, and `TimelineProofs`, which goes on with what these make of the timeline; `TimelineDecoderProofs` with the frame cache | theorems |
| `MC...` | | the instances TLC checks |

### RenderQueue

One action per critical section of `mutex_`. The worker loop (266-435) is cut
where it lets the mutex go: pick (`WorkerPick`), callbacks and reset of the
cancel flag (`WorkerStart`), the export as polls of the flag, frames, trailer
and failure (`Export...`), the result (`WorkerFinish`). Between any two the
window may act. `cancel_current_` is a variable of its own, touched without the
mutex. The condition variable is explicit: the worker is `asleep` until a
notify or a spurious wake-up, and its predicate is evaluated only then, with
the side effect it has on `start_requested_`. `Save` and `Restore` are the
project file; a restart of the program is a start from any stored list
(`StoredJobs`), and like `open_file` it does not ask whether a job is running. The
destructor is two steps, the flag under the lock and the cancel with the notify.
`PublicApi` adds the operations the window never calls.

An export polls the cancel flag (`ExportPoll`). A cancelled one goes to its trailer,
or, in hardware, may be left in `producer.join()` (the state `join`) as
`ExportPipeline` shows in detail; from there only a spurious wake-up of the producer
leads on (`ExportJoined`). `Stranded` names that state in the liveness properties.

`made`, `doom`, `exported` and `mislisted` are history variables: how many
deliverables there have been, whether and when the running job was cancelled, which
deliverables were exported to the end, and which stood in the list under the id of
the running job while another was exported. An opened project can put one there, or a
new job that is given the id after it; the result of the run is written to its row.
`CompletedIsExported` says that no other row is Completed without its export.

### ExportPipeline, ExportProject, VideoDecoder, ExportPictures

`ExportPipeline` is the producer (1087-1115) and the export thread (1120-1255,
1369-1386), a step from one wait or queue access to the next, a third thread
that may raise the cancel flag at any step and notifies nobody, and the pool of
hardware frames. Frames are indices; encoders are the sequence of frames they
were sent. `produce` may come back without a frame at any time (nothing decoded,
uploaded or converted; an empty pool), in either branch: the slot is empty, nothing is
sent for it, and `missed` keeps its number. The loops count passes, so the call goes
on to report success: `MadeIsSent` says that what was missed is all that is missing.

`ExportProject` puts the rest of the call around it. The set-up is ten steps in
the order of the code, each with the resources it adds to `held` (container,
codec contexts, device, pool, file, converter, sound frame) and, when it fails,
with those the code frees on that return. A pool that cannot be made is not a
failure of its own: the call goes on without one, and a codec set up for hardware
frames then does not open. With a pool the two threads run; without one the loop
of 1258-1365 renders and encodes by turns (`AloneTest`, `AlonePass`), and looks
at the cancel flag itself. `Finish` gives everything back.

`VideoDecoder` describes a decoder as a record: the frame the codec gives next,
`next_frame`, `last_frame` (first the length the container states, then the one
that was met), and what is held for targets past the end. `DecodeToHw` and
`DecodeToFrame` map a decoder and a target to a picture (its frame number) and
the decoder after the call.

`ExportPictures` gives every frame of the export its pictures: for each video
track the frame of the film it shows. `Produce` is `render_one_frame` with both
hardware pumps: the frame of the GPU as it is, if exactly one clip shows and the
decoder has it, else the composite, both over the same decoders, which are
opened anew when the clip of the track is another. Whether the pump takes a
frame of the GPU (a grade, a title, an odd size, an empty pool) is a choice.

### UndoHistory and UndoStack

`UndoHistory` is the promise: documents form a line one walks back and forth,
with at most `MaxDepth` behind. `UndoStack` stores what the code stores:
differences, by kind and index of track. `past` and `future` are history
variables, and the mapping `HistorySpec` sends them to the abstract line. The
inductive invariant is `OneLine`: every command on the stacks leads from one
document of the line to the next. `Next` lets an operation change any tracks it
lists, in any way: what is proved holds for every operation that lists what it
touches. That the real operations do is proved about `EditSession`, and TLC checks
`HistorySpec` of them in `edit`.

### EditOps, EditSession, TimelineGestures

A clip is a record of its id, medium, timeline and source range, link, fades
and one value for its other attributes (`look`); a track is a lock, one value
for mute, solo and height, and its clips in order. The window is one thread, so
one operation is one step. An operation takes the sequence to another and a set
of tracks to snapshot and is recorded by `Commit` or `CommitList`; operations
that change something outside their snapshots pass the changed sequence as the
one before (`PlaceOnTop`, `AutoTrack`). A behaviour calls the operations of one
member of `Sessions`, chosen at the start with its start document and bounds:
the product of all operations at a useful depth is beyond TLC, the sets in
`MCEditSession` put those together that act on each other.

`TimelineGestures` adds the mouse. `selection` and `focus` (`selected_clip_`) are
what widget and window each remember; `drag` and `trim` are what a press keeps:
the clip, where it was, the selection at that time and the edges to snap to. An
edit that rebuilds the widget drops them. Release snaps again and calls the
handler, which reduces the items to one clip of a pair and moves them as a
batch. The delete key is a series of single deletions (`deleting`). The edge
that a press takes may be the frame before it, since the code rounds a
floating-point product down.

### SequenceController

The window's calls push requests, `push` drops those the new one makes
pointless (`Outdated`). The worker takes one at a time; between requests, while
playing, it fills `ready` and waits for the next frame to be due or a request.
A preview is two steps, for the queue is looked at before and after decoding.
Lateness is a choice: a frame is in time (`Present`) or so late that the
playhead is moved (`PresentLate`), anywhere `SonicSync::reconcile` lets it.
`asked`, `goal`, `pausedLast` and `refused` are history variables that say what
the window asked for. Pictures are pairs of a frame number and a project.

### FrameCache and TimelineDecoder

`FrameCache` has the critical sections of the cache as functions of a record
(map, list, bytes), so that a caller composes them; its own `Spec` uses them in
any order. `TimelineDecoder` is the worker's calls (`frame`, `preview`, a swap of
the project, `close`) and the bake thread, cut where `bake_mutex_` is let go. The
timeline is a cut from clip A to clip B with a transition of A, whose lengths,
source frames and grades the window changes. A picture is the file it was decoded
from and the number of the frame; the medium has a rate of its own by its file,
slower or faster than that of the sequence (`Scaled` is the rounding of
`seq_to_src_frame`). What FFmpeg gives is a choice: the frame, the one before it, or
nothing; but the bake asks `decode_to_hw` for one frame after the other, and that
only goes forward (`NextOfA`), so the bake is a step for each frame. The second
decoder, of B, is opened by a call (`open_b_slot`) or by the bake thread and moved
out of its result. `frame` and `preview` try the GPU first (`OnGpu`) and do without
when it fails for A or for B.

### AudioOutput

Each of the two callers, worker and window, has a list of the steps left of the
call it is in (`todo`), so that a call is interleaved at every lock, join and
notify: `flush` is stop, join, clear, drop, start. The writer thread takes a
batch, hands it on sample by sample and sleeps on its condition variable; the
device plays. The sound of a frame is its number. Calls the standard leaves
undefined (two joins of one thread, a handle closed under a user) set `crashed`,
of whose successors nothing is said. Nothing keeps the window from ending a scrub
while the worker flushes a pause (`Overlap`): both are then in the output at once,
and the run `audio_join` shows what follows.

### ThumbnailService

The workers, the cells of the filmstrip with the ids they asked under, the
queued answers on their way to the window, and the export that pauses the
service. A worker evaluates its predicate under the mutex and goes to sleep in a
step of its own: `set_paused` and the pending flag are written without the mutex
and may be missed in between. A picture is named by the key of what it shows, so
that a neighbouring frame decoded in place of the one asked for can be told.

### GradeGraph

A wire is its two pipes and its index in `edges_`, for the first wire into a
mixer is its base. Each editing law is an action with what it leaves behind when
it stops half-way; `ret` keeps what it answered. Whether a wire closes a cycle is
said by closed sets of nodes instead of the search: some closed set that holds the
end of the wire lacks its start. `HasOrder` is what the evaluator's loop needs
(`eval.cpp:345-372`) of the dependencies it collects (`Precedes`): the wires, and for
a parallel mixer the source `insert_branch` noted in it. A node for the outside has
a partner too, but no operation sets one, only a file may, so it is left out. The calls come from a client that may make them
in any order; the program's window makes none of them yet.

## Runs

| Run | Instance | Shows |
|---|---|---|
| `queue` | 2 jobs, a project file opened at any time, whole API | one running job, Completed means exported here or under the same id, late cancels honoured, started jobs served and the destructor returning but for a stranded export |
| `queue_cancel` (violation) | 1 job | a cancel between pick and reset of the flag is lost |
| `pipeline` | 4 timelines of 6 frames on 2 tracks, a film of 7 frames, 3 stated lengths, queue of 2, pool of 3, 7 passes of sound, failures of each step and each frame, cancel at any step | order, all that is made is sent, resources given back, every frame shows what is due, ends unless cancelled |
| `pipeline_cancel` (violation) | 4 frames, queue of 2, pool of 3 | a cancelled export may never return |
| `edit` | 11 sessions of up to 5 edits, with undo of depth 4, locks, projects, gestures | layout, pairs, ids, locked tracks, undo is exact, drags and trims end where shown, delete takes the selection |
| `edit_autotrack` (violation) | two pairs, 1 edit | moving a clip to a new track loses its mate |
| `playback` | 3 projects of 3, 2 and 0 frames, 1 frame ahead, 4 calls | requests served, last project and seek win, transport settles, pictures are of their position and project |
| `decoder` | cut at 2, 2 files at 1/3 and 4/3 of the sequence's rate, 3 shapes of A, 3 playheads, cache of 1 frame, 1 grade and undo | caches agree, one medium, frames and looks are of the project, bakes end |
| `audio` | 3 frames, lead of 1, queue of 3, 3 commands, 1 scrub | flush silences, order, calls return unless pause and scrub overlap, sound leaves |
| `audio_join` (violation) | 2 commands, 1 scrub | the device is dropped under a running writer |
| `grade_graph` | 2 correctors and a layer mixer, up to 5 nodes and 4 wires, 5 calls | the evaluator finds an order while noted sources feed their mixers, branches keep paths, a new layer is on top |
| `thumbnails` | 2 workers, 2 neighbouring frames and a waveform, cache of 1, 2 requests, 1 export | caches are true, ids wait exactly while a job is due, cells show their frame, answers arrive, destructor returns |

### Bounds, and why they are enough

- *Queue.* The worker holds one job and treats the others alike: one running
  and one other show every interplay (pick, restore, clear, duplicate ids). One
  progress report separates begun from finished. The project opened, at any time, has
  a job of the first id, so that it may take the place of the running one; that a new
  job gets the id of the running one after a file with a lower counter takes a third
  job and is left to the theorem.
- *Pipeline.* 6 frames through a queue of 2 fill it, empty it and wrap around
  it; 7 passes of sound outlast the pictures. The pool is smaller than what the
  queue and the two threads may hold (3 of 4), as in the code (12 of 66), so that a
  slow encoder makes the pump lose frames.
- *Pictures.* The film has a frame more than the timeline, key frames 0, 3 and
  5, and `Far` (64 in the code) is 3: forward, far and backward moves, moves
  across a key frame and past the end all occur. The four timelines are a cut to an
  earlier frame with a gap, an overlap over a disabled clip, a fast clip past
  the end, a fast one then a slow one. The stated length is missing, right, or
  one too large.
- *Edits.* Clips of 1 to 3 frames on 3 to 6 frames of timeline have room for
  every relative position of two clips; two or three edits in a row are where
  operations disturb each other's clips and a third meets the result; five
  overflow a stack of four. `ids` bounds the blades. Longer sessions are left to
  the theorems, which are of any number of edits; `TracksLaidOut` was once checked of
  more operations than it holds of, and the proof showed it (next section, `blade_at`).
- *Gestures.* At a snap radius of 1 and a grid of 1 frame (a zoom of at most a
  tenth of a frame per pixel) snapping to an edge and the grid both take part.
- *Playback.* One project given, a second request being handled, one queued and
  one that coalesces with it: four calls. Lengths 3, 2 and 0 make clamping, a
  timeline that gets shorter and an empty one occur.
- *Decoder.* Playheads in the two frames of the transition (or, without one, before
  the cut) and after it; one frame more than the cache holds evicts; a second file, a
  slip, a disabled A, no transition and one grade with its undo make every cached
  thing stale once. At 1/3 of the sequence's rate both frames of the transition are
  due the same picture of A, at 4/3 each its own; a bake of 2 frames shows one frame
  of drift. The theorems lift the bounds.
- *Audio.* A lead of one frame over a device of one and a queue of three keeps the
  writer asleep, busy and blocked; three commands are play, a seek or edit, and pause or
  stop, and the scrub ends at any step of them. `CallsReturn` is said of behaviours without
  `Overlap`: with it the worker may reset `alsa_stopping_` after the window has set it, and
  the window waits for ever, as finding 4 says.
- *Thumbnails.* Two workers compete for one key and for the cache's one place;
  the service is paused once with either one asleep.
- *Grade graph.* Four wires give a mixer a base and two layers, a path of three
  and a branch in it; five calls build one of these, reload it and edit it once
  more. Cycles and paths are proved for all graphs.

`CHECK_DEADLOCK FALSE` stands where the system stops by design: after a
destructor, after the export returned, and when the window has no calls left.
Edit sessions and the decoder always go on and are checked for deadlock.

### Fairness

Weak fairness of each worker or thread and of nothing else: operating system
threads run when they are able to, and no wait is assumed to end without its
notify (spurious wake-ups are steps without fairness). In `RenderQueue` also
the second half of the destructor, which does not wait before its join, and for
an export left in `producer.join()` nothing is fair: no action but a spurious wake-up
leads on. The user is never fair.

Where a thread needs a mutex that others let go and take again, fairness is
strong, for a mutex is got in the end: the workers of `ThumbnailService` and the
window in `AudioOutput`. There also the device plays. That the export which has paused
the thumbnails ends is not assumed, for a cancelled one may not; `RequestsAnswered`
says what holds if it does. In `TimelineDecoder` the
bake thread and the steps of a call are fair, the calls are not. In `ExportProject`
fairness is that of the call's own thread and of the producer;
`ExportPictures` states the same, about the steps of the call, which is all that
is proved of it (`PicturesImplementCall`).

`SequenceController` merges the notify with the wait's predicate
(`Interrupted`): there every change of the queue is made under the mutex; the
one that is not, `stopping_`, is followed by a lock of it before the notify.

## What the runs found

1. `queue_cancel`: `worker()` resets `cancel_current_` at line 347 after the row
   is Rendering; a `remove` or `cancel_all` in between is erased, the job runs to
   the end and is recorded Completed.
2. `pipeline_cancel`: on a cancel the export thread leaves its loop and joins the
   producer (1244) that may sleep on a full queue (1096); nobody notifies it. From
   this follows that jobs queued behind it are not served, that the destructor of the
   queue, which cancels the running export and joins its thread, hangs, and that
   thumbnails stay paused: `QueuedIsServed`, `ShutdownReturns` and `RequestsAnswered` are
   violated without their last disjunct, which names just this.
3. `edit_autotrack`: `create_top_track_move` erases the mate and then copies it
   through the pointer it was found by (1172-1177).
4. `audio_join`: the worker flushes a pause without the pipeline's mutex
   (`sequence_controller.cpp:227`) while the window may end a scrub (160); the
   device is dropped under a running writer, and later the window may join a
   writer whose stop was cleared.

Seen while modelling and not claimed as findings, for no document of the
repository says otherwise or no run of the project shows it:

- *Export.* `decode_to_hw`, near its position, only goes forward (626-640): asked
  for a frame again it gives the next one, so a clip slower than the sequence
  drifts on hardware (`DuePictures` leaves it out; without that premise TLC finds
  it at once). `timeline_decoder.cpp` calls it in the same way (503, 887, 903). What
  fails between the pool and the first frame does not tear the pump down, and the
  device stays (`Released` allows for it). A pool that fails leaves a codec that
  cannot open, so there is no way on in software. The results of
  sending and writing are ignored: a full disk is a success. So is an export with
  frames missing: a pass whose frame could not be made sends nothing (1144,
  1262) and nothing is counted or said, though the pool of 12 frames runs empty
  whenever the encoder is slow and the queue of 64 fills. `fps` 0 divides by
  zero (955, 1176, 1274). The composite of an export ignores the transform of a
  clip (`blit_rgba`, 412), that of a still does not.
- *Render queue.* `open_file` restores the list while a job is rendering
  (`render_queue.cpp:230` keeps the ids of the file): a row of the new project that
  has the id of the run is given its progress, its outcome and its message, and is
  Completed without having been exported (`mislisted`).
- *Edits.* The channel menu of the timeline appends and erases tracks without a
  command (`TimelineActions.cpp:639`, `:656`), and the next undo may not find a
  track of its snapshot (`assert(t)`, `edit_ops.cpp:381`): the menu is left out.
  Halves that share an id after an insert or an overwrite in the middle of a clip
  (`split_at`, `clipped_range`) are deleted together, and `blade_at` on the second
  shortens the first, which it finds first by the id (691): overwrite the middle of a clip
  and cut behind it, and two clips of the track overlap (`TracksLaidOut` leaves such
  sessions out); `place_clip` on top adds a track outside its
  command; `trim_clip_edge`, `move_clip` and `ripple_delete_clip` do not look at the
  lock of the mate, `unlink_clip` (554), `link_clip` (577) and `delete_through_edit` (1244)
  at none; `remove_all_transitions`
  (`TimelineActions.cpp:761-814`) takes snapshots without `collapsed`, so its undo
  expands collapsed tracks.
- *Gestures.* Of a linked pair the handler keeps the smaller id, so a diagonal
  drag of the other loses the change of track; a drop refused by a lock leaves the
  widget showing the clip where it was dropped; a trim is shown past its
  neighbours and committed short of them; a link that is not mutual makes the
  delete key take other clips; `selected_clip_` outlives the selection and the
  project; a drag above the tracks that succeeds dereferences the clip its rebuild
  has reset (`timeline_interaction.cpp:1847`).
- *Playback.* A swap of projects queued behind a seek bounds the seek by the
  old project; a catch-up at the end presents the frame after the last; Play on an
  empty timeline leaves the intent of the key set.
- *Timeline decoder.* The baked plane of B is decoded at the frame of the
  sequence, not of the medium (about 903); that of A runs ahead when the medium is
  slower than the sequence, by a frame for every one asked for again (889, and
  `video_decoder.cpp:626-682`); a bake ignores the speed of a clip; baked planes are
  matched by window and clip A, so they are stale after a slip, and are shown of a
  clip that was disabled since;
  a reopened project uses the LUT kept for number 0; there is no destructor that
  joins the bake thread.
- *Audio.* A scrub that ends resets `scrub_audio_open_` before the worker sets it;
  the condition for a forward hop (`audio_pipeline.cpp:766-769`) is never true; the
  preroll feeds past the out point of a clip that ends soon.
- *Thumbnails.* A waveform that cannot be decoded is saved as silence (about 467).
- *Grade graph.* `connect_or_replace` removes the wire in the way (`edit.cpp:105`)
  before `add_edge` refuses the new one for a cycle. `set_layer_order` looks for
  layers on an output they do not leave from (215): a stack made by `add_layer`
  cannot be reordered, and the layers it found before are lost, though the test
  says that "refused reorders leave the wiring intact" (`graph_edit_test.cpp:301`;
  its graph has all layers on port 0). No law keeps the base of a mixer first among
  its wires, where the evaluator looks for it (`eval.cpp:238`). A connection onto a port in use is not asked whether its source
  has such an output (`edit.cpp:86-91`); `insert_branch` leaves two loose nodes when
  the source is not on output 0 or the sink not on port 0; `shared_source` of a
  parallel mixer is a dependency to the evaluator (`eval.cpp:332`) and nothing to
  `would_create_cycle`: after half an `insert_branch`, or after rewiring, the mixer no
  longer follows its noted source and may be wired into it, and the evaluator then
  answers "grade graph contains a cycle" and gives no frame (without the premise
  `SourcesFeed`, TLC finds it in `EvaluatorFindsOrder`);
  a load puts all wires on port 0; `add_layer` may replace a layer when the layer
  on the highest port is the first wire.
- *Autosave.* See below.

## What is proved

`ExportProofs` begins with the render queue, for all bounds, priorities and project
files, with the whole API:

- `QueueTypeCorrect`: `QueueTypeOK`, strengthened by "a frame is only encoded below
  progress 1.0" (`QueueTypeInv`), without which progress could pass its end.
- `IdsAreUnique`, `RenderingIsTheWorkers`, `LateCancelIsHonoured` from `QueueSafeInv`:
  the ids listed are distinct and below the counter, only the worker's job is
  Rendering, and while an export runs a late cancel is still in the flag. The
  last is needed because the action property speaks of one step (the result)
  and the flag was set many steps before.
- `CompletedWasExported` from `ExportInv`, whenever projects are opened: the row
  under the id of the run is that of the worker's job or `mislisted` (`RowIsTheJob`),
  and so is every Completed row of the list and of the file.

`EditSessionProofs` begins with the undo stack by itself, for all tracks, depths and
operations: `TypeCorrect`, `CommandsFit` (`OneLine`) and `UndoIsExact`, that every step of
`UndoStack` is a step or a stutter of `UndoHistory`. The lemmas are those one would
expect: a command restores what it was taken from, pushing keeps the line, dropping the
oldest keeps the rest.

The module goes on with the operations of the editor, on any clips, tracks, media and bounds of
a session. `SessionsUndoExactly`: all operations but three (`Unlisted`) are steps of
`UndoStack`, so the refinement holds of real sessions. What has to be shown of each is
`Edited`: the tracks that differ afterwards are among those it lists, whatever it found by
an id or a link, and what is left are clips. Operations are built of steps that change
one track or none (`Touched`, `TouchedTwice`): lists of clips cut, shifted, split, merged
(`ClippedRangeType` ff.), a clip updated, removed or put down. The three: a track that is
added before the snapshots are taken (`onTop`, `autoTrack`) is not undone, as the code
stands; and `liftRange` looks for mates again while it removes them, so that it changes
only what it lists if no id is on two tracks. `LockedTracks`: the
operations that look at the lock of every track they change (all but `MateUnguarded`, and
those that renumber tracks) leave the clips of locked tracks where they are (`Spared`);
for `liftRange` by induction over the clips in the range, as every mate is removed on a
track seen to be unlocked.

`TimelineProofs` is about what the edits make of the timeline. An undo may go back to
any sequence there was, so its invariants are of all sequences that undo and redo go
along (`Line`, from `past` and `future` of `UndoHistory`): an edit adds one to them.
`IdsNameOne`: the ids in every one of them are below the counter, and where no operation
doubles an id (`HolesCut`), each is of one clip (`NamedDocs`). The counter is not part of
the sequence, so an undo does not turn it back. `TracksStayLaidOut`: the clips of every
track are in order, do not overlap, are not empty and start at 0 or later (`LaidDocs`).
Alone this is not inductive: a trim stops at the neighbours of a clip and of its mate,
found by ids and links, so it needs ids that are unique and links to another clip
(`Sound`), and for a trim that no track is locked. Of every operation it is shown what it
does to these on the sequence it changes (`NamesKept`, `UniqueKept`, `SoundKept`,
`ApartKept`), by lemmas about the helpers of `edit_ops.cpp`: `InsertSortedPlace` (the
place of a clip among those that start earlier), clipping a range, shifting what is
behind a cut, and bounding a trim by its neighbours; lists of tracks are made of those
there were (`MadeOf`). Three hypotheses name what the code takes for granted:
`StartsUnique` and `StartsLaidOut` (a project that is opened is as a session leaves it;
`project.cpp` does not look), and `FramesPlaced` (a clip that is placed lasts a frame: of a
medium with a much higher rate than the sequence's, one frame rounds to none, and the
clip is empty). A ripple delete closes up the mate's track by the length of the clip,
which is right if the two start and end together; so in sessions with one `LaidInv` has
the next invariant as a part.
`PairsStayTogether`: every linked clip has its mate, and the two show the same. Its
invariant (`PairsInv`) says more of a pair than the property: the mate is on a track
of the other kind, links back, and has the same `src_out`, from which the frame at a
cut is reckoned (`SrcAt`; `Mates`, `Paired`); ids are unique, for mates are found by
them; for a blade no track is locked; and where every clip is one of a pair, of one
track of each kind (`Even`), what a ripple delete moves on one track has its mates
on the other, and the two tracks end together (`EndsTogether`), so that a pair
appended starts at one frame. All but a few operations come down to one lemma, `PairsMapped`:
clips that stay are changed as their mates are, those that go leave with theirs (`Whole`),
new ones come in pairs or alone. Its hypothesis is `StartsPaired`, again of the projects
opened. The sessions are those of the property: of operations that act on both parts. All
three theorems are of `SessionSpec`; the gestures, which call these operations, are not
proved about. The two modules take tlapm ten and fifteen minutes from nothing.

`ExportProofs` goes on with the export, for all numbers of frames, depths and pools,
first the two threads:
`FramesAreSentInOrder` and `NothingIsLeftBehind` from one invariant that places
every frame (sent, in the encoder's hand, in the queue, in the producer's hand, in
that order, each once); `AllMadeIsSent` from the same with the frames that were
missed: every frame up to the producer's is in one of these places or was missed, and
the loop does not end before as many slots have gone through it as there are frames.
No size of the pool is assumed.

The same module lifts these to the whole call: `CallSendsInOrder`,
`CallLeavesNothing`, `CallSendsAllMade`, and `CallReleases`. The invariant
`CallInv` is by stage: before the first frame nothing is queued or sent
(`AtStart`); with threads, that of the pipeline (`SafeInv`); in the loop, that what
is sent or missed is all frames up to the counter (`AloneInv`); afterwards what each return
leaves (`OverInv`). `HeldInv` says what may be held at each stage, without which
`Released` is not inductive. `PicturesImplementCall` is a refinement by the same
variables: an export with pictures is a call of `ExportProject`, its fairness
included, so all of this holds of it.

`DuePicturesCorrect` is about what those frames show, for all timelines, films, key
frames and seek distances. The lemmas about `VideoDecoder` go from one call to the
next: whatever a settled decoder did before, `DecodeToFrame` gives the target, or the
film's last frame for what is behind it, and leaves a decoder that has just passed
the target (`Past`); `DecodeToHw` does so or gives nothing, and leaves one from which
`DecodeToFrame` still finds it (`Finds`). What makes a target findable is that it is in
the film, or its end is known, or a way shorter than a seek leads there, and a clip
not faster than the seek distance steps that far at most (`SrcFrameSteps`). The invariant
`PicturesInv` then says of every track that it stands right behind the frame before,
for the clip on it, or that its next clip is yet to come (`Sits`), and that all
pictures below the counter are due. Without the distance, the theorem is false: the
end is met behind a seek and the frame is lost. Its hypotheses are a film of
more than one frame (`Last >= 1`: a decoder takes 0 for an unknown length) and a
container that states no length or one that is not too short, for a decoder never
looks behind a length it was told; a clip slower than the sequence on a hardware decoder is
left out by the property itself.

`TimelineDecoderProofs` begins with the frame cache by itself: `CacheAgrees`, map, list
and bytes agree within the limit, for any sizes, whatever is put, asked for and
cleared. Its lemmas (`PutAgrees`, `GotAgrees`, `ToEndPermutes`, `NewAgrees`) do not look at
what frames are numbered with. They carry over to the decoder, of which all safety
properties are proved, for all files, cuts, rates, playheads and cache sizes: `CachesAgree`,
`BakesAreOne`, `OneMediumOnly`, `LooksAreShown`, `FramesAreOfProject`. The
invariants are `TypeOK`, `BakeInv` (where thread, job, flags and result may be
together), `Medium` (whatever is open, kept, baked or being baked is of the file
of the project, but while `close` waits for the thread), `LooksKept` (a LUT kept
under a number is of the grade that was given it) and `Planned` (a bake is of the
clips and the window it names, and its i-th picture of A is the one due there or, of a
slow medium, at most i - 1 further: `MayBe`, `Rightly`). That `NextOfA` keeps to this
(`NextRightly`) rests on the rounding: a position further on is never due an earlier
frame, and of a medium no slower than the sequence it is due a later one, so that the
decoder is never past it (`ScaledSteps`, from the division in `DivStep`).

`SequenceControllerProofs` proves every safety property of playback, for all projects,
lengths, depths of the lookahead and numbers of calls: `TypeCorrect`,
`LatestProjectCorrect`, `TransportCorrect`, `PictureCorrect`, `SeekCorrect`. All of them
speak of a worker at rest, so the invariants are about `Pending`, the request being
handled and those behind it: what the worker has now, or what the last pending
request that matters will give it, is what the window asked for last. `CallKeeps`
says once what a call does to `Pending` (which requests stay, in their order, with the
new one last), `GoingOn` and `Finishing` what a step of the worker does. `FreshInv`: the last
pending project is the one given last, or the worker has it and all its frames are
of it. `TransportInv`: if pause came last, no pending play comes after the last
request that stops. `SeekInv`: the playhead is at the goal or some pending request takes it
there, at that point (`ReachesAt`, `StoppedAt`) the project has that frame and the
worker does not play, and all after it leave the playhead alone. `ProjectInv` (a
worker without a project is given one before anything that needs it) makes the
early returns for "no project" harmless, and `FramesInv` numbers the lookahead.

`AudioOutputProofs`, for all lengths, leads, sizes of queue and device and numbers of
commands and scrubs, and wherever a scrub ends: `FlushCorrect` and `InOrderCorrect`.
That the device is dropped only under a joined writer (`DropsJoined`) is false, as
`audio_join` shows; the two theorems say that no sound of before comes of it.
`Calls` says what lists of steps callers may have left (`Shape`: what may come after
what, and that nothing but further calls, and the destructor's `close`, comes after
the mutex was given back), `Locks` who may be where: a caller inside a call holds
`mutex_`, but for the flush of a pause and for the destructor, when the worker has
gone. So the window is in no call of the output while the worker takes the mutex
(`FreeAlone`), and only the worker feeds. `Device` says what a caller counts on where it
is even if the other is in a flush too: after the join the writer has nothing in its
hands, and if the other has started it again the queue is empty; after `clear` the
queue is empty; `Silenced`: before `start` the device has silence at most. `Turn` and
`StepTurns` do the work: where each of the code's steps may lead. Steps that crash are
kept: they change nothing of the sound.
`InOrder` needs `Ordered`, that what waits in the device, the batch and the queue is in
order within each and from each to the next, and `Marks`, that what waits was fed below
the mark. The latter is false while a flush that was begun with a rewind is under
way, for the mark is set back first: the exception (`Exempt`) is the whole of the
flush up to `start`, where by `Device` and `Silenced` nothing waits any more.

`ThumbnailServiceProofs`, for all numbers of workers, frames, cells and requests and
every size of the cache: `CacheCorrect`, `PendingCorrect`, `CellsCorrect`. `CacheInv` and
`MadeInv` go together: what a worker has made belongs under the name it will be kept
under and may answer its job, though the two names differ when a neighbour was
decoded. `QueueInv` counts a key once among queue and jobs. `IdsInv` is what makes late answers
harmless: every id that waits or is on its way is below the next one, and a cell that
has such an id asked for just that key, so a cell that asked again matches none.

`GradeGraphProofs`, for all graphs and numbers of calls: `GraphHasOrder` rests on
`Acyclic`, that a closed set separates the end of every wire from its start; from
these sets those of the graph with one wire more are made by union and intersection
(`AddEdgeNoCycle`). With it a noted source that feeds its mixer is not fed by it
(`PrecedesOneWay`; that no mixer is its own source is `Noted`), so that of any nodes the
one that the fewest feed comes after none of the others (`AnOrder`). `BranchesKeepPaths` rests on the
invariant that wires end on nodes of the graph (`Inside`) and on
`RewiredKeepsPaths`, that the removed wire is replaced by a path through the mixer.
`NewLayersGoOnTop` rests on the invariant `WellLaid`: the n wires have the indices
1..n. `EraseIndexed`, `ReorderedLaid` and `FiledLaid` show that erasing, reordering
and loading leave no gap and no index twice. A new layer's port is above every
layer's (`NextPortAbove`), so what may be in its way is the mixer's first wire, the
base: it is erased, and the wire that becomes first was a layer until then.

The theorems about sessions have the hypothesis `Track = AnyTrack`: the tracks of the
stack are tracks of clips. Other assumptions are those named in the modules (`RenderQueueAssumption`,
`StoredAssumption`, `MaxDepthAssumption`, `MaxTracksAssumption`,
`PipelineAssumption`, `MediaAssumption`, `SessionsAssumption`, `AudioAssumption`, `PicturesAssumption` (clips do not overlap, and
the edit keeps speeds at 10 or below while a seek is 64 frames far), `DecoderAssumption`,
`GraphAssumption`, `ThumbnailAssumption`, and `LookaheadAssumption`,
`LengthAssumption` and `ProjectAssumption` of `SequenceController`), which TLC evaluates on every run that extends them.

`UniqueIds`, `NothingLeftBehind` and `OneBake` are stated by theorems alone; TLC
checked them while they were being proved.

Only model-checked: everything under fairness (`QueuedIsServed`, `ShutdownReturns`,
`Terminates`, `RequestsServed`, `BakeEnds`, `CallsReturn`, `SoundLeaves`,
`RequestsAnswered`, `DestructorReturns`), which is beyond the prover; sessions with an
operation of `Unlisted`; all of `TimelineGestures`.

## Not modelled

See the components of `PROJECT.json` for each part and its reason. In short:
picture and sample arithmetic, FFmpeg and device set-up, file formats, drawing,
inspectors, logging, vendored code. Most lines of the repository are of these
kinds (widgets, colour pages, kernels, a vendored font library), which is why the
map covers an eighth of them.

- *Autosave*: what it should promise does not hold and no document states it.
  `existing_autosave_slots` looks for `completeBaseName()` and a suffix while slots
  are named after the whole file name, so snapshots are never found
  (`autosave.cpp:141`, `ProjectActions.cpp:143`); a full ring always rewrites slot 1
  while `newest_slot` names the highest; a save truncates in place.
- *Legacy playback controller*: the worker and queue of `SequenceController` on one
  file.

Left out of modelled parts:

- Edits: attributes of clips and tracks that no operation reads to decide
  anything, `GroupCommand`, bookmarks.
- Gestures: the drag above the tracks, the blade, drops of media, transition
  handles, the volume line; a drag after Ctrl took the clip out of the selection;
  edits that come while a trim is held.
- Export: a pool of a kind the pump cannot fill (QSV, CUDA without kernels), an
  empty timeline, an export at another rate than the sequence's, more than one
  film, transitions, titles and grades but as a reason not to take a frame of the
  GPU, the mixing of sound.
- Video decoder: the frames a codec gives in software while it warms up, decode
  errors, the limit of 4000 frames on the way to a target.
- Timeline decoder: in-transitions, titles, further tracks, the grade of B, the speed of
  clips (the bake ignores it), two media in one transition, the ends of the film, the
  limits of 1200 and 4000 frames on the way to a target, and the seek back from
  64 frames behind the target (a bake has 16 frames at most).
- Audio: the PipeWire fallback, volume, statistics, calls nothing makes.
- Thumbnails: `clear_cache`, which nothing calls, other widths.
- Grade graph: channel pipes with splitters and combiners, the removal of a single
  wire, evaluation but for the order of nodes and of layers, partners of outside nodes.

## Plan

1. Proofs: the gestures of `TimelineGestures`, by the lemmas about the operations
   they call.
2. Composition of `RenderQueue` and `ExportProject`: the queue's abstract export
   as an abstract specification of the call.
3. `TimelineDecoder` over `VideoDecoder` in place of a choice.
4. The blade, drops of media and drags above the tracks in `TimelineGestures`.
