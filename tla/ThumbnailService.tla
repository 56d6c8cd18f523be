-------------------------- MODULE ThumbnailService --------------------------
(***************************************************************************)
(* The thumbnail service of gui/src/features/thumbnails and the filmstrip  *)
(* that asks it for pictures (gui/src/Widgets/timeline_thumbnails.cpp).    *)
(*                                                                         *)
(* The window asks for the picture of a key under an id of its own; a few  *)
(* worker threads make the pictures and answer every id that waits for a   *)
(* key.  mutex_ guards the queue, the cache and the ids that wait.  The    *)
(* flags paused_ and pending_ are written without it, by the export thread *)
(* and by the window, so that a worker that has evaluated its predicate    *)
(* and not yet gone to sleep (it then holds mutex_) may miss a notify.     *)
(*                                                                         *)
(* A picture is named by the key of what it shows.                         *)
(***************************************************************************)
EXTENDS Integers, Sequences, FiniteSets, Functions

CONSTANTS
    Workers,     \* worker threads, kWorkerThreads of them
    Frames,      \* cache keys of video frames, all of one width
    Waves,       \* cache keys of waveforms of one medium
    Near,        \* Near[f]: the frames within three of f, f among them
    Cells,       \* the cells of the filmstrip
    CacheMax,    \* kCacheMax
    MaxIds,      \* bound: requests
    MaxPauses,   \* bound: exports that pause the service
    Null,        \* no picture: a null QImage
    Blank        \* a waveform that shows silence, whatever the medium holds

Keys == Frames \cup Waves

ASSUME ThumbnailAssumption ==
    /\ Null \notin Keys \cup {Blank} /\ Blank \notin Keys
    /\ Frames \cap Waves = {}
    /\ Near \in [Frames -> SUBSET Frames] /\ \A f \in Frames : f \in Near[f]
    /\ CacheMax \in Nat \ {0} /\ MaxIds \in Nat /\ MaxPauses \in Nat

VARIABLES
    queue,       \* queue_: keys to be made, in order
    waiters,     \* pending_ids_: the ids that wait for a key; {} is no entry
    cache,       \* cache_: pictures by key
    lru,         \* lru_: the keys of the cache, least recently used first
    disk,        \* pictures in the cache directory, by the key they are named for
    raw,         \* the waveform of the medium, in memory or in its .ehwf file
    pending,     \* pending_
    paused,      \* paused_
    stopping,    \* stopping_
    pc,          \* where each worker is
    job,         \* the key it works on
    made,        \* the picture it has made, and the key it belongs under
    win,         \* what the window's current call has still to do
    nextId,      \* next_thumb_id_
    shows,       \* the cells: the id each asked under, the key, the picture
    events,      \* answers posted to the window: <<id, picture>>
    exporting,   \* between on_job_started and on_job_finished
    pauses       \* exports so far

workVars == <<queue, waiters, cache, lru, disk, raw, job, made>>
windowVars == <<nextId, shows>>
vars == <<queue, waiters, cache, lru, disk, raw, pending, paused, stopping, pc,
          job, made, win, nextId, shows, events, exporting, pauses>>

\* A worker whose predicate was false holds mutex_ until it is asleep.
MutexFree == \A w \in Workers : pc[w] # "blocking"

\* notify_all: workers that are asleep evaluate the predicate again.
Woken == [w \in Workers |-> IF pc[w] = "asleep" THEN "eval" ELSE pc[w]]

Init ==
    /\ queue = <<>> /\ waiters = [k \in Keys |-> {}]
    /\ cache = <<>> /\ lru = <<>>
    /\ disk = [k \in Keys |-> Null] /\ raw = Null
    /\ pending = FALSE /\ paused = FALSE /\ stopping = FALSE
    /\ pc = [w \in Workers |-> "eval"]
    /\ job = [w \in Workers |-> Null]
    /\ made = [w \in Workers |-> <<Null, Null>>]
    /\ win = "idle" /\ nextId = 1
    /\ shows = [c \in Cells |-> [id |-> 0, key |-> Null, pic |-> Null]]
    /\ events = {}
    /\ exporting = FALSE /\ pauses = 0
-----------------------------------------------------------------------------
(* The window *)

\* lru_.erase and push_back: k, which may be in the list, becomes its last.
Touched(k) ==
    LET i == CHOOSE i \in 1..Len(lru) : lru[i] = k
    IN  IF k \notin Range(lru) THEN Append(lru, k)
        ELSE [j \in 1..Len(lru) |->
                 IF j < i THEN lru[j] ELSE IF j < Len(lru) THEN lru[j + 1] ELSE k]

\* submit(): answered from the cache, added to those that wait for the key,
\* or queued, a waveform before everything else.
Submit(id, k) ==
    \/ /\ k \in DOMAIN cache
       /\ lru' = Touched(k)
       /\ events' = events \cup {<<id, cache[k]>>}
       /\ UNCHANGED <<queue, waiters, win>>
    \/ /\ k \notin DOMAIN cache
       /\ waiters' = [waiters EXCEPT ![k] = @ \cup {id}]
       /\ IF waiters[k] # {}
          THEN UNCHANGED <<queue, win>>
          ELSE /\ queue' = IF k \in Waves THEN <<k>> \o queue ELSE Append(queue, k)
               /\ win' = "notify"
       /\ UNCHANGED <<lru, events>>

\* Mutant: the filmstrip asks under the number of the cell.
AskUnderCell(c, k) ==
    /\ win = "idle" /\ MutexFree /\ nextId <= MaxIds
    /\ nextId' = nextId + 1
    /\ shows' = [shows EXCEPT ![c] = [id |-> c, key |-> k, pic |-> Null]]
    /\ Submit(c, k)
    /\ UNCHANGED <<cache, disk, raw, pending, paused, stopping, pc, job, made,
                   exporting, pauses>>

\* The filmstrip is rebuilt and a cell of it asks for what it is to show,
\* under an id that was never used.
Ask(c, k) ==
    /\ win = "idle" /\ MutexFree /\ nextId <= MaxIds
    /\ nextId' = nextId + 1
    /\ shows' = [shows EXCEPT ![c] = [id |-> nextId, key |-> k, pic |-> Null]]
    /\ Submit(nextId, k)
    /\ UNCHANGED <<cache, disk, raw, pending, paused, stopping, pc, job, made,
                   exporting, pauses>>

\* The end of submit(), after the lock has been let go.
SubmitNotify ==
    /\ win = "notify"
    /\ win' = "idle"
    /\ pending' = TRUE
    /\ pc' = Woken
    /\ UNCHANGED <<workVars, windowVars, paused, stopping, events, exporting, pauses>>

\* on_thumbnail_ready and on_waveform_ready, called from the event loop: the
\* cell that asked last under this id takes the picture.
Deliver(e) ==
    /\ win = "idle"
    /\ events' = events \ {e}
    /\ shows' = [c \in Cells |->
          IF shows[c].id = e[1] /\ e[2] # Null THEN [shows[c] EXCEPT !.pic = e[2]]
          ELSE shows[c]]
    /\ UNCHANGED <<workVars, pending, paused, stopping, pc, win, nextId, exporting, pauses>>

\* The destructor: the flags under the lock, then notify_all, then join().
\* The render queue is gone by then, and with it the export that paused.
DestroyStop ==
    /\ win = "idle" /\ MutexFree /\ ~exporting
    /\ win' = "stopping"
    /\ stopping' = TRUE /\ pending' = TRUE
    /\ UNCHANGED <<workVars, windowVars, paused, pc, events, exporting, pauses>>

\* Mutant: the destructor joins without waking the workers.
DestroySilently ==
    /\ win = "stopping"
    /\ win' = "joining"
    /\ UNCHANGED <<workVars, windowVars, pending, paused, stopping, pc, events, exporting, pauses>>

DestroyNotify ==
    /\ win = "stopping"
    /\ win' = "joining"
    /\ pc' = Woken
    /\ UNCHANGED <<workVars, windowVars, pending, paused, stopping, events, exporting, pauses>>
-----------------------------------------------------------------------------
(* The export thread: set_paused() without mutex_, from the callbacks of the *)
(* render queue (gui/src/UX/ShellDeliverPage.cpp).                           *)

JobStarted ==
    /\ ~exporting /\ ~stopping /\ pauses < MaxPauses
    /\ exporting' = TRUE /\ pauses' = pauses + 1
    /\ paused' = TRUE
    /\ pc' = Woken
    /\ UNCHANGED <<workVars, windowVars, pending, stopping, win, events>>

\* Mutant: set_paused(false) notifies no one.
JobFinishedSilently ==
    /\ exporting
    /\ exporting' = FALSE
    /\ paused' = FALSE
    /\ UNCHANGED <<workVars, windowVars, pending, stopping, pc, win, events, pauses>>

JobFinished ==
    /\ exporting
    /\ exporting' = FALSE
    /\ paused' = FALSE
    /\ pc' = Woken
    /\ UNCHANGED <<workVars, windowVars, pending, stopping, win, events, pauses>>
-----------------------------------------------------------------------------
(* The workers *)

\* The predicate of the wait.
Wanted == stopping \/ (~paused /\ queue # <<>> /\ pending)

Goto(w, at) == pc' = [pc EXCEPT ![w] = at]

\* Under the mutex the predicate is evaluated: the worker leaves, takes the
\* first key, or is about to go to sleep.
WorkerExit(w) ==
    /\ pc[w] = "eval" /\ MutexFree
    /\ stopping /\ queue = <<>>
    /\ Goto(w, "exited")
    /\ UNCHANGED <<workVars, windowVars, pending, paused, stopping, win, events,
                   exporting, pauses>>

WorkerTake(w) ==
    /\ pc[w] = "eval" /\ MutexFree
    /\ Wanted /\ queue # <<>>
    /\ job' = [job EXCEPT ![w] = Head(queue)]
    /\ queue' = Tail(queue)
    /\ Goto(w, "make")
    /\ UNCHANGED <<waiters, cache, lru, disk, raw, made, windowVars, pending, paused,
                   stopping, win, events, exporting, pauses>>

WorkerBlock(w) ==
    /\ pc[w] = "eval" /\ MutexFree
    /\ ~Wanted
    /\ Goto(w, "blocking")
    /\ UNCHANGED <<workVars, windowVars, pending, paused, stopping, win, events,
                   exporting, pauses>>

WorkerSleep(w) ==
    /\ pc[w] = "blocking"
    /\ Goto(w, "asleep")
    /\ UNCHANGED <<workVars, windowVars, pending, paused, stopping, win, events,
                   exporting, pauses>>

SpuriousWake(w) ==
    /\ pc[w] = "asleep"
    /\ Goto(w, "eval")
    /\ UNCHANGED <<workVars, windowVars, pending, paused, stopping, win, events,
                   exporting, pauses>>

Made(w, pic, key) == made' = [made EXCEPT ![w] = <<pic, key>>]

\* A picture is saved to the cache directory, if there is one and it can be.
Saved(key, pic) == disk' \in {disk, [disk EXCEPT ![key] = pic]}

\* The picture is in the cache directory.
WorkerLoad(w) ==
    /\ pc[w] = "make" /\ disk[job[w]] # Null
    /\ Made(w, disk[job[w]], job[w])
    /\ Goto(w, "store")
    /\ UNCHANGED <<queue, waiters, cache, lru, disk, raw, job, windowVars, pending, paused,
                   stopping, win, events, exporting, pauses>>

\* Mutant: the neighbour is kept under the frame that was asked for.
WorkerDecodeRenamed(w) ==
    /\ pc[w] = "make" /\ job[w] \in Frames /\ disk[job[w]] = Null
    /\ \E f \in Near[job[w]] : Saved(f, f) /\ Made(w, f, job[w])
    /\ Goto(w, "store")
    /\ UNCHANGED <<queue, waiters, cache, lru, raw, job, windowVars, pending, paused,
                   stopping, win, events, exporting, pauses>>

\* generate(), for a frame: the frame, or when it cannot be decoded one of
\* its neighbours, is decoded and kept under its own name.
WorkerDecode(w) ==
    /\ pc[w] = "make" /\ job[w] \in Frames /\ disk[job[w]] = Null
    /\ \E f \in Near[job[w]] : Saved(f, f) /\ Made(w, f, f)
    /\ Goto(w, "store")
    /\ UNCHANGED <<queue, waiters, cache, lru, raw, job, windowVars, pending, paused,
                   stopping, win, events, exporting, pauses>>

\* Nothing can be decoded.  For a waveform, what the scan had initialised is
\* saved as the waveform of the medium all the same.
WorkerFail(w) ==
    /\ pc[w] = "make" /\ disk[job[w]] = Null
    /\ job[w] \in Waves => raw = Null
    /\ raw' \in IF job[w] \in Waves THEN {raw, Blank} ELSE {raw}
    /\ Made(w, Null, job[w])
    /\ Goto(w, "answer")
    /\ UNCHANGED <<queue, waiters, cache, lru, disk, job, windowVars, pending, paused,
                   stopping, win, events, exporting, pauses>>

\* generate(), for a waveform: it is drawn from the waveform of the medium,
\* which is scanned unless it is known.
WorkerDraw(w) ==
    /\ pc[w] = "make" /\ job[w] \in Waves /\ disk[job[w]] = Null
    /\ LET pic == IF raw = Blank THEN Blank ELSE job[w]
       IN /\ raw' = IF raw = Null THEN job[w] ELSE raw
          /\ Saved(job[w], pic)
          /\ Made(w, pic, job[w])
    /\ Goto(w, "store")
    /\ UNCHANGED <<queue, waiters, cache, lru, job, windowVars, pending, paused,
                   stopping, win, events, exporting, pauses>>

\* store_cached(): the key becomes the most recently used, the oldest go.
WorkerStore(w) ==
    /\ pc[w] = "store" /\ MutexFree
    /\ LET pic == made[w][1]
           key == made[w][2]
           order == Touched(key)
           kept == IF Len(order) > CacheMax THEN Tail(order) ELSE order
           pictures == [k \in DOMAIN cache \cup {key} |-> IF k = key THEN pic ELSE cache[k]]
       IN /\ lru' = kept
          /\ cache' = Restrict(pictures, Range(kept))
    /\ Goto(w, "answer")
    /\ UNCHANGED <<queue, waiters, disk, raw, job, made, windowVars, pending, paused,
                   stopping, win, events, exporting, pauses>>

\* Mutant: those who wait for the key of the picture are answered, though a
\* neighbour may have been made for another key.
WorkerAnswerServed(w) ==
    /\ pc[w] = "answer" /\ MutexFree
    /\ events' = events \cup {<<id, made[w][1]>> : id \in waiters[made[w][2]]}
    /\ waiters' = [waiters EXCEPT ![made[w][2]] = {}]
    /\ job' = [job EXCEPT ![w] = Null]
    /\ made' = [made EXCEPT ![w] = <<Null, Null>>]
    /\ Goto(w, "eval")
    /\ UNCHANGED <<queue, cache, lru, disk, raw, windowVars, pending, paused, stopping,
                   win, exporting, pauses>>

\* Everyone who waits for the key that was asked for is answered.
WorkerAnswer(w) ==
    /\ pc[w] = "answer" /\ MutexFree
    /\ events' = events \cup {<<id, made[w][1]>> : id \in waiters[job[w]]}
    /\ waiters' = [waiters EXCEPT ![job[w]] = {}]
    /\ job' = [job EXCEPT ![w] = Null]
    /\ made' = [made EXCEPT ![w] = <<Null, Null>>]
    /\ Goto(w, "eval")
    /\ UNCHANGED <<queue, cache, lru, disk, raw, windowVars, pending, paused, stopping,
                   win, exporting, pauses>>
-----------------------------------------------------------------------------
Worker(w) ==
    \/ WorkerExit(w) \/ WorkerTake(w) \/ WorkerBlock(w) \/ WorkerSleep(w)
    \/ WorkerLoad(w) \/ WorkerDecode(w) \/ WorkerFail(w) \/ WorkerDraw(w)
    \/ WorkerStore(w) \/ WorkerAnswer(w)

Next ==
    \/ \E c \in Cells, k \in Keys : Ask(c, k)
    \/ SubmitNotify
    \/ \E e \in events : Deliver(e)
    \/ DestroyStop \/ DestroyNotify
    \/ JobStarted \/ JobFinished
    \/ \E w \in Workers : Worker(w) \/ SpuriousWake(w)

\* The workers are threads that get the mutex when it is free again and again
\* (a worker that is woken without a notify takes it each time), and the calls
\* of the window run to their end. That an export ends is not assumed: one that
\* is cancelled may never (CancelStops of ExportPipeline).
Fairness ==
    /\ \A w \in Workers : SF_vars(Worker(w))
    /\ WF_vars(SubmitNotify) /\ WF_vars(DestroyNotify)

Spec == Init /\ [][Next]_vars /\ Fairness
-----------------------------------------------------------------------------
(* Properties *)

Distinct(s) == \A i, j \in DOMAIN s : s[i] = s[j] => i = j

\* The two structures of the cache list the same keys, at most CacheMax of
\* them, and a frame in the cache or in the directory is the frame it is
\* named for, though a neighbour may have been decoded in its place
\* (thumbnail_service.cpp:345).
CachesTrue ==
    /\ DOMAIN cache = Range(lru) /\ Distinct(lru) /\ Len(lru) <= CacheMax
    /\ \A k \in DOMAIN cache \cap Frames : cache[k] = k
    /\ \A k \in Frames : disk[k] \in {k, Null}

\* Someone waits for a key exactly as long as it is queued or being made, and
\* it is queued or made once: pending_ids_ is what a second request for a key
\* relies on instead of the queue.
PendingIsOnItsWay ==
    \A k \in Keys :
        LET places == {i \in DOMAIN queue : queue[i] = k}
            makers == {w \in Workers : job[w] = k}
        IN Cardinality(places) + Cardinality(makers) = IF waiters[k] = {} THEN 0 ELSE 1

\* A cell shows the frame it asked for last or one within three of it, never
\* the late answer to what it had asked for before the filmstrip was rebuilt.
CellsShowTheirFrame ==
    \A c \in Cells :
        LET s == shows[c]
        IN s.pic # Null => IF s.key \in Frames THEN s.pic \in Near[s.key]
                           ELSE s.pic \in {s.key, Blank}

\* Every request is answered, whatever paused the service in between and
\* although the flags are written without the mutex, unless the export that
\* paused it never ends.
RequestsAnswered ==
    \A id \in 1 .. MaxIds :
        \/ (\E k \in Keys : id \in waiters[k]) ~> (\A k \in Keys : id \notin waiters[k])
        \/ <>[]exporting

\* The destructor joins all workers.
DestructorReturns == stopping ~> (\A w \in Workers : pc[w] = "exited")
=============================================================================
