---------------------------- MODULE RenderQueue ----------------------------
(* The background render queue of core/src/export/render_queue.cpp: one      *)
(* worker thread that takes the best queued job and exports it, and the UI   *)
(* thread that edits the list, cancels, pauses, saves and reopens it.        *)
(*                                                                           *)
(* Every critical section of mutex_ is one action.  The worker's loop body   *)
(* is cut where it gives the mutex up, so that the UI thread can act between *)
(* any two of its sections; cancel_current_ is an atomic that both sides     *)
(* touch.  The vector jobs_ is the set of its elements: ids are unique       *)
(* (UniqueIds, proved in ExportProofs), so order only matters through        *)
(* the policy, which looks at priority and id.                               *)
EXTENDS Integers, FiniteSets

CONSTANTS
    MaxJobs,      \* bound: jobs ever created
    Priorities,   \* the priorities a job can have
    Levels,       \* progress reports of one export; progress 1.0 is Levels
    StoredJobs,   \* the job lists a project file on disk may hold at startup
    PublicApi     \* TRUE: also the operations the window does not call

ASSUME RenderQueueAssumption ==
    /\ MaxJobs \in Nat
    /\ Levels \in Nat \ {0}
    /\ Priorities \subseteq Int /\ 0 \in Priorities
    /\ PublicApi \in BOOLEAN

Status == {"Queued", "Rendering", "Completed", "Failed", "Cancelled"}
Settled == {"Completed", "Failed", "Cancelled"}

\* RenderJob.  `out` is the deliverable (settings and output path): the
\* identity of the job whatever id it has in the current list.
Job == [id : Nat \ {0}, out : Nat \ {0}, priority : Int,
        status : Status, progress : 0..Levels]

\* A project file holds a list some session saved: its ids are distinct.
DistinctIds(S) == \A j, k \in S : j.id = k.id => j = k
ASSUME StoredAssumption ==
    \A D \in StoredJobs :
        /\ D \subseteq Job /\ IsFiniteSet(D) /\ DistinctIds(D)
        /\ \A j \in D : j.out \in 1..Cardinality(D)

VARIABLES
    jobs,            \* jobs_
    nextId,          \* next_id_
    startRequested,  \* start_requested_
    paused,          \* paused_
    stop,            \* stop_
    cancelCurrent,   \* cancel_current_
    pc,              \* where the worker is
    cur,             \* the worker's local copy of the job it took
    level,           \* progress the exporter has reached in this run
    runOk,              \* what run_job returned
    ui,              \* "live", or which part of the destructor has run
    disk,            \* the project file: the job list the last save wrote
    made,            \* history: jobs created so far (fresh `out` values)
    doom,            \* history: when the running job was cancelled
    exported,        \* history: deliverables whose export ran to its end
    mislisted        \* history: deliverables that stood in the list under the
                     \* id of the running job while another one was exported

uiVars == <<ui, disk, made>>
workerVars == <<pc, cur, level, runOk>>
queueVars == <<jobs, nextId, startRequested, paused, stop, cancelCurrent,
          pc, cur, level, runOk, ui, disk, made, doom, exported, mislisted>>

Queued == {j \in jobs : j.status = "Queued"}
Rendering == {j \in jobs : j.status = "Rendering"}
NoJob == [id |-> 0, out |-> 0, priority |-> 0, status |-> "Queued", progress |-> 0]

\* Between the pick and the end of the run the worker works for job cur.
Busy == pc \in {"picked", "poll", "encode", "join", "trailer", "final"}
\* Inside export_project: after cancel_current_ was reset for this run.
Exporting == pc \in {"poll", "encode", "join", "trailer", "final"}

\* queue_policy::next_candidate: highest priority, then lowest id.
Better(a, b) == \/ a.priority > b.priority
                \/ a.priority = b.priority /\ a.id < b.id
NextCandidate(S) == {j \in S : \A k \in S \ {j} : Better(j, k)}

\* Apply F to every job whose status and id a loop over jobs_ selects.
Update(S, F(_)) == (jobs \ S) \cup {F(j) : j \in S}
WithStatus(j, s) == [j EXCEPT !.status = s]

\* Mutant: render_job_from_snapshot that keeps the status Rendering.
FromSnapshotVerbatim(j) == j

\* render_job_snapshot and render_job_from_snapshot: a job that was rendering
\* comes back as queued, everything else as it was.
FromSnapshot(j) == IF j.status = "Rendering" THEN WithStatus(j, "Queued") ELSE j

\* cv_.notify: a worker asleep in cv_.wait evaluates the predicate again.
Notify == pc' = IF pc = "sleep" THEN "check" ELSE pc

\* The running job was asked to stop; "early" before cancel_current_ is reset
\* for this run, "late" after it.
Doom == doom' = IF Exporting THEN "late" ELSE IF doom = "late" THEN "late" ELSE "early"

\* A list with rows the worker did not take its job from.
Mislist == mislisted' = mislisted \cup
               {j.out : j \in {k \in jobs' : Busy /\ k.id = cur.id /\ k.out # cur.out}}
-----------------------------------------------------------------------------
QueueInit ==
    /\ jobs = {} /\ nextId = 1 /\ cur = NoJob
    /\ startRequested = FALSE /\ paused = FALSE /\ stop = FALSE
    /\ cancelCurrent = FALSE
    /\ pc = "check" /\ level = 0 /\ runOk = FALSE
    /\ ui = "live" /\ disk \in StoredJobs
    /\ made = Cardinality(disk)
    /\ doom = "none"
    /\ exported = {j.out : j \in {d \in disk : d.status = "Completed"}}
    /\ mislisted = {}
-----------------------------------------------------------------------------
(* The UI thread. *)

Enqueue ==
    /\ ui = "live" /\ made < MaxJobs
    /\ jobs' = jobs \cup {[id |-> nextId, out |-> made + 1, priority |-> 0,
                           status |-> "Queued", progress |-> 0]}
    /\ nextId' = nextId + 1
    /\ made' = made + 1
    /\ Notify /\ Mislist
    /\ UNCHANGED <<startRequested, paused, stop, cancelCurrent, cur, level, runOk,
                   ui, disk, doom, exported>>

\* MainWindow::render_all_from_queue calls start() only with a queued job; the
\* count it looked at may be stale by then, which changes nothing here because
\* only the UI thread itself takes jobs out of "Queued" other than the worker.
Start ==
    /\ ui = "live"
    /\ PublicApi \/ Queued # {}
    /\ startRequested' = TRUE
    /\ Notify
    /\ UNCHANGED <<jobs, nextId, paused, stop, cancelCurrent, cur, level, runOk,
                   uiVars, doom, exported, mislisted>>

\* Mutant: set_paused that does not notify: the worker sleeps through the resume.
SetPausedSilently(b) ==
    /\ ui = "live"
    /\ paused' = b
    /\ UNCHANGED <<jobs, nextId, startRequested, stop, cancelCurrent, workerVars,
                   uiVars, doom, exported, mislisted>>

SetPaused(b) ==
    /\ ui = "live"
    /\ paused' = b
    /\ Notify
    /\ UNCHANGED <<jobs, nextId, startRequested, stop, cancelCurrent, cur, level,
                   runOk, uiVars, doom, exported, mislisted>>

\* The operations below edit the list under the mutex and wake nobody.
Edit(newJobs) ==
    /\ ui = "live"
    /\ jobs' = newJobs
    /\ UNCHANGED <<nextId, startRequested, paused, stop, workerVars, uiVars, exported,
                   mislisted>>

ClearFinished == Edit({j \in jobs : j.status \notin Settled})
                 /\ UNCHANGED <<cancelCurrent, doom>>

ClearQueued == Edit(Rendering) /\ UNCHANGED <<cancelCurrent, doom>>

ClearAll == Edit({}) /\ UNCHANGED <<cancelCurrent, doom>>

SetPriority(id, p) ==
    /\ Edit(Update({j \in Queued : j.id = id}, LAMBDA j : [j EXCEPT !.priority = p]))
    /\ UNCHANGED <<cancelCurrent, doom>>

\* cancel(id): any job becomes Cancelled, even a settled one; the export is
\* only told to stop when the job was rendering and not yet at progress 1.0.
CancelJob(id) ==
    LET chosen == {j \in jobs : j.id = id}
    IN /\ Edit(Update(chosen, LAMBDA j : WithStatus(j, "Cancelled")))
       /\ IF \E j \in chosen : j.status = "Rendering" /\ j.progress < Levels
          THEN cancelCurrent' = TRUE /\ Doom
          ELSE UNCHANGED <<cancelCurrent, doom>>

\* remove(id): a rendering job is cancelled and stays listed, any other goes.
Remove(id) ==
    LET chosen == {j \in jobs : j.id = id}
        running == chosen \cap Rendering
    IN /\ chosen # {}
       /\ Edit((jobs \ chosen) \cup {WithStatus(j, "Cancelled") : j \in running})
       /\ IF running # {}
          THEN cancelCurrent' = TRUE /\ Doom
          ELSE UNCHANGED <<cancelCurrent, doom>>

CancelAll ==
    /\ Edit(Update(Queued, LAMBDA j : WithStatus(j, "Cancelled")))
    /\ IF Rendering # {}
       THEN cancelCurrent' = TRUE /\ Doom
       ELSE UNCHANGED <<cancelCurrent, doom>>

\* MainWindow::save_project_to writes the list it gets from jobs().
Save ==
    /\ ui = "live"
    /\ disk' = jobs
    /\ UNCHANGED <<jobs, nextId, startRequested, paused, stop, cancelCurrent,
                   workerVars, ui, made, doom, exported, mislisted>>

\* MainWindow::open_file restores the list of the file; the worker is not
\* told, whatever it is doing.
Restore ==
    /\ ui = "live"
    /\ jobs' = {FromSnapshot(j) : j \in disk}
    /\ \E m \in {0} \cup {j.id : j \in disk} :
         /\ \A j \in disk : j.id <= m
         /\ nextId' = m + 1
    /\ startRequested' = FALSE
    /\ Mislist
    /\ UNCHANGED <<paused, stop, cancelCurrent, workerVars, uiVars, doom, exported>>

\* ~RenderQueue, under the mutex, and then the store of the cancel flag and
\* the notification, without it; join() waits for pc = "exited".
DestroyStop ==
    /\ ui = "live"
    /\ ui' = "stopping"
    /\ stop' = TRUE
    /\ UNCHANGED <<jobs, nextId, startRequested, paused, cancelCurrent, workerVars,
                   disk, made, doom, exported, mislisted>>

\* Mutant: The destructor raises stop_ and the flag and forgets notify_all().
DestroySilently ==
    /\ ui = "stopping"
    /\ ui' = "joining"
    /\ cancelCurrent' = TRUE
    /\ IF Busy THEN Doom ELSE UNCHANGED doom
    /\ UNCHANGED <<jobs, nextId, startRequested, paused, stop, workerVars,
                   disk, made, exported, mislisted>>

DestroyCancel ==
    /\ ui = "stopping"
    /\ ui' = "joining"
    /\ cancelCurrent' = TRUE
    /\ IF Busy THEN Doom ELSE UNCHANGED doom
    /\ Notify
    /\ UNCHANGED <<jobs, nextId, startRequested, paused, stop, cur, level, runOk,
                   disk, made, exported, mislisted>>
-----------------------------------------------------------------------------
(* The worker thread. *)

\* The wait predicate: it also clears start_requested_ once nothing is queued.
Runnable == ~paused /\ startRequested /\ Queued # {}

WorkerExit ==
    /\ pc = "check" /\ stop
    /\ pc' = "exited"
    /\ UNCHANGED <<jobs, nextId, startRequested, paused, stop, cancelCurrent, cur,
                   level, runOk, uiVars, doom, exported, mislisted>>

WorkerSleep ==
    /\ pc = "check" /\ ~stop /\ ~Runnable
    /\ pc' = "sleep"
    /\ startRequested' = (startRequested /\ (paused \/ Queued # {}))
    /\ UNCHANGED <<jobs, nextId, paused, stop, cancelCurrent, cur, level, runOk,
                   uiVars, doom, exported, mislisted>>

\* A condition variable may wake without a notification.
WorkerSpuriousWake ==
    /\ pc = "sleep"
    /\ pc' = "check"
    /\ UNCHANGED <<jobs, nextId, startRequested, paused, stop, cancelCurrent, cur,
                   level, runOk, uiVars, doom, exported, mislisted>>

WorkerPick ==
    /\ pc = "check" /\ ~stop /\ Runnable
    /\ \E j \in NextCandidate(Queued) :
         /\ jobs' = Update({j}, LAMBDA k : WithStatus(k, "Rendering"))
         /\ cur' = WithStatus(j, "Rendering")
    /\ pc' = "picked"
    /\ doom' = "none"
    /\ UNCHANGED <<nextId, startRequested, paused, stop, cancelCurrent, level, runOk,
                   uiVars, exported, mislisted>>

\* Log, on_job_started, read the active project; then clear the cancel flag
\* and enter export_project.
WorkerStart ==
    /\ pc = "picked"
    /\ cancelCurrent' = FALSE
    /\ level' = 0 /\ runOk' = FALSE
    /\ pc' = "poll"
    /\ UNCHANGED <<jobs, nextId, startRequested, paused, stop, cur, uiVars, doom,
                   exported, mislisted>>

\* ctrl.on_progress, under the mutex: every job that has the id of the run.
Report(p) == jobs' = Update({j \in jobs : j.id = cur.id},
                            LAMBDA j : [j EXCEPT !.progress = p])

\* export_project fails before its first frame: no output path, codec, ...
ExportFail ==
    /\ pc = "poll" /\ level = 0
    /\ runOk' = FALSE
    /\ pc' = "final"
    /\ UNCHANGED <<jobs, nextId, startRequested, paused, stop, cancelCurrent, cur,
                   level, uiVars, doom, exported, mislisted>>

\* The loop test of the encoding loop, `!ended && !cancelled()`, and behind the
\* hardware loop producer.join(). After the last frame the producer has ended.
\* A cancel may find it asleep on the full queue of frames, from which nobody
\* takes any more, and raising the flag notifies nobody (ExportPipeline).
ExportPoll ==
    /\ pc = "poll"
    /\ \/ ~cancelCurrent /\ level < Levels /\ pc' = "encode"
       \/ (cancelCurrent \/ level = Levels) /\ pc' = "trailer"
       \/ cancelCurrent /\ level < Levels /\ pc' = "join"
    /\ UNCHANGED <<jobs, nextId, startRequested, paused, stop, cancelCurrent, cur,
                   level, runOk, uiVars, doom, exported, mislisted>>

\* The producer's condition variable wakes without a notification; only that
\* ends such a join().
ExportJoined ==
    /\ pc = "join"
    /\ pc' = "trailer"
    /\ UNCHANGED <<jobs, nextId, startRequested, paused, stop, cancelCurrent, cur,
                   level, runOk, uiVars, doom, exported, mislisted>>

\* One pass of the loop: encode, write, report.
ExportFrame ==
    /\ pc = "encode"
    /\ level' = level + 1
    /\ Report(level')
    /\ pc' = "poll"
    /\ UNCHANGED <<nextId, startRequested, paused, stop, cancelCurrent, cur, runOk,
                   uiVars, doom, exported, mislisted>>

\* The trailer is written; then `if (cancelled()) return fail(...)`.
ExportTrailer ==
    /\ pc = "trailer"
    /\ runOk' = ~cancelCurrent
    /\ exported' = IF cancelCurrent THEN exported ELSE exported \cup {cur.out}
    /\ pc' = "final"
    /\ UNCHANGED <<jobs, nextId, startRequested, paused, stop, cancelCurrent, cur,
                   level, uiVars, doom, mislisted>>

\* Mutant: the result of a run is taken from run_job alone, not from the flag.
OutcomeIgnoresFlag == IF runOk THEN "Completed" ELSE "Failed"

\* The last section of the loop: every job that has the id of the run.  The
\* error text of a cancelled export is "Export cancelled.", which the test for
\* "Cancelled" does not match, so only the flag tells.
Outcome == IF cancelCurrent THEN "Cancelled" ELSE IF runOk THEN "Completed" ELSE "Failed"

\* Mutant: The result is written to every listed job, not only to the run's.
FinishAll ==
    /\ pc = "final"
    /\ jobs' = Update(jobs, LAMBDA j : [j EXCEPT !.status = Outcome])
    /\ cur' = NoJob /\ level' = 0 /\ runOk' = FALSE
    /\ pc' = "check"
    /\ doom' = "none"
    /\ UNCHANGED <<nextId, startRequested, paused, stop, cancelCurrent, uiVars, exported,
                   mislisted>>

WorkerFinish ==
    /\ pc = "final"
    /\ jobs' = Update({j \in jobs : j.id = cur.id},
                      LAMBDA j : [j EXCEPT !.status = Outcome,
                                           !.progress = IF Outcome = "Completed"
                                                        THEN Levels ELSE @])
    /\ cur' = NoJob /\ level' = 0 /\ runOk' = FALSE
    /\ pc' = "check"
    /\ doom' = "none"
    /\ UNCHANGED <<nextId, startRequested, paused, stop, cancelCurrent, uiVars, exported,
                   mislisted>>
-----------------------------------------------------------------------------
Worker == \/ WorkerExit \/ WorkerSleep \/ WorkerPick \/ WorkerStart
          \/ ExportFail \/ ExportPoll \/ ExportFrame \/ ExportTrailer
          \/ WorkerFinish

Window == \/ Enqueue \/ Start \/ \E b \in BOOLEAN : SetPaused(b)
          \/ ClearQueued \/ CancelAll \/ Save \/ Restore
          \/ \E j \in jobs : Remove(j.id)
          \/ DestroyStop \/ DestroyCancel

Api == /\ PublicApi
       /\ \/ ClearFinished \/ ClearAll
          \/ \E j \in jobs : CancelJob(j.id)
          \/ \E j \in jobs, p \in Priorities : SetPriority(j.id, p)

SpuriousWakes == WorkerSpuriousWake \/ ExportJoined

QueueNext == Worker \/ Window \/ Api \/ SpuriousWakes

\* The worker is a thread that runs whenever it is not asleep on a condition
\* variable, its own or the producer's it joins; no thread relies on a spurious
\* wake-up. The destructor runs to its join() without waiting for anyone.
QueueFairness == WF_queueVars(Worker) /\ WF_queueVars(DestroyCancel)

QueueSpec == QueueInit /\ [][QueueNext]_queueVars /\ QueueFairness
-----------------------------------------------------------------------------
QueueTypeOK ==
    /\ jobs \subseteq Job /\ disk \subseteq Job
    /\ nextId \in Nat \ {0}
    /\ startRequested \in BOOLEAN /\ paused \in BOOLEAN /\ stop \in BOOLEAN
    /\ cancelCurrent \in BOOLEAN /\ runOk \in BOOLEAN
    /\ pc \in {"check", "sleep", "picked", "poll", "encode", "join", "trailer",
               "final", "exited"}
    /\ cur \in Job \cup {NoJob}
    /\ level \in 0..Levels
    /\ ui \in {"live", "stopping", "joining"}
    /\ made \in Nat /\ exported \subseteq Nat /\ mislisted \subseteq Nat
    /\ doom \in {"none", "early", "late"}

\* An id names one job: progress, the final status, cancel(id) and remove(id)
\* look a job up by id, and restore() sets the counter back to what the
\* restored list needs (next_id_, render_queue.cpp:230-236).
UniqueIds ==
    /\ DistinctIds(jobs)
    /\ \A j \in jobs : j.id < nextId

\* Only the job the worker holds is ever Rendering, so that the list can never
\* show two running exports or one that nobody runs, not even after a project
\* was opened in the middle of a run.
OneRendering == \A j \in jobs : j.status = "Rendering" => Busy /\ j.id = cur.id

\* A job listed as Completed was exported to its end: the worker finds the
\* row to write its result to by id, long after it took the job, and nothing
\* keeps the window from opening a project in between. That can put another
\* job under the id of the running one, from the file or by a new job that is
\* given the id; its row is told the result of the run, and no other row is.
CompletedIsExported ==
    \A j \in jobs : j.status = "Completed" => j.out \in exported \cup mislisted

\* Rows that the step in which the worker records its result turns Completed.
Records(status) ==
    pc = "final" /\ pc' # "final" /\
    \E j \in jobs' \ jobs : j.status = status

\* A cancel, removal or shutdown that reaches a job whose export has begun is
\* honoured: however late it comes, the run is not recorded as Completed.
LateCancelHonoured == [][Records("Completed") => doom # "late"]_queueVars

\* A cancel, removal or shutdown that reaches a rendering job is honoured
\* ("Background render queue with progress and cancel", docs/FEATURES.md:110).
CancelHonoured == [][Records("Completed") => doom = "none"]_queueVars

\* For ever in the producer.join() of an export that was cancelled.
Stranded == pc = "join" /\ cancelCurrent

\* No start is lost: once start() has been called with a job queued, and while
\* nobody pauses, opens another project or quits, the job leaves the queue,
\* unless the export of a job that was cancelled never returns.
QueuedIsServed ==
    \A o \in 1..MaxJobs :
        \/ (startRequested /\ \E j \in Queued : j.out = o)
              ~> (~startRequested \/ paused \/ stop \/ ~\E j \in Queued : j.out = o)
        \/ <>[]Stranded

\* Quitting ends: the destructor's join() returns, again unless a cancelled
\* export never does. The destructor's own cancel can strand it.
ShutdownReturns == (stop ~> pc = "exited") \/ <>[]Stranded
=============================================================================
