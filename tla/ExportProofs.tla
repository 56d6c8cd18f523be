---------------------------- MODULE ExportProofs ----------------------------
(* Safety of exporting.  First the render queue (RenderQueue), for every     *)
(* bound, priority set and project file, with the whole API.  Then the       *)
(* export it runs, for every number of frames, of passes with sound, every   *)
(* depth of the queue of frames and size of the pool: the hardware branch    *)
(* by itself (ExportPipeline), in which the frames reach the encoder in      *)
(* order and an export that reports success sent every one that was made; a  *)
(* whole call of export_project, whatever fails on its way and whichever     *)
(* branch it takes (ExportProject), of which the export with its pictures    *)
(* (ExportPictures) is one; and last that the pictures are the ones due,     *)
(* through the decoder and its seeks.                                        *)
EXTENDS RenderQueue, ExportPictures, FiniteSetTheorems, TLAPS

-----------------------------------------------------------------------------
(* The queue *)

USE RenderQueueAssumption DEF Busy, Exporting

\* Updating the status or the progress of some rows keeps them jobs.
LEMMA WithStatusType ==
    ASSUME NEW j \in Job, NEW s \in Status
    PROVE  /\ WithStatus(j, s) \in Job
           /\ WithStatus(j, s).id = j.id
           /\ WithStatus(j, s).out = j.out
           /\ WithStatus(j, s).status = s
BY DEF WithStatus, Job

\* What makes QueueTypeOK inductive: a frame is only encoded below progress 1.0.
QueueTypeInv == QueueTypeOK /\ (pc = "encode" => level < Levels)

LEMMA QueueTypeInductive ==
    /\ QueueInit => QueueTypeInv
    /\ QueueTypeInv /\ [QueueNext]_queueVars => QueueTypeInv'
<1>1. QueueInit => QueueTypeInv
  <2> SUFFICES ASSUME QueueInit PROVE QueueTypeInv
    OBVIOUS
  <2>1. disk \subseteq Job /\ IsFiniteSet(disk)
    BY StoredAssumption DEF QueueInit
  <2>2. Cardinality(disk) \in Nat
    BY <2>1, FS_CardinalityType
  <2>3. exported \subseteq Nat
    BY <2>1 DEF QueueInit, Job
  <2>4. level \in 0..Levels
    BY DEF QueueInit
  <2>5. cur \in Job \cup {NoJob} /\ made \in Nat /\ nextId \in Nat \ {0}
    BY <2>2 DEF QueueInit
  <2>6. jobs \subseteq Job /\ pc = "check"
    BY DEF QueueInit
  <2>7. /\ startRequested \in BOOLEAN /\ paused \in BOOLEAN /\ stop \in BOOLEAN
        /\ cancelCurrent \in BOOLEAN /\ runOk \in BOOLEAN
    BY DEF QueueInit
  <2>8. ui = "live" /\ doom = "none" /\ mislisted \subseteq Nat
    BY DEF QueueInit
  <2> QED
    BY <2>1, <2>3, <2>4, <2>5, <2>6, <2>7, <2>8 DEF QueueTypeOK, QueueTypeInv
<1>2. QueueTypeInv /\ [QueueNext]_queueVars => QueueTypeInv'
  <2> SUFFICES ASSUME QueueTypeInv, [QueueNext]_queueVars PROVE QueueTypeInv'
    OBVIOUS
  <2> USE DEF QueueTypeOK, QueueTypeInv
  <2>1. CASE Enqueue
    <3>1. jobs' \subseteq Job
      BY <2>1 DEF Enqueue, Job, Status
    <3>2. mislisted' \subseteq Nat
      BY <2>1, <3>1 DEF Enqueue, Mislist, Job
    <3> QED BY <2>1, <3>1, <3>2 DEF Enqueue, Notify
  <2>2. CASE Start
    BY <2>2 DEF Start, Notify, uiVars
  <2>3. ASSUME NEW b \in BOOLEAN, SetPaused(b) PROVE QueueTypeInv'
    BY <2>3 DEF SetPaused, Notify, uiVars
  <2>4. CASE ClearFinished
    BY <2>4 DEF ClearFinished, Edit, uiVars, workerVars
  <2>5. CASE ClearQueued
    BY <2>5 DEF ClearQueued, Edit, Rendering, uiVars, workerVars
  <2>6. CASE ClearAll
    BY <2>6 DEF ClearAll, Edit, uiVars, workerVars
  <2>7. ASSUME NEW j \in jobs, NEW p \in Priorities, SetPriority(j.id, p) PROVE QueueTypeInv'
    <3>1. jobs' \subseteq Job
      BY <2>7 DEF SetPriority, Edit, Update, Queued, Job
    <3> QED BY <3>1, <2>7 DEF SetPriority, Edit, uiVars, workerVars
  <2>8. ASSUME NEW j \in jobs, CancelJob(j.id) PROVE QueueTypeInv'
    <3>1. jobs' \subseteq Job
      BY <2>8, WithStatusType DEF CancelJob, Edit, Update, Status
    <3> QED BY ZenonT(30), <3>1, <2>8 DEF CancelJob, Edit, Doom, uiVars, workerVars
  <2>9. ASSUME NEW j \in jobs, Remove(j.id) PROVE QueueTypeInv'
    <3>1. jobs' \subseteq Job
      BY <2>9, WithStatusType DEF Remove, Edit, Update, Status
    <3> QED BY ZenonT(30), <3>1, <2>9 DEF Remove, Edit, Doom, uiVars, workerVars
  <2>10. CASE CancelAll
    <3>1. jobs' \subseteq Job
      BY <2>10, WithStatusType DEF CancelAll, Edit, Update, Queued, Status
    <3> QED BY ZenonT(30), <3>1, <2>10 DEF CancelAll, Edit, Doom, uiVars, workerVars
  <2>11. CASE Save
    BY <2>11 DEF Save, uiVars, workerVars
  <2>12. CASE Restore
    <3>1. jobs' \subseteq Job
      BY <2>12, WithStatusType DEF Restore, FromSnapshot, Status
    <3>2. nextId' \in Nat \ {0}
      BY <2>12 DEF Restore, Job
    <3>3. mislisted' \subseteq Nat
      BY <2>12, <3>1 DEF Restore, Mislist, Job
    <3> QED BY <3>1, <3>2, <3>3, <2>12 DEF Restore, uiVars, workerVars
  <2>13. CASE DestroyStop
    BY <2>13 DEF DestroyStop, workerVars
  <2>14. CASE DestroyCancel
    BY <2>14 DEF DestroyCancel, Doom, Notify
  <2>15. CASE WorkerExit \/ WorkerSleep \/ WorkerSpuriousWake
    BY <2>15 DEF WorkerExit, WorkerSleep, WorkerSpuriousWake, uiVars
  <2>16. CASE WorkerPick
    <3> PICK j \in Queued : /\ jobs' = Update({j}, LAMBDA k : WithStatus(k, "Rendering"))
                            /\ cur' = WithStatus(j, "Rendering")
      BY <2>16 DEF WorkerPick, NextCandidate
    <3>1. jobs' \subseteq Job /\ cur' \in Job
      BY WithStatusType DEF Update, Queued, Status
    <3> QED BY <3>1, <2>16 DEF WorkerPick, uiVars
  <2>17. CASE WorkerStart
    <3>1. level' \in 0..Levels
      BY <2>17 DEF WorkerStart
    <3> QED BY <3>1, <2>17 DEF WorkerStart, uiVars
  <2>18. CASE ExportFail \/ ExportPoll \/ ExportJoined
    <3>1. ExportPoll => (pc' \in {"join", "trailer"} \/ (pc' = "encode" /\ level < Levels))
      BY DEF ExportPoll
    <3> QED BY ZenonT(30), <3>1, <2>18 DEF ExportFail, ExportPoll, ExportJoined, uiVars
  <2>22. CASE ExportTrailer
    <3>1. cur.out \in Nat
      BY DEF Job, NoJob
    <3>3. exported' = exported \/ exported' = exported \cup {cur.out}
      BY <2>22 DEF ExportTrailer
    <3>2. runOk' \in BOOLEAN
      BY <2>22 DEF ExportTrailer
    <3>4. exported' \subseteq Nat
      BY <3>1, <3>3
    <3> QED BY <3>2, <3>4, <2>22 DEF ExportTrailer, uiVars
  <2>19. CASE ExportFrame
    <3>1. level' \in 0..Levels
      BY <2>19 DEF ExportFrame
    <3>2. jobs' \subseteq Job
      BY <3>1, <2>19 DEF ExportFrame, Report, Update, Job
    <3> QED BY <3>1, <3>2, <2>19 DEF ExportFrame, uiVars
  <2>20. CASE WorkerFinish
    <3>1. Outcome \in Status
      BY DEF Outcome, Status
    <3>3. ASSUME NEW j \in Job
          PROVE  [j EXCEPT !.status = Outcome,
                           !.progress = IF Outcome = "Completed" THEN Levels ELSE @] \in Job
      <4>1. (IF Outcome = "Completed" THEN Levels ELSE j.progress) \in 0..Levels
        BY DEF Job
      <4> QED BY <3>1, <4>1 DEF Job
    <3>2. jobs' \subseteq Job
      BY <3>3, <2>20 DEF WorkerFinish, Update
    <3>4. level' = 0 /\ runOk' = FALSE /\ cur' = NoJob
      BY Zenon, <2>20 DEF WorkerFinish
    <3>5. 0 \in 0..Levels
      OBVIOUS
    <3> QED BY <3>2, <3>4, <3>5, <2>20 DEF WorkerFinish, uiVars
  <2>21. CASE UNCHANGED queueVars
    BY <2>21 DEF queueVars
  <2> QED
    BY <2>1, <2>2, <2>3, <2>4, <2>5, <2>6, <2>7, <2>8, <2>9, <2>10, <2>11, <2>12,
       <2>13, <2>14, <2>15, <2>16, <2>17, <2>18, <2>19, <2>20, <2>21, <2>22
       DEF QueueNext, SpuriousWakes, Worker, Window, Api
<1> QED
  BY <1>1, <1>2

\* Every state of the queue has the declared types.
THEOREM QueueTypeCorrect == QueueSpec => []QueueTypeOK
<1>1. QueueTypeInv => QueueTypeOK
  BY DEF QueueTypeInv
<1> QED
  BY <1>1, QueueTypeInductive, PTL DEF QueueSpec
-----------------------------------------------------------------------------
(* The safety properties that hold whatever the window and the API do.  Ids   *)
(* on disk are distinct because they were distinct in the list saved; a late  *)
(* cancel is remembered by the flag, which only the next run clears.          *)
LateIsFlagged == doom = "late" => cancelCurrent /\ Exporting

QueueSafeInv ==
    /\ QueueTypeInv
    /\ UniqueIds
    /\ DistinctIds(disk)
    /\ OneRendering
    /\ LateIsFlagged

LEMMA QueueSafeInit == QueueInit => QueueSafeInv
<1> SUFFICES ASSUME QueueInit PROVE QueueSafeInv
  OBVIOUS
<1>1. QueueTypeInv
  BY QueueTypeInductive
<1>2. DistinctIds(disk)
  BY StoredAssumption DEF QueueInit
<1>3. jobs = {} /\ doom = "none"
  BY DEF QueueInit
<1> QED
  BY <1>1, <1>2, <1>3 DEF QueueSafeInv, UniqueIds, DistinctIds, OneRendering, LateIsFlagged

\* A new list whose rows keep their ids, and whose Rendering rows were
\* Rendering before, keeps the invariant.
LEMMA EditKeepsSafe ==
    ASSUME QueueSafeInv, QueueTypeInv',
           \A j \in jobs' : \E k \in jobs : j.id = k.id /\ (j.status = "Rendering" => k.status = "Rendering"),
           DistinctIds(jobs'),
           nextId' = nextId, disk' = disk, pc' = pc, cur' = cur, LateIsFlagged'
    PROVE  QueueSafeInv'
<1>1. UniqueIds'
  BY DEF QueueSafeInv, UniqueIds
<1>2. OneRendering'
  BY DEF QueueSafeInv, OneRendering
<1> QED
  BY <1>1, <1>2 DEF QueueSafeInv, DistinctIds

\* The steps that touch neither the list, the ids, the file nor the worker's
\* place and flag.
LEMMA StutterKeepsSafe ==
    ASSUME QueueSafeInv, QueueTypeInv', UNCHANGED <<jobs, nextId, disk, cur>>,
           pc' = pc \/ (Busy <=> Busy'), LateIsFlagged'
    PROVE  QueueSafeInv'
BY DEF QueueSafeInv, UniqueIds, DistinctIds, OneRendering

LEMMA QueueSafeStep == QueueSafeInv /\ [QueueNext]_queueVars => QueueSafeInv'
<1> SUFFICES ASSUME QueueSafeInv, [QueueNext]_queueVars PROVE QueueSafeInv'
  OBVIOUS
<1>t. QueueTypeInv'
  BY QueueTypeInductive DEF QueueSafeInv
<1>j. jobs \subseteq Job /\ disk \subseteq Job /\ nextId \in Nat
  BY DEF QueueSafeInv, QueueTypeInv, QueueTypeOK
<1> USE <1>t
<1>1. CASE Enqueue
  <2> DEFINE new == [id |-> nextId, out |-> made + 1, priority |-> 0,
                     status |-> "Queued", progress |-> 0]
  <2>1. jobs' = jobs \cup {new} /\ nextId' = nextId + 1
    BY <1>1 DEF Enqueue
  <2>2. \A j \in jobs : j.id \in Nat /\ j.id < nextId
    BY <1>j DEF Job, QueueSafeInv, UniqueIds
  <2>3. UniqueIds'
    BY <2>1, <2>2, <1>j DEF QueueSafeInv, UniqueIds, DistinctIds
  <2>4. OneRendering' /\ LateIsFlagged'
    BY <1>1, <2>1 DEF Enqueue, Notify, QueueSafeInv, OneRendering, LateIsFlagged
  <2> QED BY <1>1, <2>3, <2>4 DEF Enqueue, QueueSafeInv, DistinctIds
<1>2. CASE Start \/ WorkerExit \/ WorkerSleep \/ WorkerSpuriousWake \/ DestroyStop
        \/ \E b \in BOOLEAN : SetPaused(b)
  BY <1>2, StutterKeepsSafe
     DEF Start, WorkerExit, WorkerSleep, WorkerSpuriousWake, DestroyStop, SetPaused, Notify,
         QueueSafeInv, LateIsFlagged, uiVars, workerVars
<1>3. CASE DestroyCancel
  BY <1>3, StutterKeepsSafe DEF DestroyCancel, Notify, Doom, QueueSafeInv, LateIsFlagged
<1>4. CASE ClearFinished \/ ClearQueued \/ ClearAll
  BY <1>4, EditKeepsSafe
     DEF ClearFinished, ClearQueued, ClearAll, Edit, Rendering, QueueSafeInv, UniqueIds,
         DistinctIds, LateIsFlagged, uiVars, workerVars
<1>5. ASSUME NEW i \in jobs, NEW p \in Priorities, SetPriority(i.id, p) PROVE QueueSafeInv'
  <2>1. \A j \in jobs' : \E k \in jobs : j.id = k.id /\ j.status = k.status
    BY <1>5, <1>j DEF SetPriority, Edit, Update, Queued, Job
  <2>2. DistinctIds(jobs')
    BY <1>5, <1>j DEF SetPriority, Edit, Update, Queued, Job, QueueSafeInv, UniqueIds, DistinctIds
  <2> QED BY <1>5, <2>1, <2>2, EditKeepsSafe
          DEF SetPriority, Edit, QueueSafeInv, LateIsFlagged, uiVars, workerVars
<1>6. ASSUME NEW i \in jobs, CancelJob(i.id) PROVE QueueSafeInv'
  <2>1. \A j \in jobs' : \E k \in jobs :
           j.id = k.id /\ (j.status = "Rendering" => k.status = "Rendering")
    BY <1>6, <1>j, WithStatusType DEF CancelJob, Edit, Update, Status
  <2>2. DistinctIds(jobs')
    BY <1>6, <1>j, WithStatusType DEF CancelJob, Edit, Update, Status, QueueSafeInv, UniqueIds, DistinctIds
  <2>3. LateIsFlagged'
    BY <1>6 DEF CancelJob, Edit, Doom, QueueSafeInv, LateIsFlagged, workerVars
  <2> QED BY <1>6, <2>1, <2>2, <2>3, EditKeepsSafe DEF CancelJob, Edit, uiVars, workerVars
<1>7. ASSUME NEW i \in jobs, Remove(i.id) PROVE QueueSafeInv'
  <2>1. \A j \in jobs' : \E k \in jobs :
           j.id = k.id /\ (j.status = "Rendering" => k.status = "Rendering")
    BY <1>7, <1>j, WithStatusType DEF Remove, Edit, Status
  <2>2. DistinctIds(jobs')
    BY <1>7, <1>j, WithStatusType DEF Remove, Edit, Status, QueueSafeInv, UniqueIds, DistinctIds
  <2>3. LateIsFlagged'
    BY <1>7 DEF Remove, Edit, Doom, QueueSafeInv, LateIsFlagged, workerVars
  <2> QED BY <1>7, <2>1, <2>2, <2>3, EditKeepsSafe DEF Remove, Edit, uiVars, workerVars
<1>8. CASE CancelAll
  <2>1. \A j \in jobs' : \E k \in jobs :
           j.id = k.id /\ (j.status = "Rendering" => k.status = "Rendering")
    BY <1>8, <1>j, WithStatusType DEF CancelAll, Edit, Update, Queued, Status
  <2>2. DistinctIds(jobs')
    BY <1>8, <1>j, WithStatusType DEF CancelAll, Edit, Update, Queued, Status, QueueSafeInv, UniqueIds, DistinctIds
  <2>3. LateIsFlagged'
    BY <1>8 DEF CancelAll, Edit, Doom, QueueSafeInv, LateIsFlagged, workerVars
  <2> QED BY <1>8, <2>1, <2>2, <2>3, EditKeepsSafe DEF CancelAll, Edit, uiVars, workerVars
<1>9. CASE Save
  BY <1>9 DEF Save, QueueSafeInv, UniqueIds, DistinctIds, OneRendering, LateIsFlagged, workerVars
<1>10. CASE Restore
  <2>1. \A j \in disk : /\ FromSnapshot(j).id = j.id
                        /\ FromSnapshot(j).status # "Rendering"
    BY <1>j, WithStatusType DEF FromSnapshot, Status
  <2>2. jobs' = {FromSnapshot(j) : j \in disk}
    BY <1>10 DEF Restore
  <2>3. DistinctIds(jobs') /\ OneRendering'
    BY <2>1, <2>2 DEF QueueSafeInv, DistinctIds, OneRendering
  <2>4. \A j \in jobs' : j.id < nextId'
    BY <1>10, <1>j, <2>1, <2>2 DEF Restore, Job
  <2> QED BY <1>10, <2>3, <2>4 DEF Restore, QueueSafeInv, UniqueIds, DistinctIds, LateIsFlagged, uiVars, workerVars
<1>11. CASE WorkerPick
  <2> PICK i \in Queued : /\ jobs' = Update({i}, LAMBDA k : WithStatus(k, "Rendering"))
                          /\ cur' = WithStatus(i, "Rendering")
    BY <1>11 DEF WorkerPick, NextCandidate
  <2>1. i \in jobs /\ i \in Job /\ jobs' = (jobs \ {i}) \cup {WithStatus(i, "Rendering")}
    BY <1>j DEF Update, Queued
  <2>2. /\ WithStatus(i, "Rendering").id = i.id
        /\ WithStatus(i, "Rendering").status = "Rendering"
    BY <2>1, WithStatusType DEF Status
  <2>3. \A j \in jobs : j.status # "Rendering"
    BY <1>11 DEF WorkerPick, QueueSafeInv, OneRendering
  <2>4. UniqueIds' /\ OneRendering'
    BY <1>11, <2>1, <2>2, <2>3 DEF WorkerPick, QueueSafeInv, UniqueIds, DistinctIds, OneRendering
  <2> QED BY <1>11, <2>4 DEF WorkerPick, QueueSafeInv, DistinctIds, LateIsFlagged, uiVars
<1>12. CASE WorkerStart
  <2>1. doom # "late"
    BY <1>12 DEF WorkerStart, QueueSafeInv, LateIsFlagged
  <2> QED BY <1>12, <2>1, StutterKeepsSafe DEF WorkerStart, QueueSafeInv, LateIsFlagged, uiVars
<1>13. CASE ExportFail \/ ExportPoll \/ ExportJoined \/ ExportTrailer
  <2>1. Busy' /\ (Exporting => Exporting') /\ Busy
    BY <1>13 DEF ExportFail, ExportPoll, ExportJoined, ExportTrailer
  <2>2. UNCHANGED <<jobs, nextId, disk, cur, cancelCurrent, doom>>
    BY <1>13 DEF ExportFail, ExportPoll, ExportJoined, ExportTrailer, uiVars
  <2> QED BY <2>1, <2>2, StutterKeepsSafe DEF QueueSafeInv, LateIsFlagged
<1>14. CASE ExportFrame
  <2>1. \A j \in jobs' : \E k \in jobs : j.id = k.id /\ j.status = k.status
    BY <1>14, <1>j DEF ExportFrame, Report, Update, Job
  <2>2. DistinctIds(jobs')
    BY <1>14, <1>j DEF ExportFrame, Report, Update, Job, QueueSafeInv, UniqueIds, DistinctIds
  <2>3. UniqueIds'
    BY <1>14, <2>1, <2>2 DEF ExportFrame, QueueSafeInv, UniqueIds
  <2>4. OneRendering' /\ LateIsFlagged'
    BY <1>14, <2>1 DEF ExportFrame, QueueSafeInv, OneRendering, LateIsFlagged
  <2> QED BY <1>14, <2>3, <2>4 DEF ExportFrame, QueueSafeInv, DistinctIds, uiVars
<1>15. CASE WorkerFinish
  <2>1. Outcome # "Rendering"
    BY DEF Outcome
  <2>2. \A j \in jobs' : \E k \in jobs :
           j.id = k.id /\ (k.id = cur.id => j.status # "Rendering")
                       /\ (k.id # cur.id => j = k)
    BY <1>15, <1>j, <2>1 DEF WorkerFinish, Update, Job
  <2> DEFINE G(k) == [k EXCEPT !.status = Outcome,
                               !.progress = IF Outcome = "Completed" THEN Levels ELSE @]
  <2>6. \A k \in jobs : G(k).id = k.id
    BY <1>j DEF Job
  <2>7. jobs' = (jobs \ {j \in jobs : j.id = cur.id})
                  \cup {G(j) : j \in {k \in jobs : k.id = cur.id}}
    BY <1>15 DEF WorkerFinish, Update
  <2> HIDE DEF G
  <2>3. DistinctIds(jobs')
    BY <2>6, <2>7 DEF QueueSafeInv, UniqueIds, DistinctIds
  <2>4. UniqueIds'
    BY <1>15, <2>2, <2>3 DEF WorkerFinish, QueueSafeInv, UniqueIds
  <2>5. OneRendering'
    BY <2>2 DEF QueueSafeInv, OneRendering
  <2> QED BY <1>15, <2>4, <2>5 DEF WorkerFinish, QueueSafeInv, DistinctIds, LateIsFlagged, uiVars
<1>16. CASE UNCHANGED queueVars
  BY <1>16 DEF queueVars, QueueSafeInv, UniqueIds, DistinctIds, OneRendering, LateIsFlagged
<1> QED
  BY <1>1, <1>2, <1>3, <1>4, <1>5, <1>6, <1>7, <1>8, <1>9, <1>10, <1>11, <1>12,
     <1>13, <1>14, <1>15, <1>16
     DEF QueueNext, SpuriousWakes, Worker, Window, Api

LEMMA QueueSafe == QueueSpec => []QueueSafeInv
BY QueueSafeInit, QueueSafeStep, PTL DEF QueueSpec

\* An id names one job and is never given twice, whatever is restored.
THEOREM IdsAreUnique == QueueSpec => []UniqueIds
<1>1. QueueSafeInv => UniqueIds
  BY DEF QueueSafeInv
<1> QED
  BY <1>1, QueueSafe, PTL

\* Only the job the worker holds is ever Rendering.
THEOREM RenderingIsTheWorkers == QueueSpec => []OneRendering
<1>1. QueueSafeInv => OneRendering
  BY DEF QueueSafeInv
<1> QED
  BY <1>1, QueueSafe, PTL

\* A cancel that reaches a running export is recorded as a cancel.
THEOREM LateCancelIsHonoured == QueueSpec => LateCancelHonoured
<1>1. QueueSafeInv /\ [QueueNext]_queueVars => [Records("Completed") => doom # "late"]_queueVars
  <2> SUFFICES ASSUME QueueSafeInv, QueueNext, Records("Completed"), doom = "late" PROVE FALSE
    BY DEF queueVars
  <2>1. pc = "final" /\ pc' # "final" /\ cancelCurrent
    BY DEF Records, QueueSafeInv, LateIsFlagged
  <2>2. WorkerFinish
    BY <2>1 DEF QueueNext, SpuriousWakes, Worker, Window, Api, Enqueue, Start, SetPaused, ClearFinished,
       ClearQueued, ClearAll, SetPriority, CancelJob, Remove, CancelAll, Edit, Save,
       Restore, DestroyStop, DestroyCancel, Notify, WorkerExit, WorkerSleep,
       WorkerSpuriousWake, WorkerPick, WorkerStart, ExportFail, ExportPoll, ExportJoined, ExportFrame,
       ExportTrailer, workerVars
  <2>3. Outcome = "Cancelled"
    BY <2>1 DEF Outcome
  <2>4. PICK j \in jobs' \ jobs : j.status = "Completed"
    BY DEF Records
  <2>5. jobs \subseteq Job
    BY DEF QueueSafeInv, QueueTypeInv, QueueTypeOK
  <2> QED
    BY <2>2, <2>3, <2>4, <2>5 DEF WorkerFinish, Update, Job
<1> QED
  BY <1>1, QueueSafe, PTL DEF QueueSpec, LateCancelHonoured
-----------------------------------------------------------------------------
(* The row the worker writes its result to is the row of the job it exported, *)
(* or one that came under the id of the run when a project was opened.        *)
RowIsTheJob == Busy => \A j \in jobs : j.id = cur.id => j.out \in {cur.out} \cup mislisted

DoneIsExported(S) ==
    \A j \in S : j.status = "Completed" => j.out \in exported \cup mislisted

ExportInv ==
    /\ QueueSafeInv
    /\ RowIsTheJob
    /\ DoneIsExported(jobs) /\ DoneIsExported(disk)
    /\ pc = "final" /\ runOk => cur.out \in exported

LEMMA ExportInit == QueueInit => ExportInv
<1> SUFFICES ASSUME QueueInit PROVE ExportInv
  OBVIOUS
<1>1. QueueSafeInv
  BY QueueSafeInit
<1>2. DoneIsExported(disk)
  BY DEF QueueInit, DoneIsExported
<1>3. jobs = {} /\ pc = "check"
  BY DEF QueueInit
<1> QED
  BY <1>1, <1>2, <1>3 DEF ExportInv, RowIsTheJob, DoneIsExported

\* A step that makes no row Completed and renames none keeps the invariant.
LEMMA EditKeepsExport ==
    ASSUME ExportInv, QueueSafeInv',
           \A j \in jobs' : \E k \in jobs :
               j.id = k.id /\ j.out = k.out /\ (j.status = "Completed" => k.status = "Completed"),
           UNCHANGED <<disk, cur, exported, mislisted>>,
           Busy' <=> Busy,
           pc' = "final" /\ runOk' => pc = "final" /\ runOk
    PROVE  ExportInv'
<1>1. RowIsTheJob'
  BY DEF ExportInv, RowIsTheJob
<1>2. DoneIsExported(jobs)' /\ DoneIsExported(disk)'
  BY DEF ExportInv, DoneIsExported
<1> QED
  BY <1>1, <1>2 DEF ExportInv

\* A list that another took the place of: its rows under the id of the run are
\* mislisted, or the run's.
LEMMA ListKeepsExport ==
    ASSUME ExportInv, QueueSafeInv', Mislist,
           \A j \in jobs' : j.status = "Completed" =>
               \E k \in jobs \cup disk : j.out = k.out /\ k.status = "Completed",
           UNCHANGED <<disk, cur, exported>>,
           Busy' <=> Busy,
           pc' = "final" /\ runOk' => pc = "final" /\ runOk
    PROVE  ExportInv'
<1>1. mislisted \subseteq mislisted'
  BY DEF Mislist
<1>2. RowIsTheJob'
  BY DEF Mislist, RowIsTheJob
<1>3. DoneIsExported(jobs)' /\ DoneIsExported(disk)'
  BY <1>1 DEF ExportInv, DoneIsExported
<1> QED
  BY <1>2, <1>3 DEF ExportInv

LEMMA ExportStep == ExportInv /\ [QueueNext]_queueVars => ExportInv'
<1> SUFFICES ASSUME ExportInv, [QueueNext]_queueVars PROVE ExportInv'
  OBVIOUS
<1>s. QueueSafeInv'
  BY QueueSafeStep DEF ExportInv
<1>j. jobs \subseteq Job /\ disk \subseteq Job /\ nextId \in Nat
  BY DEF ExportInv, QueueSafeInv, QueueTypeInv, QueueTypeOK
<1> USE <1>s
<1>1. CASE Enqueue
  <2>1. \A j \in jobs' : j.status = "Completed" => j \in jobs
    BY <1>1 DEF Enqueue
  <2> QED BY <1>1, <2>1, ListKeepsExport DEF Enqueue, Notify
<1>2. CASE Start \/ WorkerExit \/ WorkerSleep \/ WorkerSpuriousWake \/ DestroyStop
        \/ DestroyCancel \/ \E b \in BOOLEAN : SetPaused(b)
  BY <1>2, EditKeepsExport
     DEF Start, WorkerExit, WorkerSleep, WorkerSpuriousWake, DestroyStop, DestroyCancel,
         SetPaused, Notify, uiVars, workerVars
<1>3. CASE ClearFinished \/ ClearQueued \/ ClearAll
  BY <1>3, EditKeepsExport
     DEF ClearFinished, ClearQueued, ClearAll, Edit, Rendering, uiVars, workerVars
<1>4. ASSUME NEW i \in jobs, NEW p \in Priorities, SetPriority(i.id, p) PROVE ExportInv'
  <2>1. \A j \in jobs' : \E k \in jobs :
           j.id = k.id /\ j.out = k.out /\ j.status = k.status
    BY <1>4, <1>j DEF SetPriority, Edit, Update, Queued, Job
  <2> QED BY <1>4, <2>1, EditKeepsExport DEF SetPriority, Edit, uiVars, workerVars
<1>5. ASSUME NEW i \in jobs, CancelJob(i.id) PROVE ExportInv'
  <2>1. \A j \in jobs' : \E k \in jobs :
           j.id = k.id /\ j.out = k.out /\ (j.status = "Completed" => k.status = "Completed")
    BY <1>5, <1>j, WithStatusType DEF CancelJob, Edit, Update, Status
  <2> QED BY <1>5, <2>1, EditKeepsExport DEF CancelJob, Edit, uiVars, workerVars
<1>6. ASSUME NEW i \in jobs, Remove(i.id) PROVE ExportInv'
  <2>1. \A j \in jobs' : \E k \in jobs :
           j.id = k.id /\ j.out = k.out /\ (j.status = "Completed" => k.status = "Completed")
    BY <1>6, <1>j, WithStatusType DEF Remove, Edit, Status
  <2> QED BY <1>6, <2>1, EditKeepsExport DEF Remove, Edit, uiVars, workerVars
<1>7. CASE CancelAll
  <2>1. \A j \in jobs' : \E k \in jobs :
           j.id = k.id /\ j.out = k.out /\ (j.status = "Completed" => k.status = "Completed")
    BY <1>7, <1>j, WithStatusType DEF CancelAll, Edit, Update, Queued, Status
  <2> QED BY <1>7, <2>1, EditKeepsExport DEF CancelAll, Edit, uiVars, workerVars
<1>8. CASE Save
  BY <1>8 DEF Save, ExportInv, RowIsTheJob, DoneIsExported, workerVars
<1>9. CASE Restore
  <2>1. \A j \in disk : /\ FromSnapshot(j).out = j.out
                        /\ FromSnapshot(j).status = "Completed" => j.status = "Completed"
    BY <1>j, WithStatusType DEF FromSnapshot, Status
  <2>2. \A j \in jobs' : j.status = "Completed" =>
           \E k \in disk : j.out = k.out /\ k.status = "Completed"
    BY <1>9, <2>1 DEF Restore
  <2> QED BY <1>9, <2>2, ListKeepsExport DEF Restore, uiVars, workerVars
<1>10. CASE WorkerPick
  <2> PICK i \in Queued : /\ jobs' = Update({i}, LAMBDA k : WithStatus(k, "Rendering"))
                          /\ cur' = WithStatus(i, "Rendering")
    BY <1>10 DEF WorkerPick, NextCandidate
  <2>1. i \in jobs /\ i \in Job /\ jobs' = (jobs \ {i}) \cup {WithStatus(i, "Rendering")}
    BY <1>j DEF Update, Queued
  <2>2. cur'.id = i.id /\ cur'.out = i.out /\ WithStatus(i, "Rendering").status = "Rendering"
    BY <2>1, WithStatusType DEF Status
  <2>3. RowIsTheJob'
    BY <1>10, <2>1, <2>2 DEF WorkerPick, ExportInv, QueueSafeInv, UniqueIds, DistinctIds, RowIsTheJob
  <2>4. DoneIsExported(jobs)'
    BY <1>10, <2>1, <2>2 DEF WorkerPick, ExportInv, DoneIsExported
  <2> QED BY <1>10, <2>3, <2>4 DEF WorkerPick, ExportInv, DoneIsExported, uiVars
<1>11. CASE WorkerStart \/ ExportFail \/ ExportPoll \/ ExportJoined
  BY <1>11, EditKeepsExport DEF WorkerStart, ExportFail, ExportPoll, ExportJoined, uiVars
<1>12. CASE ExportTrailer
  <2>1. exported \subseteq exported' /\ (runOk' => cur.out \in exported')
    BY <1>12 DEF ExportTrailer
  <2>2. UNCHANGED <<jobs, disk, cur, mislisted>> /\ Busy
    BY <1>12 DEF ExportTrailer, uiVars
  <2> QED BY <2>1, <2>2 DEF ExportInv, RowIsTheJob, DoneIsExported
<1>13. CASE ExportFrame
  <2>1. \A j \in jobs' : \E k \in jobs :
           j.id = k.id /\ j.out = k.out /\ j.status = k.status
    BY <1>13, <1>j DEF ExportFrame, Report, Update, Job
  <2> QED BY <1>13, <2>1, EditKeepsExport DEF ExportFrame, uiVars
<1>14. CASE WorkerFinish
  <2> DEFINE G(k) == [k EXCEPT !.status = Outcome,
                               !.progress = IF Outcome = "Completed" THEN Levels ELSE @]
  <2>1. \A k \in jobs : G(k).out = k.out /\ G(k).status = Outcome
    BY <1>j DEF Job
  <2>2. jobs' = (jobs \ {j \in jobs : j.id = cur.id})
                  \cup {G(j) : j \in {k \in jobs : k.id = cur.id}}
    BY <1>14 DEF WorkerFinish, Update
  <2> HIDE DEF G
  <2>3. Outcome = "Completed" => runOk
    BY DEF Outcome
  <2>4. UNCHANGED <<disk, exported, mislisted>> /\ pc = "final" /\ pc' = "check"
    BY <1>14 DEF WorkerFinish, uiVars
  <2>5. DoneIsExported(jobs)'
    BY <2>1, <2>2, <2>3, <2>4 DEF ExportInv, RowIsTheJob, DoneIsExported
  <2> QED BY <2>4, <2>5 DEF ExportInv, RowIsTheJob, DoneIsExported
<1>15. CASE UNCHANGED queueVars
  BY <1>15 DEF queueVars, ExportInv, RowIsTheJob, DoneIsExported
<1> QED
  BY <1>1, <1>2, <1>3, <1>4, <1>5, <1>6, <1>7, <1>8, <1>9, <1>10, <1>11, <1>12,
     <1>13, <1>14, <1>15
     DEF QueueNext, SpuriousWakes, Worker, Window, Api

\* A job listed as Completed was exported to its end, whatever is opened while
\* a job is rendering, but for rows an opened project put under the run's id.
THEOREM CompletedWasExported == QueueSpec => []CompletedIsExported
<1>1. ExportInv => CompletedIsExported
  BY DEF ExportInv, DoneIsExported, CompletedIsExported
<1>2. ExportInv /\ [QueueNext]_queueVars => ExportInv'
  BY ExportStep
<1> QED
  BY <1>1, <1>2, ExportInit, PTL DEF QueueSpec

HIDE RenderQueueAssumption DEF Busy, Exporting

-----------------------------------------------------------------------------
(* The export *)

USE PipelineAssumption DEF Frames, Miss, Slot

\* A queue of n slots.
Slots == 1..Len(queue)

\* What the producer holds, and where the frames it counted may be: whatever
\* is in the encoder, with the export thread or in the queue is below its
\* counter, and a frame is above all that is ahead of it.
Order ==
    /\ prod \in {"put", "asleep"} => inHand \in {<<f>>, <<Miss>>} /\ f < Total
    /\ prod \notin {"put", "asleep"} => inHand = <<>>
    /\ toSend = <<>> \/ \E x \in Slot : toSend = <<x>>
    /\ \A i \in 1..Len(sent) : sent[i] < f
    /\ \A i \in Slots : queue[i] < f
    /\ toSend # <<>> => toSend[1] < f
    /\ SentInOrder
    /\ \A i, j \in Slots : i < j /\ queue[j] # Miss => queue[i] < queue[j]
    /\ \A i \in 1..Len(sent), j \in Slots : queue[j] # Miss => sent[i] < queue[j]
    /\ toSend # <<>> /\ toSend # <<Miss>> =>
          \A i \in 1..Len(sent) : sent[i] < toSend[1]
    /\ toSend # <<>> => \A j \in Slots : queue[j] # Miss => toSend[1] < queue[j]

\* Where the export thread is when the call ends.
Ends ==
    /\ cons # "encode" => toSend = <<>>
    /\ cons \in {"trailer", "returned"} => prod = "exited" /\ queue = <<>>

SafeInv == TypeOK /\ Order /\ Ends

LEMMA SafeInit == Init => SafeInv
<1> SUFFICES ASSUME Init PROVE SafeInv
  OBVIOUS
<1>1. TypeOK
  <2>1. /\ queue \in Seq(Slot) /\ Len(queue) <= Depth
        /\ inHand \in Seq(Slot) /\ Len(inHand) <= 1
        /\ toSend \in Seq(Slot) /\ Len(toSend) <= 1
        /\ sent \in Seq(Frames)
    BY DEF Init
  <2>2. f \in 0..Total /\ frame \in Nat /\ audio \in 0..AudioChunks
    BY DEF Init
  <2> QED BY <2>1, <2>2 DEF Init, TypeOK
<1>2. Len(sent) = 0 /\ Len(queue) = 0 /\ toSend = <<>> /\ inHand = <<>> /\ prod = "render"
  BY DEF Init
<1>3. Order
  BY <1>2 DEF Order, SentInOrder, Slots
<1>4. Ends
  BY DEF Init, Ends
<1> QED BY <1>1, <1>3, <1>4 DEF SafeInv

\* A step that leaves the frames where they are.
LEMMA StillSafe ==
    ASSUME SafeInv,
           queue' = queue, f' = f, toSend' = toSend, sent' = sent,
           \/ inHand' = inHand /\ prod' = prod
           \/ inHand' = inHand /\ prod' \in {"put", "asleep"} /\ prod \in {"put", "asleep"}
           \/ inHand' = <<>> /\ prod' \notin {"put", "asleep"}
    PROVE  Order'
<1>1. Slots' = Slots
  BY DEF Slots
<1> QED BY <1>1 DEF SafeInv, Order, SentInOrder

\* The producer puts what it holds at the end of the queue.
LEMMA PutSafe ==
    ASSUME SafeInv, Put
    PROVE  SafeInv'
<1> USE DEF SafeInv
<1>1. PICK x \in Slot : inHand = <<x>> /\ (x = f \/ x = Miss) /\ f < Total
  BY DEF Put, Order, TypeOK
<1>2. /\ queue' = Append(queue, x) /\ queue' \in Seq(Slot)
      /\ Len(queue') = Len(queue) + 1
      /\ \A i \in Slots : queue'[i] = queue[i]
      /\ queue'[Len(queue) + 1] = x
  BY <1>1 DEF Put, TypeOK, Slots
<1>3. /\ f' = f + 1 /\ inHand' = <<>> /\ prod' = "render" /\ Len(queue) < Depth
      /\ UNCHANGED <<cancelled, done, missed, frame, toSend, audio, ended, sent, flushed, ok>>
      /\ cons' \in {cons, "take"} /\ (cons' # cons => cons = "asleep")
  BY DEF Put, WakeConsumer
<1>4. TypeOK'
  BY <1>1, <1>2, <1>3 DEF TypeOK
<1>5. Slots' = Slots \cup {Len(queue) + 1}
  BY <1>2 DEF Slots, TypeOK
<1>6. Order'
  <2>1. \A i \in 1..Len(sent) : sent[i] \in Nat
    BY DEF TypeOK
  <2>2. \A i \in Slots : queue[i] \in Slot
    BY DEF TypeOK, Slots
  <2>3. /\ \A i \in 1..Len(sent) : sent[i] < f'
        /\ \A i \in Slots' : queue'[i] < f'
        /\ toSend # <<>> => toSend[1] < f'
    <3>1. \A i \in 1..Len(sent) : sent[i] < f'
      BY <1>3, <2>1 DEF Order, TypeOK
    <3>2. \A i \in Slots : queue'[i] < f'
      <4> SUFFICES ASSUME NEW i \in Slots PROVE queue'[i] < f'
        OBVIOUS
      <4>1. queue[i] < f /\ queue[i] \in Int /\ f \in Int
        BY <2>2 DEF Order, TypeOK
      <4>2. queue'[i] = queue[i] /\ f' = f + 1
        BY <1>2, <1>3
      <4> QED BY <4>1, <4>2
    <3>3. x < f'
      BY <1>1, <1>3 DEF TypeOK
    <3>4. toSend # <<>> => toSend[1] < f'
      BY <1>3 DEF Order, TypeOK
    <3> QED BY <1>2, <1>5, <3>1, <3>2, <3>3, <3>4
  <2>4. \A i, j \in Slots' : i < j /\ queue'[j] # Miss => queue'[i] < queue'[j]
    BY <1>1, <1>2, <1>5, <2>2 DEF Order, TypeOK, Slots
  <2>5. \A i \in 1..Len(sent), j \in Slots' : queue'[j] # Miss => sent[i] < queue'[j]
    BY <1>1, <1>2, <1>5, <2>1, <2>2 DEF Order, TypeOK
  <2>6. toSend # <<>> => \A j \in Slots' : queue'[j] # Miss => toSend[1] < queue'[j]
    BY <1>1, <1>2, <1>5, <2>2 DEF Order, TypeOK
  <2> QED BY <1>3, <2>3, <2>4, <2>5, <2>6 DEF Order, SentInOrder
<1>7. Ends'
  BY <1>3 DEF Ends, Put
<1> QED BY <1>4, <1>6, <1>7

\* The export thread takes the slot at the head of the queue.
LEMMA TakeSafe ==
    ASSUME SafeInv, Take
    PROVE  SafeInv'
<1> USE DEF SafeInv
<1>1. /\ UNCHANGED <<cancelled, done, f, inHand, missed, frame, audio, ended, sent, flushed, ok>>
      /\ cons = "take" /\ cons' = "encode" /\ toSend = <<>>
      /\ prod' \in {prod, "put"} /\ (prod' # prod => prod = "asleep")
  BY DEF Take, WakeProducer, Ends
<1>2. CASE queue = <<>>
  BY <1>1, <1>2 DEF Take, TypeOK, Order, Ends, SentInOrder, Slots
<1>3. CASE queue # <<>>
  <2>1. /\ toSend' = <<queue[1]>> /\ queue' = Tail(queue) /\ queue[1] \in Slot
        /\ queue' \in Seq(Slot) /\ Len(queue') = Len(queue) - 1
        /\ \A i \in Slots' : queue'[i] = queue[i + 1] /\ i + 1 \in Slots
    BY <1>3 DEF Take, TypeOK, Slots
  <2>2. TypeOK'
    BY <1>1, <2>1 DEF TypeOK
  <2>3. 1 \in Slots /\ toSend'[1] = queue[1] /\ toSend' # <<>>
    BY <1>3, <2>1 DEF Slots, TypeOK
  <2>4. \A i \in Slots' : i \in Nat /\ 1 < i + 1
    BY DEF Slots
  <2>5. Order'
    <3>1. \A i, j \in Slots' : i < j /\ queue'[j] # Miss => queue'[i] < queue'[j]
      <4> SUFFICES ASSUME NEW i \in Slots', NEW j \in Slots', i < j, queue'[j] # Miss
                   PROVE  queue'[i] < queue'[j]
        OBVIOUS
      <4>1. i + 1 \in Slots /\ j + 1 \in Slots /\ i + 1 < j + 1
        BY <2>1, <2>4
      <4> QED BY <2>1, <4>1 DEF Order
    <3>2. /\ \A j \in Slots' : queue'[j] # Miss => toSend'[1] < queue'[j]
          /\ \A i \in Slots' : queue'[i] < f
          /\ toSend'[1] < f
      BY <2>1, <2>3, <2>4 DEF Order
    <3>3. \A i \in 1..Len(sent), j \in Slots' : queue'[j] # Miss => sent[i] < queue'[j]
      BY <2>1 DEF Order
    <3>4. toSend' # <<Miss>> => \A i \in 1..Len(sent) : sent[i] < toSend'[1]
      BY <2>1, <2>3 DEF Order
    <3> QED BY <1>1, <2>1, <3>1, <3>2, <3>3, <3>4 DEF Order, SentInOrder
  <2>6. Ends'
    BY <1>1 DEF Ends
  <2> QED BY <2>2, <2>5, <2>6
<1> QED BY <1>2, <1>3

\* The frame that was taken goes to the encoder, if the slot has one.
LEMMA EncodeSafe ==
    ASSUME SafeInv, Encode
    PROVE  SafeInv'
<1> USE DEF SafeInv
<1>1. /\ UNCHANGED <<cancelled, queue, done, prod, f, inHand, missed, ok>>
      /\ cons = "encode" /\ cons' = "loop" /\ toSend' = <<>>
      /\ frame' = frame + 1 /\ audio' \in 0..AudioChunks
      /\ ended' \in BOOLEAN /\ flushed' \in BOOLEAN
  BY DEF Encode, producerVars, TypeOK
<1>2. CASE toSend \in {<<>>, <<Miss>>}
  <2>1. sent' = sent
    BY <1>2 DEF Encode
  <2> QED BY <1>1, <2>1 DEF TypeOK, Order, Ends, SentInOrder, Slots
<1>3. CASE toSend \notin {<<>>, <<Miss>>}
  <2>1. PICK x \in Frames : toSend = <<x>>
    BY <1>3 DEF Order
  <2>2. /\ sent' = Append(sent, x) /\ sent' \in Seq(Frames)
        /\ Len(sent') = Len(sent) + 1 /\ sent'[Len(sent) + 1] = x
        /\ \A i \in 1..Len(sent) : sent'[i] = sent[i]
    BY <1>3, <2>1 DEF Encode, TypeOK
  <2>3. /\ \A i \in 1..Len(sent') : sent'[i] < f
        /\ SentInOrder'
        /\ \A i \in 1..Len(sent'), j \in Slots : queue[j] # Miss => sent'[i] < queue[j]
    <3>1. x < f /\ \A i \in 1..Len(sent) : sent[i] < x
      BY <1>3, <2>1 DEF Order
    <3>2. \A j \in Slots : queue[j] # Miss => x < queue[j]
      BY <2>1 DEF Order
    <3>3. 1..Len(sent') = (1..Len(sent)) \cup {Len(sent')}
      BY <2>2 DEF TypeOK
    <3>4. SentInOrder'
      <4> SUFFICES ASSUME NEW i \in 1..Len(sent'), NEW j \in 1..Len(sent'), i < j
                   PROVE  sent'[i] < sent'[j]
        BY DEF SentInOrder
      <4>1. i \in 1..Len(sent)
        BY <2>2 DEF TypeOK
      <4>2. CASE j \in 1..Len(sent)
        BY <2>2, <4>1, <4>2 DEF Order, SentInOrder
      <4>3. CASE j = Len(sent')
        BY <2>2, <3>1, <4>1, <4>3
      <4> QED BY <3>3, <4>2, <4>3
    <3> QED BY <2>2, <3>1, <3>2, <3>3, <3>4 DEF Order
  <2>4. TypeOK'
    BY <1>1, <2>2 DEF TypeOK
  <2>5. Order'
    <3>1. /\ prod' \in {"put", "asleep"} => inHand' \in {<<f'>>, <<Miss>>} /\ f' < Total
          /\ prod' \notin {"put", "asleep"} => inHand' = <<>>
      BY <1>1 DEF Order
    <3>2. \A i \in Slots' : queue'[i] < f'
      BY <1>1 DEF Order, Slots
    <3>3. \A i, j \in Slots' : i < j /\ queue'[j] # Miss => queue'[i] < queue'[j]
      BY <1>1 DEF Order, Slots
    <3>4. \A i \in 1..Len(sent'), j \in Slots' : queue'[j] # Miss => sent'[i] < queue'[j]
      BY <1>1, <2>3 DEF Slots
    <3>5. \A i \in 1..Len(sent') : sent'[i] < f'
      BY <1>1, <2>3
    <3> QED BY <1>1, <2>3, <3>1, <3>2, <3>3, <3>4, <3>5 DEF Order
  <2>6. Ends'
    BY <1>1 DEF Ends
  <2> QED BY <2>4, <2>5, <2>6
<1> QED BY <1>2, <1>3

LEMMA SafeStep == SafeInv /\ [Next]_vars => SafeInv'
<1> SUFFICES ASSUME SafeInv, [Next]_vars PROVE SafeInv'
  OBVIOUS
<1> USE DEF SafeInv
<1>1. CASE Render
  <2>1. UNCHANGED <<queue, f, toSend, sent>> /\ inHand' \in {<<f>>, <<Miss>>} /\ f < Total
    BY <1>1 DEF Render, consumerVars
  <2>2. Order'
    BY <2>1, <1>1 DEF Order, SentInOrder, Slots, Render
  <2>3. missed' \subseteq Frames
    <3>1. f \in Frames /\ missed \subseteq Frames
      <4>1. f \in 0..Total
        BY DEF TypeOK
      <4>2. f < Total
        BY <2>1
      <4>3. missed \subseteq Frames
        BY Zenon DEF TypeOK
      <4> QED BY <4>1, <4>2, <4>3
    <3>2. missed' = missed \/ missed' = missed \cup {f}
      BY <1>1 DEF Render
    <3> QED BY <3>1, <3>2
  <2>4. TypeOK'
    <3>1. inHand' \in Seq(Slot) /\ Len(inHand') <= 1
      <4>1. f \in 0..Total /\ f < Total
        BY <2>1 DEF TypeOK
      <4>2. PICK x \in Slot : inHand' = <<x>>
        BY <2>1, <4>1
      <4> QED BY <4>2
    <3>2. prod' = "put" /\ UNCHANGED <<cancelled, queue, done, f, consumerVars>>
      BY <1>1 DEF Render
    <3> QED BY <2>3, <3>1, <3>2 DEF TypeOK, consumerVars
  <2> QED BY <1>1, <2>1, <2>2, <2>4 DEF Render, Ends, consumerVars
<1>2. CASE RenderedAll
  BY <1>2, StillSafe DEF RenderedAll, TypeOK, Order, Ends, consumerVars
<1>3. CASE PutCancelled
  BY <1>3, StillSafe DEF PutCancelled, TypeOK, Ends, consumerVars
<1>4. CASE PutWait
  <2>1. TypeOK'
    BY <1>4 DEF TypeOK, PutWait, consumerVars
  <2>2. Order'
    BY <1>4, StillSafe DEF PutWait, consumerVars
  <2>3. Ends'
    BY <1>4 DEF Ends, PutWait, consumerVars
  <2> QED BY <2>1, <2>2, <2>3
<1>5. CASE ProducerDone
  BY <1>5, StillSafe DEF ProducerDone, WakeConsumer, TypeOK, Order, Ends
<1>6. CASE LoopTest
  <2>1. TypeOK'
    BY <1>6 DEF TypeOK, LoopTest, producerVars
  <2>2. Order'
    BY <1>6, StillSafe DEF LoopTest, producerVars
  <2>3. Ends'
    BY <1>6 DEF Ends, LoopTest, producerVars
  <2> QED BY <2>1, <2>2, <2>3
<1>7. CASE TakeWait
  <2>1. TypeOK'
    BY <1>7 DEF TypeOK, TakeWait, producerVars
  <2>2. Order'
    BY <1>7, StillSafe DEF TakeWait, producerVars
  <2>3. Ends'
    BY <1>7 DEF Ends, TakeWait, producerVars
  <2> QED BY <2>1, <2>2, <2>3
<1>8. CASE Return
  BY <1>8, StillSafe DEF Return, TypeOK, Ends, producerVars
<1>9. CASE Join
  BY <1>9 DEF Join, TypeOK, Order, Ends, SentInOrder, Slots, producerVars
<1>10. CASE Cancel
  <2>1. TypeOK'
    BY <1>10 DEF TypeOK, Cancel, producerVars, consumerVars
  <2>2. Order'
    BY <1>10, StillSafe DEF Cancel, producerVars, consumerVars
  <2>3. Ends'
    BY <1>10 DEF Ends, Cancel, producerVars, consumerVars
  <2> QED BY <2>1, <2>2, <2>3
<1>11. CASE SpuriousWake
  <2>1. TypeOK'
    BY <1>11 DEF TypeOK, SpuriousWake, WakeConsumer, WakeProducer, consumerVars, producerVars
  <2>2. Order'
    BY <1>11, StillSafe DEF SpuriousWake, WakeConsumer, WakeProducer, consumerVars, producerVars
  <2>3. Ends'
    BY <1>11 DEF Ends, SpuriousWake, WakeConsumer, WakeProducer, consumerVars, producerVars
  <2> QED BY <2>1, <2>2, <2>3
<1>12. CASE UNCHANGED vars
  <2>1. TypeOK'
    BY <1>12 DEF TypeOK, vars
  <2>2. Order'
    BY <1>12, StillSafe DEF vars
  <2>3. Ends'
    BY <1>12 DEF Ends, vars
  <2> QED BY <2>1, <2>2, <2>3
<1> QED
  BY <1>1, <1>2, <1>3, <1>4, <1>5, <1>6, <1>7, <1>8, <1>9, <1>10, <1>11, <1>12, PutSafe, TakeSafe, EncodeSafe
     DEF Next, Producer, Consumer

LEMMA Safe == Spec => []SafeInv
BY SafeInit, SafeStep, PTL DEF Spec

\* The encoder sees the frames in timeline order and none twice
\* (exporter.cpp, the loop that takes from ready_frames).
THEOREM FramesAreSentInOrder == Spec => []SentInOrder
<1>1. SafeInv => SentInOrder
  BY DEF SafeInv, Order
<1> QED BY <1>1, Safe, PTL

\* When export_project returns, its producer is gone and no frame is out.
THEOREM NothingIsLeftBehind == Spec => []NothingLeftBehind
<1>1. SafeInv => NothingLeftBehind
  <2> SUFFICES ASSUME SafeInv, cons = "returned"
               PROVE  prod = "exited" /\ queue = <<>> /\ Lent = 0
    BY DEF NothingLeftBehind
  <2>1. prod = "exited" /\ queue = <<>> /\ inHand = <<>> /\ toSend = <<>>
    BY DEF SafeInv, Order, Ends
  <2>2. {x \in Frames : \/ inHand = <<x>> \/ toSend = <<x>>
                        \/ \E i \in 1..Len(queue) : queue[i] = x} = {}
    BY <2>1
  <2> QED BY <2>1, <2>2, FS_EmptySet DEF Lent
<1> QED BY <1>1, Safe, PTL
-----------------------------------------------------------------------------
(* An export that reports success has sent all that was made.                *)

\* Frame n was sent, waits to be, or could not be made.
Placed(n) ==
    \/ n \in missed \/ toSend = <<n>>
    \/ \E i \in 1..Len(sent) : sent[i] = n
    \/ \E i \in Slots : queue[i] = n

\* While nobody cancels, every slot counted by the producer was counted by the
\* export thread or waits for it, and a pass without a slot found the producer
\* through with all.
Counted ==
    /\ inHand = <<Miss>> => f \in missed
    /\ \A n \in 0..f - 1 : Placed(n)
    /\ prod \in {"finish", "exited"} => f = Total
    /\ \/ frame + Len(toSend) + Len(queue) = f
       \/ f = Total /\ frame >= Total /\ queue = <<>> /\ toSend = <<>>
    /\ cons = "encode" /\ toSend = <<>> => f = Total /\ queue = <<>>
    /\ ended => f = Total /\ queue = <<>> /\ toSend = <<>> /\ flushed
    /\ cons \in {"join", "trailer", "returned"} => ended

SentInv ==
    /\ SafeInv
    /\ done <=> prod = "exited"
    /\ ~cancelled => Counted
    /\ ok => cons = "returned" /\ ~cancelled

LEMMA SentInit == Init => SentInv
<1> SUFFICES ASSUME Init PROVE SentInv
  OBVIOUS
<1>1. SafeInv
  BY SafeInit
<1>2. Counted
  BY DEF Init, Counted
<1> QED BY <1>1, <1>2 DEF Init, SentInv

\* The types of what is counted.
LEMMA CountsTyped ==
    ASSUME SafeInv
    PROVE  /\ Len(sent) \in Nat /\ Len(toSend) \in Nat /\ Len(queue) \in Nat
           /\ f \in Nat /\ f <= Total /\ frame \in Nat
           /\ queue \in Seq(Slot) /\ sent \in Seq(Frames)
BY DEF SafeInv, TypeOK

\* A frame that stays where it was.
LEMMA StillPlaced ==
    ASSUME Counted, UNCHANGED <<queue, f, toSend, sent>>, missed \subseteq missed'
    PROVE  \A n \in 0..f' - 1 : Placed(n)'
<1>1. Slots' = Slots
  BY DEF Slots
<1> QED BY <1>1 DEF Counted, Placed

\* Rendering the next frame, or missing it.
LEMMA RenderCounted ==
    ASSUME SafeInv, Counted, Render
    PROVE  Counted'
<1>1. /\ UNCHANGED <<queue, f, toSend, sent, frame, cons, ended, flushed>>
      /\ missed \subseteq missed' /\ prod' = "put" /\ f < Total /\ f \in Nat
      /\ inHand' = <<f>> \/ (inHand' = <<Miss>> /\ f \in missed')
  BY CountsTyped DEF Render, consumerVars
<1>2. inHand' = <<Miss>> => f' \in missed'
  BY <1>1
<1>3. \A n \in 0..f' - 1 : Placed(n)'
  BY <1>1, StillPlaced
<1> QED BY <1>1, <1>2, <1>3 DEF Counted

\* The producer counts the frame it puts, whether it could be made or not.
LEMMA PutCounted ==
    ASSUME SafeInv, Counted, Put
    PROVE  Counted'
<1>1. PICK x \in Slot : inHand = <<x>> /\ (x = f \/ x = Miss) /\ f < Total
  BY DEF Put, SafeInv, Order, TypeOK
<1>2. /\ Len(queue') = Len(queue) + 1 /\ queue'[Len(queue) + 1] = x
      /\ \A i \in Slots : queue'[i] = queue[i]
      /\ Slots' = Slots \cup {Len(queue) + 1}
  BY <1>1 DEF Put, SafeInv, TypeOK, Slots
<1>3. /\ UNCHANGED <<missed, sent, toSend, frame, ended, flushed>>
      /\ f' = f + 1 /\ prod' = "render" /\ inHand' = <<>>
      /\ cons' \notin {"encode", "join", "trailer", "returned"} \/ cons' = cons
  BY DEF Put, WakeConsumer
<1>4. ASSUME NEW n \in 0..f' - 1 PROVE Placed(n)'
  <2>1. CASE n \in 0..f - 1
    <3>1. Placed(n)
      BY <2>1 DEF Counted
    <3>2. (\E i \in Slots : queue[i] = n) => \E i \in Slots' : queue'[i] = n
      BY <1>2
    <3> QED BY <1>3, <3>1, <3>2 DEF Placed
  <2>2. CASE n = f
    <3>1. CASE x = f
      <4>1. Len(queue) + 1 \in Slots' /\ queue'[Len(queue) + 1] = n
        BY <1>2, <2>2, <3>1
      <4> QED BY <4>1 DEF Placed
    <3>2. CASE x = Miss
      BY <1>1, <1>3, <2>2, <3>2 DEF Counted, Placed
    <3> QED BY <1>1, <3>1, <3>2
  <2>3. n \in 0..f - 1 \/ n = f
    BY <1>3, CountsTyped
  <2> QED BY <2>1, <2>2, <2>3
<1>5. inHand' # <<Miss>>
  BY <1>3
<1>6. frame' + Len(toSend') + Len(queue') = f'
  BY <1>1, <1>2, <1>3, CountsTyped DEF Counted
<1>7. f # Total /\ ~ended
  BY <1>1, CountsTyped DEF Counted
<1>8. cons' = "encode" /\ toSend' = <<>> => f' = Total /\ queue' = <<>>
  BY <1>3, <1>7 DEF Counted
<1>9. cons' \notin {"join", "trailer", "returned"}
  BY <1>3, <1>7 DEF Counted
<1> QED BY <1>3, <1>4, <1>5, <1>6, <1>7, <1>8, <1>9 DEF Counted

\* Taking a slot: none is there only when the producer is through.
LEMMA TakeCounted ==
    ASSUME SafeInv, Counted, ~cancelled, done <=> prod = "exited", Take
    PROVE  Counted'
<1>1. toSend = <<>> /\ Len(toSend) = 0
  BY DEF Take, SafeInv, Ends
<1>2. /\ UNCHANGED <<missed, sent, frame, ended, flushed, f, inHand>>
      /\ cons' = "encode" /\ cons = "take"
      /\ prod' \in {"finish", "exited"} => prod \in {"finish", "exited"}
  BY DEF Take, WakeProducer
<1>3. CASE queue = <<>>
  <2>1. done /\ queue' = <<>> /\ toSend' = <<>> /\ Slots' = Slots
    BY <1>3 DEF Take, Slots
  <2>2. f = Total
    BY <2>1 DEF Counted
  <2>3. \A n \in 0..f' - 1 : Placed(n)'
    BY <1>1, <1>2, <1>3, <2>1 DEF Counted, Placed
  <2> QED BY <1>1, <1>2, <1>3, <2>1, <2>2, <2>3 DEF Counted
<1>4. CASE queue # <<>>
  <2>1. /\ toSend' = <<queue[1]>> /\ Len(toSend') = 1 /\ Len(queue') = Len(queue) - 1
        /\ \A i \in Slots : i = 1 \/ (i - 1 \in Slots' /\ queue'[i - 1] = queue[i])
    BY <1>4, CountsTyped DEF Take, Slots
  <2>2. ASSUME NEW n \in 0..f' - 1 PROVE Placed(n)'
    <3>1. Placed(n)
      BY <1>2 DEF Counted
    <3>2. (\E i \in Slots : queue[i] = n) => toSend' = <<n>> \/ \E i \in Slots' : queue'[i] = n
      BY <2>1
    <3> QED BY <1>1, <1>2, <3>1, <3>2 DEF Placed
  <2>3. frame' + Len(toSend') + Len(queue') = f'
    BY <1>1, <1>2, <1>4, <2>1, CountsTyped DEF Counted
  <2>4. toSend' # <<>> /\ ~ended
    BY <1>4, <2>1 DEF Counted
  <2> QED BY <1>2, <2>2, <2>3, <2>4 DEF Counted
<1> QED BY <1>3, <1>4

\* A pass of the export thread: it sends the frame it took, or has none left.
LEMMA EncodeCounted ==
    ASSUME SafeInv, Counted, Encode
    PROVE  Counted'
<1>1. /\ UNCHANGED <<queue, f, prod, inHand, missed>>
      /\ cons = "encode" /\ cons' = "loop" /\ toSend' = <<>> /\ Len(toSend') = 0
      /\ frame' = frame + 1
      /\ ended' => frame' >= Total /\ flushed'
  BY DEF Encode, producerVars
<1>2. Slots' = Slots
  BY <1>1 DEF Slots
<1>3. toSend = <<>> \/ \E x \in Slot : toSend = <<x>>
  BY DEF SafeInv, Order
<1>4. \/ frame' + Len(toSend') + Len(queue') = f'
      \/ f' = Total /\ frame' >= Total /\ queue' = <<>> /\ toSend' = <<>>
  <2>1. CASE toSend = <<>>
    <3>1. f = Total /\ queue = <<>> /\ Len(queue) = 0 /\ Len(toSend) = 0
      BY <1>1, <2>1 DEF Counted
    <3>2. frame >= Total
      BY <3>1, CountsTyped DEF Counted
    <3> QED BY <1>1, <3>1, <3>2, CountsTyped
  <2>2. CASE toSend # <<>>
    <3>1. Len(toSend) = 1 /\ frame + Len(toSend) + Len(queue) = f
      BY <1>3, <2>2 DEF Counted
    <3> QED BY <1>1, <3>1, CountsTyped
  <2> QED BY <2>1, <2>2
<1>5. ASSUME NEW n \in 0..f' - 1 PROVE Placed(n)'
  <2>1. Placed(n) /\ n # Miss
    BY <1>1 DEF Counted
  <2>2. CASE toSend \in {<<>>, <<Miss>>}
    <3>1. sent' = sent
      BY <2>2 DEF Encode
    <3>2. toSend # <<n>>
      <4> SUFFICES ASSUME toSend = <<n>> PROVE FALSE
        OBVIOUS
      <4>1. toSend # <<>> /\ toSend[1] = n
        OBVIOUS
      <4>2. toSend = <<Miss>> => toSend[1] = Miss
        OBVIOUS
      <4> QED BY <2>1, <2>2, <4>1, <4>2
    <3> QED BY <1>1, <1>2, <2>1, <3>1, <3>2 DEF Placed
  <2>3. CASE toSend \notin {<<>>, <<Miss>>}
    <3>1. PICK x \in Frames : toSend = <<x>>
      BY <1>3, <2>3
    <3>2. /\ Len(sent') = Len(sent) + 1 /\ sent'[Len(sent) + 1] = x
          /\ \A i \in 1..Len(sent) : sent'[i] = sent[i] /\ i \in 1..Len(sent')
          /\ Len(sent) + 1 \in 1..Len(sent')
      BY <2>3, <3>1, CountsTyped DEF Encode
    <3>3. toSend = <<n>> => n = x
      BY <3>1
    <3> QED BY <1>1, <1>2, <2>1, <3>2, <3>3 DEF Placed
  <2> QED BY <2>2, <2>3
<1>6. ended' => f' = Total /\ queue' = <<>>
  BY <1>1, <1>4, CountsTyped
<1> QED BY <1>1, <1>4, <1>5, <1>6 DEF Counted

LEMMA SentStep == SentInv /\ [Next]_vars => SentInv'
<1> SUFFICES ASSUME SentInv, [Next]_vars PROVE SentInv'
  OBVIOUS
<1>0. SafeInv /\ (done <=> prod = "exited")
  BY DEF SentInv
<1>1. SafeInv'
  BY <1>0, SafeStep
<1>2. (done <=> prod = "exited")'
  BY <1>0 DEF Next, vars, Producer, Consumer, Render, RenderedAll, PutCancelled, Put, PutWait,
     ProducerDone, LoopTest, Take, TakeWait, Encode, Join, Return, Cancel, SpuriousWake,
     WakeConsumer, WakeProducer, producerVars, consumerVars
<1>3. (ok => cons = "returned" /\ ~cancelled)'
  <2>1. ok => cons = "returned" /\ ~cancelled
    BY DEF SentInv
  <2> QED
    BY <2>1 DEF Next, vars, Producer, Consumer, Render, RenderedAll, PutCancelled, Put, PutWait,
       ProducerDone, LoopTest, Take, TakeWait, Encode, Join, Return, Cancel, SpuriousWake,
       WakeConsumer, WakeProducer, producerVars, consumerVars
<1>4. ASSUME ~cancelled' PROVE Counted'
  <2>1. ~cancelled
    BY <1>4 DEF Next, vars, Producer, Consumer, Render, RenderedAll, PutCancelled, Put, PutWait,
       ProducerDone, LoopTest, Take, TakeWait, Encode, Join, Return, Cancel, SpuriousWake,
       producerVars, consumerVars
  <2>2. Counted
    BY <2>1 DEF SentInv
  <2>3. CASE Render
    BY <1>0, <2>2, <2>3, RenderCounted
  <2>4. CASE Put
    BY <1>0, <2>2, <2>4, PutCounted
  <2>5. CASE Take
    BY <1>0, <2>1, <2>2, <2>5, TakeCounted
  <2>6. CASE Encode
    BY <1>0, <2>2, <2>6, EncodeCounted
  <2>7. CASE RenderedAll \/ ProducerDone \/ LoopTest \/ PutWait \/ TakeWait \/ SpuriousWake
               \/ Return \/ UNCHANGED vars
    <3>1. /\ UNCHANGED <<queue, f, inHand, missed, toSend, sent, frame, ended, flushed>>
          /\ cons' = "encode" => cons = "encode"
          /\ cons' \in {"join", "trailer", "returned"} =>
                cons \in {"join", "trailer", "returned"} \/ ended \/ cancelled
          /\ prod' \in {"finish", "exited"} => prod \in {"finish", "exited"} \/ f = Total
      BY <2>7 DEF RenderedAll, ProducerDone, LoopTest, PutWait, TakeWait, SpuriousWake, Return,
         vars, WakeConsumer, WakeProducer, producerVars, consumerVars
    <3>2. \A n \in 0..f' - 1 : Placed(n)'
      BY <2>2, <3>1, StillPlaced
    <3> QED BY <2>1, <2>2, <3>1, <3>2 DEF Counted
  <2>8. CASE Join
    <3>1. queue = <<>> /\ UNCHANGED <<queue, f, inHand, missed, prod, toSend, sent, frame, ended, flushed>>
          /\ cons = "join" /\ cons' = "trailer"
      BY <2>2, <2>8 DEF Join, Counted, producerVars
    <3>2. \A n \in 0..f' - 1 : Placed(n)'
      BY <2>2, <3>1, StillPlaced
    <3> QED BY <2>2, <3>1, <3>2 DEF Counted
  <2>9. ~PutCancelled /\ ~Cancel
    BY <1>4, <2>1 DEF PutCancelled, Cancel
  <2> QED BY <2>3, <2>4, <2>5, <2>6, <2>7, <2>8, <2>9 DEF Next, Producer, Consumer
<1> QED BY <1>1, <1>2, <1>3, <1>4 DEF SentInv

\* What is counted at the end is all there was to send.
LEMMA AllSent ==
    ASSUME SafeInv, Counted, ended
    PROVE  flushed /\ Frames = missed \cup {sent[i] : i \in 1..Len(sent)}
<1>1. f = Total /\ Slots = {} /\ toSend = <<>> /\ flushed
  BY DEF Counted, Slots
<1>2. missed \subseteq Frames /\ \A i \in 1..Len(sent) : sent[i] \in Frames
  BY DEF SafeInv, TypeOK
<1>3. \A n \in Frames : n \in missed \/ \E i \in 1..Len(sent) : sent[i] = n
  BY <1>1 DEF Counted, Placed
<1> QED BY <1>1, <1>2, <1>3

\* An export that reports success has sent every frame that could be made, and
\* flushed (exporter.cpp: ended, the join, and the return after the trailer).
THEOREM AllMadeIsSent == Spec => []MadeIsSent
<1>1. SentInv => MadeIsSent
  BY AllSent DEF SentInv, Counted, MadeIsSent
<1> QED BY <1>1, SentInit, SentStep, PTL DEF Spec
-----------------------------------------------------------------------------
(* A whole call.                                                             *)

Ended == {"returned", "failed"}

\* Nothing was encoded and no producer was started.
AtStart ==
    /\ cancelled \in BOOLEAN /\ queue = <<>> /\ done = FALSE
    /\ prod = "exited" /\ f = 0 /\ inHand = <<>> /\ missed = {}
    /\ cons = "loop" /\ frame = 0 /\ toSend = <<>> /\ audio \in 0..AudioChunks
    /\ ended = FALSE /\ sent = <<>> /\ flushed = FALSE /\ ok = FALSE

\* There is no producer.
NoThreads == prod = "exited" /\ queue = <<>> /\ inHand = <<>> /\ toSend = <<>>

\* The loop without threads has sent or missed the frames it counted, in order.
AloneInv ==
    /\ TypeOK /\ NoThreads /\ ok = FALSE
    /\ cons \in {"loop", "encode", "trailer"}
    /\ SentInOrder
    /\ \A i \in 1..Len(sent) : sent[i] < frame
    /\ \A n \in Frames : n < frame => n \in missed \/ \E i \in 1..Len(sent) : sent[i] = n
    /\ ended => frame >= Total /\ flushed
    /\ cons = "trailer" => ended \/ cancelled

\* The call has returned.
OverInv == TypeOK /\ NoThreads /\ cons = "returned" /\ SentInOrder

\* What may be held before each step.
HeldInv ==
    /\ held \subseteq Resources
    /\ stage = "output" => held = {}
    /\ stage = "codec" => held \subseteq {"oc"}
    /\ stage = "pool" => held \subseteq {"oc", "vctx"}
    /\ stage \in {"encoder", "stream", "audio"} =>
          held \subseteq {"oc", "vctx", "device", "pool"}
    /\ stage = "file" => held \subseteq {"oc", "vctx", "device", "pool", "actx"}
    /\ stage \in {"header", "converter"} =>
          held \subseteq {"oc", "vctx", "device", "pool", "actx", "pb"}
    /\ stage = "session" => "a_src" \notin held
    /\ Released

CallInv ==
    /\ settings \in Settings
    /\ stage \in SetUpStages \cup {"threads", "alone"} \cup Ended
    /\ HeldInv
    /\ stage \in SetUpStages => AtStart
    /\ stage = "threads" => SafeInv /\ cons # "returned"
    /\ stage = "alone" => AloneInv
    /\ stage \in Ended => OverInv

LEMMA CallInit == ProjectInit => CallInv
<1> SUFFICES ASSUME ProjectInit PROVE CallInv
  OBVIOUS
<1>1. stage = "output" /\ held = {} /\ settings \in Settings
  BY DEF ProjectInit
<1>2. audio \in 0..AudioChunks
  BY DEF ProjectInit
<1>3. AtStart
  BY <1>2 DEF ProjectInit, AtStart
<1>4. HeldInv
  BY <1>1 DEF HeldInv, Resources, Released
<1> QED BY <1>1, <1>3, <1>4 DEF CallInv, SetUpStages, Ended

\* Nothing encoded yet is right for any of the branches.
LEMMA StartIsTyped == AtStart => TypeOK /\ SentInOrder
<1> SUFFICES ASSUME AtStart PROVE TypeOK /\ SentInOrder
  OBVIOUS
<1>1. /\ queue \in Seq(Slot) /\ Len(queue) <= Depth
      /\ inHand \in Seq(Slot) /\ Len(inHand) <= 1
      /\ toSend \in Seq(Slot) /\ Len(toSend) <= 1
      /\ sent \in Seq(Frames) /\ Len(sent) = 0
  BY DEF AtStart
<1>2. f \in 0..Total /\ frame \in Nat
  BY DEF AtStart
<1>3. TypeOK
  BY <1>1, <1>2 DEF AtStart, TypeOK
<1>4. SentInOrder
  BY <1>1 DEF SentInOrder
<1> QED BY <1>3, <1>4

\* A step of setting up that succeeds changes only what is held.
LEMMA ProceedKeeps ==
    ASSUME CallInv, stage \in SetUpStages, NEW next \in SetUpStages, NEW more,
           Proceed(next, more), HeldInv'
    PROVE  CallInv'
<1>1. AtStart /\ stage' = next /\ UNCHANGED <<vars, settings>>
  BY DEF CallInv, Proceed
<1>2. AtStart'
  BY <1>1 DEF AtStart, vars
<1> QED BY <1>1, <1>2 DEF CallInv, SetUpStages, Ended

\* A step of setting up that fails ends the call.
LEMMA GiveUpKeeps ==
    ASSUME CallInv, stage \in SetUpStages, NEW freed, GiveUp(freed),
           held' \subseteq {"device", "pool"}
    PROVE  CallInv'
<1>1. AtStart
  BY DEF CallInv
<1>2. /\ stage' = "failed" /\ cons' = "returned" /\ settings' = settings
      /\ UNCHANGED <<cancelled, queue, done, prod, f, inHand, missed, frame, toSend, audio,
                     ended, sent, flushed, ok>>
  BY DEF GiveUp, producerVars
<1>3. TypeOK /\ SentInOrder
  BY <1>1, StartIsTyped
<1>4. TypeOK'
  BY <1>2, <1>3 DEF TypeOK
<1>5. SentInOrder'
  BY <1>2, <1>3 DEF SentInOrder
<1>6. OverInv'
  BY <1>1, <1>2, <1>4, <1>5 DEF AtStart, OverInv, NoThreads
<1>7. HeldInv'
  BY <1>2 DEF HeldInv, Released, Resources
<1> QED BY <1>2, <1>6, <1>7 DEF CallInv, SetUpStages, Ended

LEMMA SetUpKeeps ==
    ASSUME CallInv, SetUp, ~Begin
    PROVE  CallInv'
<1> USE DEF SetUpStages
<1>0. HeldInv
  BY DEF CallInv
<1>1. CASE OpenOutput
  <2>1. CASE Proceed("codec", {"oc"})
    <3>1. HeldInv'
      BY <1>0, <1>1, <2>1 DEF OpenOutput, Proceed, HeldInv, Resources, Released
    <3> QED BY <1>1, <2>1, <3>1, ProceedKeeps DEF OpenOutput
  <2>2. CASE GiveUp({})
    <3>1. held' \subseteq {"device", "pool"}
      BY <1>0, <1>1, <2>2 DEF OpenOutput, GiveUp, HeldInv
    <3> QED BY <1>1, <2>2, <3>1, GiveUpKeeps DEF OpenOutput
  <2> QED BY <1>1, <2>1, <2>2 DEF OpenOutput
<1>2. CASE FindEncoder
  <2>1. CASE Proceed("pool", {"vctx"})
    <3>1. HeldInv'
      BY <1>0, <1>2, <2>1 DEF FindEncoder, Proceed, HeldInv, Resources, Released
    <3> QED BY <1>2, <2>1, <3>1, ProceedKeeps DEF FindEncoder
  <2>2. CASE GiveUp({"oc"})
    <3>1. held' \subseteq {"device", "pool"}
      BY <1>0, <1>2, <2>2 DEF FindEncoder, GiveUp, HeldInv
    <3> QED BY <1>2, <2>2, <3>1, GiveUpKeeps DEF FindEncoder
  <2> QED BY <1>2, <2>1, <2>2 DEF FindEncoder
<1>3. CASE CreatePool
  <2>1. PICK got \in SUBSET {"device", "pool"} : Proceed("encoder", got) /\ stage = "pool"
    <3>1. \A got \in IF settings.gpu THEN {{}, {"device"}, {"device", "pool"}} ELSE {{}} :
              got \in SUBSET {"device", "pool"}
      OBVIOUS
    <3> QED BY <1>3, <3>1 DEF CreatePool
  <2>2. HeldInv'
    BY <1>0, <2>1 DEF Proceed, HeldInv, Resources, Released
  <2> QED BY <2>1, <2>2, ProceedKeeps
<1>4. CASE OpenEncoder
  <2>1. CASE Proceed("stream", {})
    <3>1. HeldInv'
      BY <1>0, <1>4, <2>1 DEF OpenEncoder, Proceed, HeldInv, Resources, Released
    <3> QED BY <1>4, <2>1, <3>1, ProceedKeeps DEF OpenEncoder
  <2>2. CASE GiveUp({"pool", "device", "vctx", "oc"})
    <3>1. held' \subseteq {"device", "pool"}
      BY <1>0, <1>4, <2>2 DEF OpenEncoder, GiveUp, HeldInv
    <3> QED BY <1>4, <2>2, <3>1, GiveUpKeeps DEF OpenEncoder
  <2> QED BY <1>4, <2>1, <2>2 DEF OpenEncoder
<1>5. CASE AddStream
  <2>1. CASE Proceed("audio", {})
    <3>1. HeldInv'
      BY <1>0, <1>5, <2>1 DEF AddStream, Proceed, HeldInv, Resources, Released
    <3> QED BY <1>5, <2>1, <3>1, ProceedKeeps DEF AddStream
  <2>2. CASE GiveUp({"vctx", "oc"})
    <3>1. held' \subseteq {"device", "pool"}
      BY <1>0, <1>5, <2>2 DEF AddStream, GiveUp, HeldInv
    <3> QED BY <1>5, <2>2, <3>1, GiveUpKeeps DEF AddStream
  <2> QED BY <1>5, <2>1, <2>2 DEF AddStream
<1>6. CASE OpenAudio
  <2>1. ASSUME NEW got \in SUBSET {"actx"}, Proceed("file", got) PROVE CallInv'
    <3>1. HeldInv'
      BY <1>0, <1>6, <2>1 DEF OpenAudio, Proceed, HeldInv, Resources, Released
    <3> QED BY <1>6, <2>1, <3>1, ProceedKeeps DEF OpenAudio
  <2>2. CASE GiveUp({"vctx", "oc"})
    <3>1. held' \subseteq {"device", "pool"}
      BY <1>0, <1>6, <2>2 DEF OpenAudio, GiveUp, HeldInv
    <3> QED BY <1>6, <2>2, <3>1, GiveUpKeeps DEF OpenAudio
  <2>3. (IF settings.sound THEN {"actx"} ELSE {}) \in SUBSET {"actx"}
    OBVIOUS
  <2> QED BY <1>6, <2>1, <2>2, <2>3 DEF OpenAudio
<1>7. CASE OpenFile
  <2>1. ASSUME NEW got \in SUBSET {"pb"}, Proceed("header", got) PROVE CallInv'
    <3>1. HeldInv'
      BY <1>0, <1>7, <2>1 DEF OpenFile, Proceed, HeldInv, Resources, Released
    <3> QED BY <1>7, <2>1, <3>1, ProceedKeeps DEF OpenFile
  <2>2. CASE GiveUp({"actx", "vctx", "oc"})
    <3>1. held' \subseteq {"device", "pool"}
      BY <1>0, <1>7, <2>2 DEF OpenFile, GiveUp, HeldInv
    <3> QED BY <1>7, <2>2, <3>1, GiveUpKeeps DEF OpenFile
  <2>3. (IF settings.file THEN {"pb"} ELSE {}) \in SUBSET {"pb"}
    OBVIOUS
  <2> QED BY <1>7, <2>1, <2>2, <2>3 DEF OpenFile
<1>8. CASE WriteHeader
  <2>1. CASE Proceed("converter", {})
    <3>1. HeldInv'
      BY <1>0, <1>8, <2>1 DEF WriteHeader, Proceed, HeldInv, Resources, Released
    <3> QED BY <1>8, <2>1, <3>1, ProceedKeeps DEF WriteHeader
  <2>2. CASE GiveUp({"actx", "vctx", "pb", "oc"})
    <3>1. held' \subseteq {"device", "pool"}
      BY <1>0, <1>8, <2>2 DEF WriteHeader, GiveUp, HeldInv
    <3> QED BY <1>8, <2>2, <3>1, GiveUpKeeps DEF WriteHeader
  <2> QED BY <1>8, <2>1, <2>2 DEF WriteHeader
<1>9. CASE InitConverters
  <2>1. CASE Proceed("session", {"converter"})
    <3>1. HeldInv'
      BY <1>0, <1>9, <2>1 DEF InitConverters, Proceed, HeldInv, Resources, Released
    <3> QED BY <1>9, <2>1, <3>1, ProceedKeeps DEF InitConverters
  <2>2. CASE GiveUp({"actx", "vctx", "pb", "oc"})
    <3>1. held' \subseteq {"device", "pool"}
      BY <1>0, <1>9, <2>2 DEF InitConverters, GiveUp, HeldInv
    <3> QED BY <1>9, <2>2, <3>1, GiveUpKeeps DEF InitConverters
  <2> QED BY <1>9, <2>1, <2>2 DEF InitConverters
<1> QED BY <1>1, <1>2, <1>3, <1>4, <1>5, <1>6, <1>7, <1>8, <1>9 DEF SetUp

\* The call takes one of its branches.
LEMMA BeginKeeps ==
    ASSUME CallInv, Begin
    PROVE  CallInv'
<1>1. AtStart /\ HeldInv /\ settings' = settings
  BY DEF CallInv, Begin, SetUpStages
<1>2. /\ UNCHANGED <<cancelled, queue, done, f, inHand, missed, cons, frame, toSend, audio,
                     ended, sent, flushed, ok>>
      /\ \/ stage' = "threads" /\ prod' = "render"
         \/ stage' = "alone" /\ prod' = prod
      /\ held' \subseteq held \cup {"a_src"}
  BY DEF Begin, consumerVars
<1>3. TypeOK /\ SentInOrder
  BY <1>1, StartIsTyped
<1>4. TypeOK'
  BY <1>2, <1>3 DEF TypeOK
<1>5. HeldInv'
  BY <1>1, <1>2 DEF HeldInv, Released, Resources
<1>6. CASE stage' = "threads"
  <2>1. Slots' = {}
    BY <1>1, <1>2 DEF AtStart, Slots
  <2>2. /\ Len(sent') = 0 /\ toSend' = <<>> /\ inHand' = <<>> /\ prod' = "render"
        /\ cons' = "loop"
    BY <1>1, <1>2, <1>6 DEF AtStart
  <2>3. Order'
    BY <2>1, <2>2 DEF Order, SentInOrder
  <2>4. Ends'
    BY <2>2 DEF Ends
  <2>5. SafeInv'
    BY <1>4, <2>3, <2>4 DEF SafeInv
  <2> QED BY <1>1, <1>5, <1>6, <2>2, <2>5 DEF CallInv, SetUpStages, Ended
<1>7. CASE stage' = "alone"
  <2>1. /\ Len(sent') = 0 /\ NoThreads' /\ cons' = "loop" /\ frame' = 0
        /\ ended' = FALSE /\ ok' = FALSE
    BY <1>1, <1>2, <1>7 DEF AtStart, NoThreads
  <2>2. AloneInv'
    <3>1. SentInOrder'
      BY <2>1 DEF SentInOrder
    <3>2. \A n \in Frames : ~(n < frame')
      BY <2>1
    <3> QED BY <1>4, <2>1, <3>1, <3>2 DEF AloneInv
  <2> QED BY <1>1, <1>5, <1>7, <2>2 DEF CallInv, SetUpStages, Ended
<1> QED BY <1>2, <1>6, <1>7

\* Steps that neither open nor close.
LEMMA HeldStays ==
    ASSUME HeldInv, stage' = stage, held' = held
    PROVE  HeldInv'
BY DEF HeldInv, Released

\* The loop without threads keeps its count and the order of the frames.
LEMMA AlonePassKeeps ==
    ASSUME AloneInv, AlonePass
    PROVE  AloneInv'
<1> USE DEF AloneInv
<1>1. /\ UNCHANGED <<cancelled, queue, done, prod, f, inHand, toSend, ok>>
      /\ frame' = frame + 1 /\ frame \in Nat /\ cons' = "loop"
      /\ audio' \in 0..AudioChunks /\ ended' \in BOOLEAN /\ flushed' \in BOOLEAN
      /\ ended' => flushed' /\ frame' >= Total
  BY DEF AlonePass, TypeOK
<1>2. NoThreads'
  BY <1>1 DEF NoThreads
<1>3. Len(sent) \in Nat /\ \A i \in 1..Len(sent) : sent[i] \in Nat
  BY DEF TypeOK
<1>4. CASE frame < Total /\ sent' = Append(sent, frame) /\ missed' = missed
  <2>1. /\ sent' \in Seq(Frames) /\ Len(sent') = Len(sent) + 1
        /\ sent'[Len(sent) + 1] = frame
        /\ \A i \in 1..Len(sent) : sent'[i] = sent[i] /\ i \in 1..Len(sent')
        /\ 1..Len(sent') = (1..Len(sent)) \cup {Len(sent) + 1}
    BY <1>1, <1>4 DEF TypeOK
  <2>2. TypeOK'
    BY <1>1, <1>4, <2>1 DEF TypeOK
  <2>3. SentInOrder'
    <3> SUFFICES ASSUME NEW i \in 1..Len(sent'), NEW j \in 1..Len(sent'), i < j
                 PROVE  sent'[i] < sent'[j]
      BY DEF SentInOrder
    <3>1. i \in 1..Len(sent)
      BY <1>3, <2>1
    <3>2. CASE j \in 1..Len(sent)
      BY <2>1, <3>1, <3>2 DEF SentInOrder
    <3>3. CASE j = Len(sent) + 1
      BY <2>1, <3>1, <3>3
    <3> QED BY <2>1, <3>2, <3>3
  <2>4. \A i \in 1..Len(sent') : sent'[i] < frame'
    <3> SUFFICES ASSUME NEW i \in 1..Len(sent') PROVE sent'[i] < frame'
      OBVIOUS
    <3>1. CASE i \in 1..Len(sent)
      <4>1. sent[i] < frame /\ sent[i] \in Nat /\ sent'[i] = sent[i]
        BY <1>3, <2>1, <3>1
      <4> QED BY <1>1, <4>1
    <3>2. CASE i = Len(sent) + 1
      BY <1>1, <2>1, <3>2
    <3> QED BY <2>1, <3>1, <3>2
  <2>5. \A n \in Frames : n < frame' => n \in missed' \/ \E i \in 1..Len(sent') : sent'[i] = n
    <3> SUFFICES ASSUME NEW n \in Frames, n < frame'
                 PROVE  n \in missed' \/ \E i \in 1..Len(sent') : sent'[i] = n
      OBVIOUS
    <3>1. CASE n = frame
      BY <2>1, <3>1
    <3>2. CASE n < frame
      BY <1>4, <2>1, <3>2
    <3> QED BY <1>1, <3>1, <3>2
  <2> QED BY <1>1, <1>2, <2>2, <2>3, <2>4, <2>5
<1>5. CASE sent' = sent /\ missed' \subseteq Frames /\ missed \subseteq missed'
            /\ (frame < Total => frame \in missed')
  <2>1. TypeOK' /\ SentInOrder'
    BY <1>1, <1>5 DEF TypeOK, SentInOrder
  <2>2. \A i \in 1..Len(sent') : sent'[i] < frame'
    BY <1>1, <1>3, <1>5
  <2>3. \A n \in Frames : n < frame' => n \in missed' \/ \E i \in 1..Len(sent') : sent'[i] = n
    <3> SUFFICES ASSUME NEW n \in Frames, n < frame'
                 PROVE  n \in missed' \/ \E i \in 1..Len(sent') : sent'[i] = n
      OBVIOUS
    <3>1. CASE n = frame
      BY <1>5, <3>1
    <3>2. CASE n < frame
      BY <1>5, <3>2
    <3> QED BY <1>1, <3>1, <3>2
  <2> QED BY <1>1, <1>2, <2>1, <2>2, <2>3
<1>6. missed \subseteq Frames /\ (frame < Total => frame \in Frames)
  BY <1>1 DEF TypeOK
<1>7. CASE frame < Total /\ missed' = missed \cup {frame} /\ sent' = sent
  <2>1. missed' \subseteq Frames /\ missed \subseteq missed' /\ frame \in missed'
    BY <1>6, <1>7
  <2> HIDE DEF AloneInv
  <2> QED BY <1>5, <1>7, <2>1
<1>8. CASE frame >= Total /\ UNCHANGED <<sent, missed>>
  <2>1. ~(frame < Total)
    BY <1>1, <1>8
  <2> HIDE DEF AloneInv
  <2> QED BY <1>5, <1>6, <1>8, <2>1
<1>9. \/ frame < Total /\ sent' = Append(sent, frame) /\ missed' = missed
      \/ frame < Total /\ missed' = missed \cup {frame} /\ sent' = sent
      \/ frame >= Total /\ UNCHANGED <<sent, missed>>
  BY DEF AlonePass
<1> HIDE DEF AloneInv
<1> QED BY <1>4, <1>7, <1>8, <1>9

\* A call that closes everything is over.
LEMMA FinishKeeps ==
    ASSUME CallInv, Finish
    PROVE  CallInv'
<1>1. /\ cons = "trailer" /\ cons' = "returned" /\ stage' = "returned"
      /\ settings' = settings /\ ok' = ~cancelled
      /\ UNCHANGED <<cancelled, queue, done, prod, f, inHand, missed, frame, toSend, audio,
                     ended, sent, flushed>>
  BY DEF Finish, Return, producerVars
<1>2. held \subseteq Resources /\ settings \in Settings
  BY DEF CallInv, HeldInv
<1>3. HeldInv'
  BY <1>1, <1>2 DEF Finish, HeldInv, Released, Resources
<1>4. TypeOK /\ NoThreads /\ SentInOrder
  <2>1. CASE stage = "threads"
    BY <1>1, <2>1 DEF CallInv, SafeInv, Order, Ends, NoThreads
  <2>2. CASE stage = "alone"
    <3>1. AloneInv
      BY <2>2 DEF CallInv
    <3>2. SentInOrder
      BY <3>1 DEF AloneInv, SentInOrder
    <3> QED BY <3>1, <3>2 DEF AloneInv
  <2> QED BY <2>1, <2>2 DEF Finish
<1>5. TypeOK'
  BY <1>1, <1>4 DEF TypeOK
<1>6. OverInv'
  BY <1>1, <1>4, <1>5 DEF OverInv, NoThreads, SentInOrder
<1> QED BY <1>1, <1>2, <1>3, <1>6 DEF CallInv, SetUpStages, Ended

LEMMA CallStep == CallInv /\ [ProjectNext]_projectVars => CallInv'
<1> SUFFICES ASSUME CallInv, [ProjectNext]_projectVars PROVE CallInv'
  OBVIOUS
<1>0. HeldInv
  BY DEF CallInv
<1>1. CASE SetUp
  BY <1>1, SetUpKeeps, BeginKeeps
<1>2. CASE Finish
  BY <1>2, FinishKeeps
<1>3. CASE WithThreads(LoopTest \/ Take \/ TakeWait \/ Encode \/ Join) \/ WithThreads(Producer)
             \/ WithThreads(SpuriousWake)
  <2>1. stage = "threads" /\ UNCHANGED <<settings, stage, held>> /\ SafeInv /\ Next
    BY <1>3 DEF WithThreads, CallInv, Next, Consumer
  <2>2. SafeInv'
    BY <2>1, SafeStep
  <2>3. cons' # "returned"
    BY <1>3, <2>1 DEF CallInv, WithThreads, LoopTest, Take, TakeWait, Encode, Join, Producer,
       Render, RenderedAll, PutCancelled, Put, PutWait, ProducerDone, SpuriousWake,
       WakeConsumer, WakeProducer, consumerVars
  <2> QED BY <1>0, <2>1, <2>2, <2>3, HeldStays DEF CallInv, SetUpStages, Ended
<1>4. CASE AloneTest
  <2>1. /\ stage = "alone" /\ UNCHANGED <<settings, stage, held>> /\ AloneInv
        /\ UNCHANGED <<cancelled, queue, done, prod, f, inHand, missed, frame, toSend, audio,
                       ended, sent, flushed, ok>>
        /\ cons' \in {"trailer", "encode"} /\ (cons' = "trailer" => ended \/ cancelled)
    BY <1>4 DEF AloneTest, CallInv, producerVars
  <2>2. TypeOK'
    BY <2>1 DEF AloneInv, TypeOK
  <2>3. AloneInv'
    BY <2>1, <2>2 DEF AloneInv, NoThreads, SentInOrder
  <2> QED BY <1>0, <2>1, <2>3, HeldStays DEF CallInv, SetUpStages, Ended
<1>5. CASE AlonePass
  <2>1. stage = "alone" /\ UNCHANGED <<settings, stage, held>> /\ AloneInv
    BY <1>5 DEF AlonePass, CallInv
  <2>2. AloneInv'
    BY <1>5, <2>1, AlonePassKeeps
  <2> QED BY <1>0, <2>1, <2>2, HeldStays DEF CallInv, SetUpStages, Ended
<1>6. CASE Cancel /\ UNCHANGED <<settings, stage, held>>
  <2>1. /\ UNCHANGED <<settings, stage, held>> /\ cons # "returned" /\ cancelled' = TRUE
        /\ UNCHANGED <<queue, done, prod, f, inHand, missed, cons, frame, toSend, audio,
                       ended, sent, flushed, ok>>
    BY <1>6 DEF Cancel, producerVars, consumerVars
  <2>2. stage \in SetUpStages => AtStart'
    BY <2>1 DEF CallInv, AtStart
  <2>3. stage = "threads" => SafeInv'
    BY <1>6, SafeStep DEF CallInv, Next
  <2>4. stage = "alone" => AloneInv'
    BY <2>1 DEF CallInv, AloneInv, NoThreads, TypeOK, SentInOrder
  <2>5. stage \notin Ended
    BY <2>1 DEF CallInv, OverInv
  <2> QED BY <1>0, <2>1, <2>2, <2>3, <2>4, <2>5, HeldStays DEF CallInv
<1>7. CASE UNCHANGED projectVars
  <2>1. UNCHANGED <<settings, stage, held>> /\ UNCHANGED vars
    BY <1>7 DEF projectVars
  <2>2. stage \in SetUpStages => AtStart'
    BY <2>1 DEF CallInv, AtStart, vars
  <2>3. stage = "threads" => SafeInv' /\ cons' # "returned"
    BY <2>1, SafeStep DEF CallInv, vars
  <2>4. stage = "alone" => AloneInv'
    BY <2>1 DEF CallInv, AloneInv, NoThreads, TypeOK, SentInOrder, vars
  <2>5. stage \in Ended => OverInv'
    BY <2>1 DEF CallInv, OverInv, NoThreads, TypeOK, SentInOrder, vars
  <2> QED BY <1>0, <2>1, <2>2, <2>3, <2>4, <2>5, HeldStays DEF CallInv
<1> QED BY <1>1, <1>2, <1>3, <1>4, <1>5, <1>6, <1>7 DEF ProjectNext, Encoding

LEMMA CallSafe == ProjectSpec => []CallInv
BY CallInit, CallStep, PTL DEF ProjectSpec

\* A call of export_project, in either branch, hands the encoder the frames in
\* timeline order and none twice.
THEOREM CallSendsInOrder == ProjectSpec => []SentInOrder
<1>1. CallInv => SentInOrder
  <2> SUFFICES ASSUME CallInv PROVE SentInOrder
    OBVIOUS
  <2>1. CASE stage \in SetUpStages
    BY <2>1, StartIsTyped DEF CallInv
  <2>2. CASE stage = "threads"
    BY <2>2 DEF CallInv, SafeInv, Order
  <2>3. CASE stage = "alone"
    BY <2>3 DEF CallInv, AloneInv, SentInOrder
  <2>4. CASE stage \in Ended
    BY <2>4 DEF CallInv, OverInv
  <2> QED BY <2>1, <2>2, <2>3, <2>4 DEF CallInv
<1> QED BY <1>1, CallSafe, PTL

\* Whatever step failed, a call that has returned holds at most the device and
\* its pool, and nothing if it came to encode (the fail paths of exporter.cpp).
THEOREM CallReleases == ProjectSpec => []Released
<1>1. CallInv => Released
  BY DEF CallInv, HeldInv
<1> QED BY <1>1, CallSafe, PTL

\* When export_project returns no producer runs and no frame is out.
THEOREM CallLeavesNothing == ProjectSpec => []NothingLeftBehind
<1>1. CallInv => NothingLeftBehind
  <2> SUFFICES ASSUME CallInv, cons = "returned"
               PROVE  prod = "exited" /\ queue = <<>> /\ Lent = 0
    BY DEF NothingLeftBehind
  <2>1. NoThreads
    BY DEF CallInv, AtStart, AloneInv, OverInv
  <2>2. {x \in Frames : \/ inHand = <<x>> \/ toSend = <<x>>
                        \/ \E i \in 1..Len(queue) : queue[i] = x} = {}
    BY <2>1 DEF NoThreads
  <2> QED BY <2>1, <2>2, FS_EmptySet DEF Lent, NoThreads
<1> QED BY <1>1, CallSafe, PTL
-----------------------------------------------------------------------------
(* A call that reports success has sent all that was made.                   *)

CallSentInv ==
    /\ CallInv
    /\ stage = "threads" => SentInv
    /\ MadeIsSent

LEMMA CallSentInit == ProjectInit => CallSentInv
BY CallInit DEF ProjectInit, CallSentInv, MadeIsSent

LEMMA CallSentStep == CallSentInv /\ [ProjectNext]_projectVars => CallSentInv'
<1> SUFFICES ASSUME CallSentInv, [ProjectNext]_projectVars PROVE CallSentInv'
  OBVIOUS
<1>0. CallInv /\ CallInv' /\ MadeIsSent
  BY CallStep DEF CallSentInv
<1>1. CASE SetUp /\ ~Begin
  <2>1. UNCHANGED <<ok, flushed, missed, sent>> /\ stage' # "threads"
    BY <1>1 DEF SetUp, OpenOutput, FindEncoder, CreatePool, OpenEncoder, AddStream,
       OpenAudio, OpenFile, WriteHeader, InitConverters, Proceed, GiveUp, vars, producerVars
  <2> QED BY <1>0, <2>1 DEF CallSentInv, MadeIsSent
<1>2. CASE Begin
  <2>1. AtStart /\ ok' = ok
        /\ UNCHANGED <<queue, done, f, inHand, missed, cons, frame, toSend, ended, sent>>
    BY <1>0, <1>2 DEF CallInv, Begin, SetUpStages, consumerVars
  <2>2. ok' = FALSE
    BY <2>1 DEF AtStart
  <2>3. ASSUME stage' = "threads" PROVE SentInv'
    <3>1. SafeInv' /\ prod' = "render"
      BY <1>0, <1>2, <2>3 DEF CallInv, Begin
    <3>2. Counted'
      BY <2>1, <3>1 DEF AtStart, Counted
    <3>3. done' = FALSE
      BY <2>1 DEF AtStart
    <3> QED BY <2>2, <3>1, <3>2, <3>3 DEF SentInv
  <2> QED BY <1>0, <2>2, <2>3 DEF CallSentInv, MadeIsSent
<1>3. CASE stage = "threads" /\ [Next]_vars /\ stage' = stage
  <2>1. SentInv'
    BY <1>3, SentStep DEF CallSentInv
  <2>2. MadeIsSent'
    BY <1>0, <1>3, <2>1 DEF SentInv, CallInv, MadeIsSent
  <2> QED BY <1>0, <2>1, <2>2 DEF CallSentInv
<1>4. CASE Finish
  <2>1. /\ ok' = ~cancelled /\ UNCHANGED <<cancelled, missed, sent, flushed, ended>>
        /\ cons = "trailer" /\ stage' = "returned"
    BY <1>4 DEF Finish, Return, producerVars
  <2>2. ASSUME ~cancelled
        PROVE  flushed /\ Frames = missed \cup {sent[i] : i \in 1..Len(sent)}
    <3>1. CASE stage = "threads"
      BY <2>1, <2>2, <3>1, AllSent DEF CallSentInv, SentInv, Counted
    <3>2. CASE stage = "alone"
      <4>1. AloneInv /\ ended
        BY <1>0, <2>1, <2>2, <3>2 DEF CallInv, AloneInv
      <4>2. /\ missed \subseteq Frames /\ \A i \in 1..Len(sent) : sent[i] \in Frames
            /\ flushed /\ frame >= Total /\ frame \in Nat
        BY <4>1 DEF AloneInv, TypeOK
      <4>3. \A n \in Frames : n < frame
        BY <4>2
      <4>4. \A n \in Frames : n \in missed \/ \E i \in 1..Len(sent) : sent[i] = n
        BY <4>1, <4>3 DEF AloneInv
      <4> QED BY <4>2, <4>4
    <3> QED BY <1>4, <3>1, <3>2 DEF Finish
  <2>3. MadeIsSent'
    BY <2>1, <2>2 DEF MadeIsSent
  <2> QED BY <1>0, <2>1, <2>3 DEF CallSentInv
<1>5. CASE AloneTest \/ AlonePass
  <2>1. stage = "alone" /\ stage' = stage
    BY <1>5 DEF AloneTest, AlonePass
  <2>2. ok' = FALSE
    BY <1>0, <2>1 DEF CallInv, AloneInv
  <2> QED BY <1>0, <2>1, <2>2 DEF CallSentInv, MadeIsSent
<1>6. CASE (Cancel \/ UNCHANGED vars) /\ UNCHANGED <<settings, stage, held>> /\ stage # "threads"
  <2>1. UNCHANGED <<ok, flushed, missed, sent>>
    BY <1>6 DEF Cancel, vars, consumerVars, producerVars
  <2> QED BY <1>0, <1>6, <2>1 DEF CallSentInv, MadeIsSent
<1>7. CASE (Cancel \/ UNCHANGED vars) /\ UNCHANGED <<settings, stage, held>> /\ stage = "threads"
  BY <1>3, <1>7 DEF Next
<1>8. CASE WithThreads(LoopTest \/ Take \/ TakeWait \/ Encode \/ Join) \/ WithThreads(Producer)
             \/ WithThreads(SpuriousWake)
  BY <1>3, <1>8 DEF WithThreads, Next, Consumer
<1>9. UNCHANGED projectVars => UNCHANGED vars /\ UNCHANGED <<settings, stage, held>>
  BY DEF projectVars
<1> QED BY <1>1, <1>2, <1>4, <1>5, <1>6, <1>7, <1>8, <1>9 DEF ProjectNext, Encoding, SetUp

\* A call that reports success has sent every frame of the timeline that could be
\* made, and flushed the encoders, in either branch.
THEOREM CallSendsAllMade == ProjectSpec => []MadeIsSent
<1>1. CallSentInv => MadeIsSent
  BY DEF CallSentInv
<1> QED BY <1>1, CallSentInit, CallSentStep, PTL DEF ProjectSpec
-----------------------------------------------------------------------------
\* A step that makes pictures is one of the call.
LEMMA StepOfCall == [PicturesNext]_pictureVars => [ProjectNext]_projectVars
<1>1. Produce => ProjectNext
  BY DEF Produce, ProjectNext, WithThreads, Producer
<1>2. ProduceAlone => ProjectNext
  BY DEF ProduceAlone, ProjectNext, Encoding
<1>3. WithThreads(RenderedAll \/ PutCancelled \/ Put \/ PutWait \/ ProducerDone) => ProjectNext
  BY DEF WithThreads, ProjectNext, Producer
<1>4. Others => ProjectNext
  BY <1>3 DEF Others, ProjectNext, Encoding
<1>5. UNCHANGED pictureVars => UNCHANGED projectVars
  BY DEF pictureVars
<1> QED BY <1>1, <1>2, <1>4, <1>5 DEF PicturesNext

\* Making the pictures does not change what a call does: every step of an
\* export with its pictures (frame_gpu, frame) is one of the call, or none.
THEOREM PicturesImplementCall == PicturesSpec => ProjectSpec
<1>1. PicturesInit => ProjectInit
  BY DEF PicturesInit
<1> QED BY <1>1, StepOfCall, PTL DEF PicturesSpec, ProjectSpec
-----------------------------------------------------------------------------
(* What the pictures are. First the frame of the film that a clip has at a   *)
(* frame of the timeline.                                                    *)

\* Quotients by the same divisor are as far apart as what is divided.
LEMMA QuotientSteps ==
    ASSUME NEW a \in Nat, NEW b \in Nat, NEW d \in Nat \ {0}, NEW k \in Nat
    PROVE  /\ a \div d \in Nat
           /\ a + d * k <= b => a \div d + k <= b \div d
           /\ b <= a + d * k => b \div d <= a \div d + k
OBVIOUS

\* The half that rounds, before it is divided.
Scaled(c, tl) == 2 * (tl - c.in) * c.num + c.den

LEMMA ScaledSteps ==
    ASSUME NEW c \in Clips, NEW u \in Nat, NEW v \in Nat, c.in <= u, u <= v
    PROVE  /\ Scaled(c, u) \in Nat /\ Scaled(c, v) \in Nat
           /\ Scaled(c, u) <= Scaled(c, v)
           /\ Scaled(c, u + 1) = Scaled(c, u) + 2 * c.num
           /\ Scaled(c, c.in) = c.den
<1>1. /\ c.in \in Nat /\ c.num \in Nat /\ c.den \in Nat
  BY DEF Clips
<1>2. PICK x \in Nat : x = u - c.in
  BY <1>1
<1>3. PICK y \in Nat : y = v - u
  BY <1>1
<1>4. /\ Scaled(c, u) = 2 * x * c.num + c.den
      /\ Scaled(c, v) = 2 * (x + y) * c.num + c.den
      /\ Scaled(c, u + 1) = 2 * (x + 1) * c.num + c.den
  BY <1>1, <1>2, <1>3 DEF Scaled
<1>5. Scaled(c, c.in) = c.den
  BY <1>1 DEF Scaled
<1>6. /\ 2 * x * c.num \in Nat /\ 2 * (x + y) * c.num \in Nat /\ 2 * y * c.num \in Nat
      /\ 2 * (x + y) * c.num = 2 * x * c.num + 2 * y * c.num
      /\ 2 * (x + 1) * c.num = 2 * x * c.num + 2 * c.num
  BY <1>1
<1> QED BY <1>1, <1>4, <1>5, <1>6

\* The frame of the film never goes back along a clip. It goes on with every
\* frame unless the clip is slow, and by no more than the clip is fast.
LEMMA SrcFrameSteps ==
    ASSUME NEW c \in Clips, NEW u \in Nat, NEW v \in Nat, c.in <= u, u <= v
    PROVE  /\ SrcFrame(c, u) \in Nat /\ SrcFrame(c, v) \in Nat
           /\ SrcFrame(c, u) <= SrcFrame(c, v)
           /\ SrcFrame(c, c.in) = c.src
           /\ c.den <= c.num => SrcFrame(c, u) + 1 <= SrcFrame(c, u + 1)
           /\ c.num <= Far * c.den => SrcFrame(c, u + 1) <= SrcFrame(c, u) + Far
<1> DEFINE d == 2 * c.den
           a == Scaled(c, u)
           b == Scaled(c, v)
           n == Scaled(c, u + 1)
<1>1. /\ c.in \in Nat /\ c.num \in Nat /\ c.den \in Nat \ {0} /\ c.src \in Nat /\ Far \in Nat
      /\ d \in Nat \ {0}
  BY MediaAssumption DEF Clips
<1>2. /\ a \in Nat /\ b \in Nat /\ a <= b /\ n = a + 2 * c.num
      /\ Scaled(c, c.in) = c.den
  BY ScaledSteps
<1>3. /\ SrcFrame(c, u) = c.src + a \div d /\ SrcFrame(c, v) = c.src + b \div d
      /\ SrcFrame(c, u + 1) = c.src + n \div d
      /\ SrcFrame(c, c.in) = c.src + c.den \div d
  BY <1>2 DEF SrcFrame, Scaled
<1>4. c.den \div d = 0
  BY <1>1
<1> HIDE DEF a, b, n
<1>5. n \in Nat
  BY <1>1, <1>2
<1>6. /\ c.den <= c.num => a + d * 1 <= n
      /\ c.num <= Far * c.den => n <= a + d * Far
  BY <1>1, <1>2
<1>7. a + d * 0 <= b
  BY <1>1, <1>2
<1> HIDE DEF d
<1>8. /\ a \div d \in Nat /\ b \div d \in Nat
      /\ a \div d + 0 <= b \div d
  BY <1>1, <1>2, <1>7, QuotientSteps
<1>9. c.den <= c.num => a \div d + 1 <= n \div d
  BY <1>1, <1>2, <1>5, <1>6, QuotientSteps
<1>10. c.num <= Far * c.den => n \div d <= a \div d + Far
  BY <1>1, <1>2, <1>5, <1>6, QuotientSteps
<1>11. n \div d \in Nat
  BY <1>1, <1>5, QuotientSteps
<1> QED BY <1>1, <1>3, <1>4, <1>8, <1>9, <1>10, <1>11
-----------------------------------------------------------------------------
(* The decoder.                                                              *)

\* A set of naturals has a least member.
LEMMA Least ==
    ASSUME NEW T, T \subseteq Nat, T # {}
    PROVE  \E x \in T : \A y \in T : x <= y
<1> DEFINE R == {p \in Nat \X Nat : p[1] < p[2]}
<1>0. IsWellFoundedOn(R, Nat)
  BY NatLessThanWellFounded DEF OpToRel
<1>1. PICK x \in T : \A y \in T : ~(<<y, x>> \in R)
  <2> HIDE DEF R
  <2> QED BY <1>0, WFMin
<1>2. \A y \in T : <<y, x>> \in Nat \X Nat /\ (<<y, x>>)[1] = y /\ (<<y, x>>)[2] = x
  OBVIOUS
<1>3. \A y \in T : ~(y < x)
  BY <1>1, <1>2
<1> QED BY <1>3

\* There is a key frame before every frame: the least distance back is one's.
LEMMA KeysLead ==
    ASSUME NEW t \in Nat
    PROVE  KeyBefore(t) \in 0..Last /\ KeyBefore(t) <= t
<1>1. /\ Last \in Nat /\ Keys \subseteq 0..Last /\ 0 \in Keys
  BY MediaAssumption
<1> DEFINE T == {t - k : k \in {j \in Keys : j <= t}}
<1>2. T \subseteq Nat /\ t - 0 \in T
  BY <1>1
<1>3. PICK x \in T : \A y \in T : x <= y
  BY <1>2, Least
<1>4. PICK k \in Keys : k <= t /\ x = t - k
  BY <1>3
<1>5. \A j \in Keys : j <= t => j <= k
  <2> SUFFICES ASSUME NEW j \in Keys, j <= t PROVE j <= k
    OBVIOUS
  <2>1. t - j \in T
    OBVIOUS
  <2>2. t - k <= t - j
    BY <1>3, <1>4, <2>1
  <2> QED BY <1>1, <2>2
<1>6. KeyBefore(t) \in Keys /\ KeyBefore(t) <= t
  BY <1>4, <1>5 DEF KeyBefore
<1> QED BY <1>1, <1>6

\* The film has more than one frame, and what is taken for its length is never
\* too short.
TakenFor(last) == last \in Int /\ (last = None \/ last >= Last)

Decoder == [out : 0..Last + 1, next : 0..Last + 1, last : Int, hold : {None, Last},
            holdOf : Int, kept : {None, Last}, declared : Int, hw : BOOLEAN]

\* A decoder that may go forward; between calls it also knows where it is.
Ready(d) ==
    /\ d \in Decoder
    /\ TakenFor(d.last) /\ TakenFor(d.declared)
    /\ d.hold # None => d.holdOf = Last
    /\ d.out <= Last \/ d.next = Last + 1

InStep(d) == Ready(d) /\ d.next = d.out

\* What the film has at t, and at its end for what is behind it.
InFilm(t) == IF t <= Last THEN t ELSE Last

IsAnswer(r) == r = [pic |-> r.pic, dec |-> r.dec]

Kin(d, e) == d.hold = e.hold /\ d.holdOf = e.holdOf /\ d.kept = e.kept /\ d.hw = e.hw

At(d, o, n, l) == [d EXCEPT !.out = o, !.next = n, !.last = l]

LEMMA AtWorks ==
    ASSUME NEW d \in Decoder, NEW o \in 0..Last + 1, NEW n \in 0..Last + 1, NEW l \in Int
    PROVE  /\ At(d, o, n, l) \in Decoder /\ Kin(At(d, o, n, l), d)
           /\ At(d, o, n, l).out = o /\ At(d, o, n, l).next = n
           /\ At(d, o, n, l).last = l /\ At(d, o, n, l).declared = d.declared
BY DEF Decoder, Kin, At

\* Going forward gives the first frame that is not before the target, or meets
\* the end and then knows where it is.
LEMMA ForwardWorks ==
    ASSUME Last >= 1, NEW d, Ready(d), NEW t \in Nat,
           NEW r, r = Forward(d, t)
    PROVE  /\ InStep(r.dec) /\ Kin(r.dec, d)
           /\ t <= Last /\ d.out <= t =>
                 r.pic = t /\ r.dec.next = t + 1 /\ r.dec.last = d.last
           /\ t > Last => r.pic = None /\ r.dec.last = Last /\ r.dec.next = Last + 1
           /\ r.pic \in 0..Last \cup {None} /\ IsAnswer(r)
<1>1. /\ Last \in Nat /\ d \in Decoder /\ None = -1
      /\ d.out \in 0..Last + 1 /\ d.next \in 0..Last + 1 /\ d.last \in Int
  BY MediaAssumption DEF Ready, Decoder, None
<1> DEFINE n == IF d.out < t THEN t ELSE d.out
           through == IF d.out <= Last THEN Last + 1 ELSE d.next
<1>2. n \in Nat /\ n >= t /\ n >= d.out /\ (d.out <= t => n = t)
  BY <1>1
<1>3. through = Last + 1
  BY <1>1 DEF Ready
<1>0. IsAnswer(r)
  BY DEF Forward, IsAnswer
<1>4. CASE n <= Last
  <2>0. r.pic = n /\ r.dec = [d EXCEPT !.out = n + 1, !.next = n + 1]
    BY <1>4 DEF Forward
  <2>1. r.dec = At(d, n + 1, n + 1, d.last)
    BY <1>1, <2>0 DEF Decoder, At
  <2> HIDE DEF n
  <2>2. /\ r.pic = n /\ r.dec.out = n + 1 /\ r.dec.next = n + 1
        /\ r.dec.last = d.last /\ r.dec.declared = d.declared
        /\ Kin(r.dec, d) /\ r.dec \in Decoder
    <3>1. n + 1 \in 0..Last + 1
      BY <1>1, <1>2, <1>4
    <3> QED BY <1>1, <2>0, <2>1, <3>1, AtWorks
  <2>3. InStep(r.dec)
    BY <1>1, <1>2, <1>4, <2>2 DEF InStep, Ready, Kin
  <2> QED BY <1>0, <1>1, <1>2, <1>4, <2>2, <2>3
<1>5. CASE ~(n <= Last)
  <2> DEFINE len == IF through > 0 /\ (d.last < 0 \/ through - 1 < d.last)
                    THEN through - 1 ELSE d.last
  <2>1. r.pic = None /\ r.dec = At(d, Last + 1, through, len)
    BY <1>5 DEF Forward, At
  <2>2. len = Last
    BY <1>1, <1>3 DEF Ready, TakenFor
  <2> HIDE DEF len, through
  <2>3. /\ r.pic = None /\ r.dec.out = Last + 1 /\ r.dec.next = Last + 1
        /\ r.dec.last = Last /\ r.dec.declared = d.declared
        /\ Kin(r.dec, d) /\ r.dec \in Decoder
    <3>1. PICK m \in 0..Last + 1 : m = Last + 1
      BY <1>1
    <3>2. r.dec = At(d, m, m, Last)
      BY <1>3, <2>1, <2>2, <3>1
    <3>3. Last \in Int
      BY <1>1
    <3> HIDE DEF Kin, Decoder
    <3>4. /\ r.dec \in Decoder /\ Kin(r.dec, d)
          /\ r.dec.last = Last /\ r.dec.declared = d.declared
      BY <1>1, <3>1, <3>2, <3>3, AtWorks
    <3>5. r.dec.out = m /\ r.dec.next = m
      BY <1>1, <3>1, <3>2, <3>3 DEF At, Decoder
    <3> QED BY <2>1, <3>1, <3>4, <3>5
  <2>4. InStep(r.dec)
    BY <1>1, <2>3 DEF InStep, Ready, Kin, TakenFor
  <2> QED BY <1>0, <1>1, <1>2, <1>5, <2>3, <2>4
<1> QED BY <1>0, <1>4, <1>5

LEMMA SeekWorks ==
    ASSUME NEW d, Ready(d), NEW t \in Nat
    PROVE  /\ Ready(SeekTo(d, t)) /\ Kin(SeekTo(d, t), d)
           /\ SeekTo(d, t).out <= t /\ SeekTo(d, t).last = d.last
           /\ SeekTo(d, t).next = 0
<1>1. /\ Last \in Nat /\ d \in Decoder
  BY MediaAssumption DEF Ready
<1>2. KeyBefore(t) \in 0..Last /\ KeyBefore(t) <= t
  BY KeysLead
<1>3. /\ SeekTo(d, t) \in Decoder /\ Kin(SeekTo(d, t), d)
      /\ SeekTo(d, t).out = KeyBefore(t) /\ SeekTo(d, t).last = d.last
      /\ SeekTo(d, t).declared = d.declared /\ SeekTo(d, t).next = 0
  <2>1. SeekTo(d, t) = At(d, KeyBefore(t), 0, d.last)
    BY <1>1 DEF SeekTo, Decoder, At
  <2>2. KeyBefore(t) \in 0..Last + 1 /\ 0 \in 0..Last + 1 /\ d.last \in Int
    BY <1>1, <1>2 DEF Decoder
  <2>3. PICK z \in 0..Last + 1 : z = 0
    BY <2>2
  <2>0. PICK k \in 0..Last + 1 : k = KeyBefore(t)
    BY <2>2
  <2>4. SeekTo(d, t) = At(d, k, z, d.last)
    BY <2>0, <2>1, <2>3
  <2>5. /\ SeekTo(d, t) \in Decoder /\ Kin(SeekTo(d, t), d)
        /\ SeekTo(d, t).last = d.last /\ SeekTo(d, t).declared = d.declared
    BY <1>1, <2>2, <2>3, <2>4 DEF At, Decoder, Kin
  <2>6. SeekTo(d, t).out = k /\ SeekTo(d, t).next = z
    BY <1>1, <2>2, <2>3, <2>4 DEF At, Decoder
  <2> QED BY <2>0, <2>3, <2>5, <2>6
<1> QED BY <1>1, <1>2, <1>3 DEF Ready, Kin

\* Going forward, or seeking first, finds any target that is not behind.
LEMMA HwForwardWorks ==
    ASSUME Last >= 1, NEW d, Ready(d), NEW t \in Nat, d.out <= t \/ t > Last,
           NEW r, r = HwForward(d, t)
    PROVE  /\ InStep(r.dec) /\ Kin(r.dec, d)
           /\ t <= Last => r.pic = t /\ r.dec.next = t + 1 /\ r.dec.last = d.last
           /\ t > Last => r.pic = None /\ r.dec.last = Last /\ r.dec.next = Last + 1
<1> DEFINE e == IF t - d.next >= Far \/ d.next - t >= Far THEN SeekTo(d, t) ELSE d
<1>1. Ready(e) /\ Kin(e, d) /\ e.last = d.last /\ (e.out <= t \/ t > Last)
  BY SeekWorks DEF Kin
<1>2. r = Forward(e, t)
  BY DEF HwForward
<1> HIDE DEF e
<1>3. e.out <= t \/ t > Last
  BY <1>1
<1>4. /\ InStep(r.dec) /\ Kin(r.dec, e)
      /\ t <= Last /\ e.out <= t =>
            r.pic = t /\ r.dec.next = t + 1 /\ r.dec.last = e.last
      /\ t > Last => r.pic = None /\ r.dec.last = Last /\ r.dec.next = Last + 1
  BY <1>1, <1>2, ForwardWorks
<1> QED BY <1>1, <1>3, <1>4, MediaAssumption DEF Kin

LEMMA RefinedWorks ==
    ASSUME Last >= 1, NEW d, InStep(d)
    PROVE  /\ InStep(Refined(d)) /\ Kin(Refined(d), d)
           /\ Refined(d).next = d.next
           /\ d.last = Last => Refined(d).last = Last
<1>1. /\ Last \in Nat /\ d \in Decoder /\ None = -1
  BY MediaAssumption DEF InStep, Ready, None
<1>2. CASE d.last > 0 \/ d.declared = None
  BY <1>2 DEF Refined, Kin
<1>3. CASE ~(d.last > 0 \/ d.declared = None)
  <2>1. /\ Refined(d) \in Decoder /\ Kin(Refined(d), d)
        /\ Refined(d).last = d.declared /\ Refined(d).declared = d.declared
        /\ Refined(d).out = d.out /\ Refined(d).next = d.next
    BY <1>1, <1>3 DEF Refined, Decoder, Kin
  <2> QED BY <1>1, <1>3, <2>1 DEF InStep, Ready, Kin
<1> QED BY <1>2, <1>3

\* A decoder that has decoded t, and one that will find t: it is in the film, the
\* end is known, or it is met on the way.
Past(d, t) == d.next <= t + 1 /\ (d.last = Last \/ d.next = t + 1)
Finds(d, t) == t <= Last \/ d.last = Last \/ t - d.next < Far

\* The frame held for what is behind the end is the last of the film.
LEMMA HoldingWorks ==
    ASSUME Last >= 1, NEW d, InStep(d), d.last > 0
    PROVE  /\ InStep(Holding(d)) /\ Holding(d).hw = d.hw
           /\ Holding(d).last = Last
           /\ Holding(d).hold \in {None, Last}
<1>1. /\ Last \in Nat /\ d \in Decoder /\ None = -1 /\ d.last \in Nat /\ d.last >= Last
      /\ d.hold \in {None, Last}
  BY MediaAssumption DEF InStep, Ready, Decoder, TakenFor, None
<1>2. CASE d.hold # None /\ d.holdOf = d.last
  BY <1>1, <1>2 DEF Holding, InStep, Ready
<1>3. CASE ~(d.hold # None /\ d.holdOf = d.last)
  <2> DEFINE s == SeekTo(d, d.last)
             r == HwForward(s, d.last)
             o == IF r.pic = None THEN None ELSE r.dec.last
             e == [r.dec EXCEPT !.hold = r.pic, !.holdOf = o]
  <2>1. Holding(d) = e
    BY <1>3 DEF Holding
  <2>2. Ready(s) /\ s.out <= d.last /\ s.last = d.last /\ s.hw = d.hw
    BY <1>1, SeekWorks DEF InStep, Kin
  <2> HIDE DEF s
  <2>3. /\ InStep(r.dec) /\ r.dec.hw = d.hw
        /\ d.last <= Last => r.pic = d.last /\ r.dec.last = d.last
        /\ d.last > Last => r.pic = None /\ r.dec.last = Last
    <3>1. /\ InStep(r.dec) /\ Kin(r.dec, s)
          /\ d.last <= Last => r.pic = d.last /\ r.dec.next = d.last + 1 /\ r.dec.last = s.last
          /\ d.last > Last => r.pic = None /\ r.dec.last = Last /\ r.dec.next = Last + 1
      BY <1>1, <2>2, HwForwardWorks
    <3> QED BY <2>2, <3>1 DEF Kin
  <2> HIDE DEF r
  <2>4. /\ r.pic \in {None, Last} /\ r.dec.last = Last /\ (r.pic # None => o = Last)
        /\ o \in Int
    BY <1>1, <2>3
  <2> HIDE DEF o
  <2>5. r.dec \in Decoder
    BY <2>3 DEF InStep, Ready
  <2>6. /\ e \in Decoder /\ e.hold = r.pic /\ e.holdOf = o /\ e.last = Last
        /\ e.hw = r.dec.hw /\ e.out = r.dec.out /\ e.next = r.dec.next
        /\ e.declared = r.dec.declared
    BY <2>4, <2>5 DEF Decoder
  <2> HIDE DEF e
  <2>7. InStep(e)
    BY <2>3, <2>4, <2>6 DEF InStep, Ready
  <2> QED BY <2>1, <2>3, <2>4, <2>6, <2>7
<1> QED BY <1>2, <1>3

\* A target that is not behind: the GPU gives its frame, or none, and then
\* another way of decoding finds it.
LEMMA DecodeToHwWorks ==
    ASSUME Last >= 1, NEW d, InStep(d), NEW t \in Nat, Finds(d, t), d.hw => d.next <= t,
           NEW r, r = DecodeToHw(d, t)
    PROVE  /\ InStep(r.dec) /\ r.dec.hw = d.hw /\ Finds(r.dec, t)
           /\ r.pic # None => r.pic = InFilm(t) /\ Past(r.dec, t)
<1> DEFINE e == Refined(d)
<1>1. /\ Last \in Nat /\ None = -1
  BY MediaAssumption DEF None
<1>2. /\ InStep(e) /\ e.hw = d.hw /\ e.next = d.next /\ (d.last = Last => e.last = Last)
  BY RefinedWorks DEF Kin
<1>3. Finds(e, t)
  BY <1>2 DEF Finds
<1> HIDE DEF e
<1>4. /\ e \in Decoder /\ TakenFor(e.last) /\ e.next = e.out
      /\ e.next \in Nat /\ e.next <= Last + 1
  BY <1>1, <1>2 DEF InStep, Ready, Decoder
<1>5. CASE ~e.hw
  <2>1. r.pic = None /\ r.dec = e
    BY <1>5 DEF DecodeToHw, e
  <2> QED BY <1>2, <1>3, <2>1
<1>6. CASE e.hw /\ e.last > 0 /\ t > e.last
  <2>1. r.pic = Holding(e).hold /\ r.dec = Holding(e)
    BY <1>6 DEF DecodeToHw, e
  <2>2. /\ InStep(Holding(e)) /\ Holding(e).hw = e.hw
        /\ Holding(e).last = Last
        /\ Holding(e).hold \in {None, Last}
    BY <1>2, <1>6, HoldingWorks
  <2>3. t > Last
    BY <1>1, <1>4, <1>6 DEF TakenFor
  <2>4. r.dec.next <= Last + 1 /\ r.dec.next \in Nat
    BY <1>1, <2>1, <2>2 DEF InStep, Ready, Decoder
  <2>5. r.dec.next <= t + 1
    BY <1>1, <2>3, <2>4
  <2> QED BY <1>1, <1>2, <2>1, <2>2, <2>3, <2>5 DEF Finds, Past, InFilm
<1>7. CASE e.hw /\ ~(e.last > 0 /\ t > e.last)
  <2>1. r = HwForward(e, t)
    BY <1>7 DEF DecodeToHw, e
  <2>2. /\ InStep(r.dec) /\ Kin(r.dec, e)
        /\ t <= Last => r.pic = t /\ r.dec.next = t + 1 /\ r.dec.last = e.last
        /\ t > Last => r.pic = None /\ r.dec.last = Last /\ r.dec.next = Last + 1
    <3>1. Ready(e) /\ e.out <= t
      BY <1>2, <1>4, <1>7 DEF InStep
    <3> QED BY <2>1, <3>1, HwForwardWorks
  <2>3. CASE t <= Last
    BY <1>2, <2>2, <2>3 DEF Kin, Finds, Past, InFilm
  <2>4. CASE t > Last
    BY <1>2, <2>2, <2>4 DEF Kin, Finds
  <2> QED BY <1>1, <2>3, <2>4
<1> QED BY <1>5, <1>6, <1>7

\* A seek and the way forward from it find any frame of the film, and the last for
\* what is behind an end that is known.
LEMMA SeekForwardWorks ==
    ASSUME Last >= 1, NEW d, Ready(d), NEW t \in Nat, t <= Last \/ d.last = Last,
           NEW r, r = SeekForward(d, t)
    PROVE  /\ InStep(r.dec) /\ Kin(r.dec, d)
           /\ r.pic = InFilm(t) /\ r.dec.next = InFilm(t) + 1 /\ r.dec.last = d.last
           /\ IsAnswer(r)
<1>1. /\ Last \in Nat /\ d.last \in Int /\ TakenFor(d.last) /\ None = -1
  BY MediaAssumption DEF Ready, Decoder, None
<1>2. Clamped(d, t) = InFilm(t)
  BY <1>1 DEF Clamped, TakenFor, InFilm
<1>3. InFilm(t) \in Nat /\ InFilm(t) <= Last
  BY <1>1 DEF InFilm
<1>4. PICK n \in Nat : n = InFilm(t) /\ n <= Last
  BY <1>3
<1>5. r = Forward(SeekTo(d, n), n)
  BY <1>2, <1>4 DEF SeekForward
<1>6. /\ Ready(SeekTo(d, n)) /\ Kin(SeekTo(d, n), d)
      /\ SeekTo(d, n).out <= n /\ SeekTo(d, n).last = d.last
  BY SeekWorks
<1>7. /\ InStep(r.dec) /\ Kin(r.dec, SeekTo(d, n))
      /\ r.pic = n /\ r.dec.next = n + 1 /\ r.dec.last = SeekTo(d, n).last
      /\ IsAnswer(r)
  BY <1>4, <1>5, <1>6, ForwardWorks
<1> QED BY <1>4, <1>6, <1>7 DEF Kin

\* A frame that is kept is the last one.
LEMMA KeepingWorks ==
    ASSUME Last >= 1, NEW r, InStep(r.dec), NEW t \in Nat, r.pic = InFilm(t), Past(r.dec, t),
           IsAnswer(r)
    PROVE  /\ InStep(Keeping(r).dec) /\ Keeping(r).dec.hw = r.dec.hw
           /\ Keeping(r).pic = r.pic /\ Past(Keeping(r).dec, t)
<1>1. /\ Last \in Nat /\ r.dec \in Decoder /\ TakenFor(r.dec.last) /\ None = -1
      /\ r.pic \in Nat /\ r.pic <= Last
  BY MediaAssumption DEF InStep, Ready, None, InFilm
<1>2. CASE r.pic # None /\ r.dec.last > 0 /\ r.pic >= r.dec.last
  <2>1. r.pic = Last
    BY <1>1, <1>2 DEF TakenFor
  <2> DEFINE k == [r.dec EXCEPT !.kept = r.pic]
  <2>2. Keeping(r).dec = k /\ Keeping(r).pic = r.pic
    BY <1>2 DEF Keeping, IsAnswer
  <2>3. k \in Decoder /\ k.out = r.dec.out /\ k.next = r.dec.next /\ k.last = r.dec.last
        /\ k.hold = r.dec.hold /\ k.holdOf = r.dec.holdOf /\ k.declared = r.dec.declared
        /\ k.hw = r.dec.hw
    BY <1>1, <2>1 DEF Decoder
  <2> HIDE DEF k
  <2> QED BY <2>2, <2>3 DEF InStep, Ready, Past
<1>3. CASE ~(r.pic # None /\ r.dec.last > 0 /\ r.pic >= r.dec.last)
  BY <1>3 DEF Keeping
<1> QED BY <1>2, <1>3

\* What decode_to_frame gives, wherever the decoder was before.
LEMMA DecodeToFrameWorks ==
    ASSUME Last >= 1, NEW d, InStep(d), NEW target \in Nat, Finds(d, target),
           NEW r, r = DecodeToFrame(d, target)
    PROVE  /\ InStep(r.dec) /\ r.dec.hw = d.hw
           /\ r.pic = InFilm(target) /\ Past(r.dec, target)
<1> DEFINE e == Refined(d)
           t == Clamped(e, target)
           goes == t >= e.next /\ t - e.next < Far
           first == IF goes THEN Forward(e, t) ELSE [pic |-> None, dec |-> e]
           found == IF first.pic # None THEN first ELSE SeekForward(first.dec, t)
<1>1. /\ Last \in Nat /\ None = -1 /\ Far \in Nat
  BY MediaAssumption DEF None
<1>2. /\ InStep(e) /\ e.hw = d.hw /\ e.next = d.next /\ (d.last = Last => e.last = Last)
  BY RefinedWorks DEF Kin
<1>3. Finds(e, target)
  BY <1>2 DEF Finds
<1>0. r = IF e.last > 0 /\ target > e.last /\ e.kept = e.last
          THEN [pic |-> e.kept, dec |-> e] ELSE Keeping(found)
  BY DEF DecodeToFrame
<1> HIDE DEF e
<1>4. /\ e \in Decoder /\ TakenFor(e.last) /\ e.next = e.out /\ e.last \in Int
      /\ e.next \in Nat /\ e.next <= Last + 1 /\ e.kept \in {None, Last}
  BY <1>1, <1>2 DEF InStep, Ready, Decoder, TakenFor
<1>5. CASE e.last > 0 /\ target > e.last /\ e.kept = e.last
  <2>1. r.pic = e.kept /\ r.dec = e
    BY <1>0, <1>5
  <2>2. e.last = Last /\ target > Last
    BY <1>1, <1>4, <1>5
  <2>3. e.next <= target + 1
    BY <1>1, <1>4, <2>2
  <2> QED BY <1>1, <1>2, <1>5, <2>1, <2>2, <2>3 DEF Past, InFilm
<1>6. CASE ~(e.last > 0 /\ target > e.last /\ e.kept = e.last)
  <2>1. r = Keeping(found)
    BY <1>0, <1>6
  <2>2. /\ t \in Nat
        /\ target <= Last => t = target
        /\ target > Last => t >= Last /\ (e.last = Last => t = Last) /\ t <= target
        /\ t # target => e.last = t
    BY <1>1, <1>4 DEF Clamped, TakenFor
  <2> HIDE DEF t
  <2>3. CASE t <= Last
    <3>1. target > Last => e.last = Last /\ t = Last
      BY <1>1, <1>4, <2>2, <2>3
    <3>2. /\ InStep(found.dec) /\ found.dec.hw = e.hw
          /\ found.pic = t /\ found.dec.next = t + 1 /\ found.dec.last = e.last
          /\ IsAnswer(found)
      <4>1. CASE goes
        <5>1. Ready(e) /\ e.out <= t
          BY <1>2, <1>4, <4>1 DEF InStep
        <5>2. /\ InStep(first.dec) /\ Kin(first.dec, e)
              /\ first.pic = t /\ first.dec.next = t + 1 /\ first.dec.last = e.last
              /\ IsAnswer(first)
          <6>1. first = Forward(e, t)
            BY <4>1
          <6> HIDE DEF first
          <6> QED BY <2>2, <2>3, <5>1, <6>1, ForwardWorks
        <5> HIDE DEF first
        <5>3. found = first
          BY <1>1, <2>2, <5>2
        <5> QED BY <5>2, <5>3 DEF Kin
      <4>2. CASE ~goes
        <5>1. found = SeekForward(e, t)
          BY <4>2
        <5> HIDE DEF found
        <5>2. Ready(e)
          BY <1>2 DEF InStep
        <5>3. /\ InStep(found.dec) /\ Kin(found.dec, e)
              /\ found.pic = InFilm(t) /\ found.dec.next = InFilm(t) + 1
              /\ found.dec.last = e.last /\ IsAnswer(found)
          BY <2>2, <2>3, <5>1, <5>2, SeekForwardWorks
        <5>4. InFilm(t) = t
          BY <2>3 DEF InFilm
        <5> QED BY <5>3, <5>4 DEF Kin
      <4> QED BY <4>1, <4>2
    <3> HIDE DEF found
    <3>3. found.pic = InFilm(target) /\ Past(found.dec, target)
      BY <1>1, <2>2, <2>3, <3>1, <3>2 DEF InFilm, Past
    <3> QED BY <1>2, <2>1, <3>2, <3>3, KeepingWorks
  <2>4. CASE t > Last
    <3>1. target > Last /\ e.last # Last /\ t <= target
      BY <1>1, <2>2, <2>4
    <3>2. goes
      <4>1. target - e.next < Far
        BY <1>1, <1>3, <3>1 DEF Finds
      <4> QED BY <1>1, <1>4, <2>2, <2>4, <3>1, <4>1
    <3>3. /\ InStep(first.dec) /\ Kin(first.dec, e)
          /\ first.pic = None /\ first.dec.last = Last
      <4>1. first = Forward(e, t)
        BY <3>2
      <4>2. Ready(e)
        BY <1>2 DEF InStep
      <4> HIDE DEF first
      <4> QED BY <2>2, <2>4, <4>1, <4>2, ForwardWorks
    <3> HIDE DEF first
    <3>4. found = SeekForward(first.dec, t)
      BY <3>3
    <3> HIDE DEF found
    <3>5. /\ InStep(found.dec) /\ Kin(found.dec, first.dec)
          /\ found.pic = InFilm(t) /\ found.dec.next = InFilm(t) + 1
          /\ found.dec.last = Last /\ IsAnswer(found)
      <4>1. Ready(first.dec)
        BY <3>3 DEF InStep
      <4> QED BY <2>2, <3>3, <3>4, <4>1, SeekForwardWorks
    <3>6. found.pic = InFilm(target) /\ Past(found.dec, target)
      BY <1>1, <2>2, <2>4, <3>1, <3>5 DEF InFilm, Past
    <3>7. found.dec.hw = d.hw
      BY <1>2, <3>3, <3>5 DEF Kin
    <3> QED BY <2>1, <3>5, <3>6, <3>7, KeepingWorks
  <2> QED BY <1>1, <2>2, <2>3, <2>4
<1> QED BY <1>5, <1>6

-----------------------------------------------------------------------------
(* The decoder of a track along its clips.                                   *)

\* A track before frame R: it was not at any later clip, and along a clip it has
\* decoded the frame before.
Sits(slot, clips, R) ==
    /\ slot.at \in Int /\ slot.at < R
    /\ slot # Closed => /\ slot = [at |-> slot.at, dec |-> slot.dec]
                        /\ InStep(slot.dec) /\ slot.dec.hw = film.hw
    /\ \A c \in clips : \A u \in Nat :
          c.on /\ c.in <= u /\ u < c.out /\ R = u + 1 =>
             slot # Closed /\ slot.at = c.in /\ Past(slot.dec, SrcFrame(c, u))

\* A slot that gives what a clip has at frame R.
Serves(slot, c, R) ==
    /\ slot = [at |-> c.in, dec |-> slot.dec]
    /\ InStep(slot.dec) /\ slot.dec.hw = film.hw
    /\ Finds(slot.dec, SrcFrame(c, R))

LEMMA FreshWorks ==
    ASSUME NEW declared \in Int, TakenFor(declared), NEW hw \in BOOLEAN
    PROVE  InStep(Fresh(declared, hw)) /\ Fresh(declared, hw).next = 0 /\ Fresh(declared, hw).hw = hw
<1>1. Last \in Nat /\ None = -1
  BY MediaAssumption DEF None
<1> DEFINE d == Fresh(declared, hw)
<1>2. /\ d.out = 0 /\ d.next = 0 /\ d.last = None /\ d.hold = None /\ d.holdOf = None
      /\ d.kept = None /\ d.declared = declared /\ d.hw = hw
  BY DEF Fresh
<1>3. d \in Decoder
  BY <1>1 DEF Fresh, Decoder
<1> HIDE DEF d
<1> QED BY <1>1, <1>2, <1>3 DEF InStep, Ready, TakenFor, d

\* Whatever the track did before, the decoder it has for the clip at R gives the
\* frame at R: it is new, or has just decoded the frame before.
LEMMA OpenedServes ==
    ASSUME TakenFor(film.declared), film.hw \in BOOLEAN,
           NEW clips, Cut(clips), NEW c \in clips, c.on,
           NEW R \in Nat, c.in <= R, R < c.out, NEW s, Sits(s, clips, R)
    PROVE  /\ Serves(Opened(s, c), c, R) /\ SrcFrame(c, R) \in Nat
           /\ c.den <= c.num => Opened(s, c).dec.next <= SrcFrame(c, R)
<1>1. /\ c \in Clips /\ c.in \in Nat /\ c.out \in Nat /\ c.src \in Nat /\ c.src <= Last
      /\ Last \in Nat /\ Far \in Nat \ {0} /\ None = -1
      /\ c.num \in Nat /\ c.den \in Nat
  BY MediaAssumption DEF Cut, Clips, None
<1>2. /\ SrcFrame(c, R) \in Nat /\ SrcFrame(c, c.in) = c.src
  BY <1>1, SrcFrameSteps
<1>3. CASE c.in = R
  <2>1. Opened(s, c) = [at |-> c.in, dec |-> Fresh(film.declared, film.hw)]
    BY <1>1, <1>3 DEF Sits, Opened
  <2>2. /\ InStep(Fresh(film.declared, film.hw)) /\ Fresh(film.declared, film.hw).next = 0
        /\ Fresh(film.declared, film.hw).hw = film.hw
    BY FreshWorks DEF TakenFor
  <2>3. SrcFrame(c, R) = c.src
    BY <1>2, <1>3
  <2> QED BY <1>1, <2>1, <2>2, <2>3 DEF Serves, Finds
<1>4. CASE c.in < R
  <2>1. PICK u \in Nat : R = u + 1
    BY <1>1, <1>4
  <2>2. c.in <= u /\ u < c.out
    BY <1>1, <1>4, <2>1
  <2>3. s # Closed /\ s.at = c.in /\ Past(s.dec, SrcFrame(c, u))
    BY <2>1, <2>2 DEF Sits
  <2>4. /\ s = [at |-> c.in, dec |-> s.dec] /\ InStep(s.dec) /\ s.dec.hw = film.hw
    BY <2>3 DEF Sits
  <2>5. Opened(s, c) = s
    BY <2>3 DEF Opened
  <2>6. /\ SrcFrame(c, u) \in Nat
        /\ c.den <= c.num => SrcFrame(c, u) + 1 <= SrcFrame(c, u + 1)
        /\ c.num <= Far * c.den => SrcFrame(c, u + 1) <= SrcFrame(c, u) + Far
    BY <1>1, <2>2, SrcFrameSteps
  <2>7. SrcFrame(c, R) > Last => c.num <= Far * c.den
    <3>1. PICK v \in Nat : v = c.out - 1 /\ R <= v
      BY <1>1
    <3>2. SrcFrame(c, R) <= SrcFrame(c, v) /\ SrcFrame(c, v) \in Nat
      BY <1>1, <3>1, SrcFrameSteps
    <3>3. SrcFrame(c, c.out - 1) = SrcFrame(c, v)
      BY <3>1
    <3> QED BY <1>1, <1>2, <3>2, <3>3 DEF Cut
  <2>8. s.dec.next \in Nat /\ s.dec.next \in Int
    BY <1>1, <2>4 DEF InStep, Ready, Decoder
  <2>9. PICK m \in Nat : m = SrcFrame(c, u)
    BY <2>6
  <2>10. PICK n \in Nat : n = SrcFrame(c, R)
    BY <1>2
  <2>11. /\ c.den <= c.num => m + 1 <= n
         /\ c.num <= Far * c.den => n <= m + Far
    BY <2>1, <2>6, <2>9, <2>10
  <2>12. s.dec.next <= m + 1 /\ (s.dec.last = Last \/ s.dec.next = m + 1)
    BY <2>3, <2>9 DEF Past
  <2>13. Finds(s.dec, n)
    BY <1>1, <2>7, <2>8, <2>10, <2>11, <2>12 DEF Finds
  <2>14. c.den <= c.num => s.dec.next <= n
    BY <1>1, <2>8, <2>11, <2>12
  <2> QED BY <1>2, <2>4, <2>5, <2>10, <2>13, <2>14 DEF Serves
<1> QED BY <1>1, <1>3, <1>4

\* And then the track is ready for R + 1.
LEMMA ServedSits ==
    ASSUME NEW clips, Cut(clips), NEW c \in clips, NEW R \in Nat, c.in <= R, R < c.out,
           NEW d, InStep(d), d.hw = film.hw, Past(d, SrcFrame(c, R))
    PROVE  Sits([at |-> c.in, dec |-> d], clips, R + 1)
<1> DEFINE s == [at |-> c.in, dec |-> d]
<1>1. c.in \in Nat /\ c.out \in Nat
  BY DEF Cut, Clips
<1>2. s.at = c.in /\ s.dec = d /\ s = [at |-> s.at, dec |-> s.dec]
  OBVIOUS
<1>3. s # Closed
  BY <1>1, <1>2 DEF Closed, None
<1> HIDE DEF s
<1>4. ASSUME NEW b \in clips, NEW u \in Nat, b.in <= u, u < b.out, R + 1 = u + 1
      PROVE  s.at = b.in /\ Past(s.dec, SrcFrame(b, u))
  <2>1. u = R
    BY <1>4
  <2>2. b.in \in Nat /\ b.out \in Nat
    BY DEF Cut, Clips
  <2>3. b = c
    BY <1>1, <1>4, <2>1, <2>2 DEF Cut
  <2> QED BY <1>2, <2>1, <2>3
<1> QED BY <1>1, <1>2, <1>3, <1>4 DEF Sits, s

\* A frame at which the track shows nothing.
LEMMA IdleSits ==
    ASSUME NEW clips, Cut(clips), NEW R \in Nat, NEW s,
           s = Closed \/ Sits(s, clips, R),
           \A c \in clips : c.on => ~(c.in <= R /\ R < c.out)
    PROVE  Sits(s, clips, R + 1)
<1>1. s.at \in Int /\ s.at < R + 1
  BY DEF Sits, Closed, None
<1>2. s # Closed => /\ s = [at |-> s.at, dec |-> s.dec]
                    /\ InStep(s.dec) /\ s.dec.hw = film.hw
  BY DEF Sits
<1>3. ASSUME NEW b \in clips, NEW u \in Nat, b.on, b.in <= u, u < b.out, R + 1 = u + 1
      PROVE  FALSE
  <2>1. u = R
    BY <1>3
  <2> QED BY <1>3, <2>1
<1> QED BY <1>1, <1>2, <1>3 DEF Sits

\* The timeline and the film are such as the edit and a container give.
Laid == /\ \A t \in Tracks : Cut(timeline[t])
        /\ TakenFor(film.declared) /\ film.hw \in BOOLEAN

Follows(decs, R) == \A t \in Tracks : Sits(decs[t], timeline[t], R)

\* Whatever is decoded next, each track that shows a clip at R has its frame.
Prepared(decs, R) == \A t \in Showing(R) : Serves(Opened(decs[t], ClipAt(t, R)), ClipAt(t, R), R)

\* clip_at finds the one clip that has the frame.
LEMMA ClipsAt ==
    ASSUME NEW t \in Tracks, NEW R \in Nat, Cut(timeline[t])
    PROVE  /\ \A c \in timeline[t] : c.in <= R /\ R < c.out => ClipAt(t, R) = c
           /\ t \in Showing(R) => /\ ClipAt(t, R) \in timeline[t] /\ ClipAt(t, R).on
                                  /\ ClipAt(t, R).in <= R /\ R < ClipAt(t, R).out
           /\ t \notin Showing(R) => \A c \in timeline[t] : c.on => ~(c.in <= R /\ R < c.out)
           /\ ClipAt(t, R) # NoClip => ClipAt(t, R) \in timeline[t]
<1> DEFINE Here == {c \in timeline[t] : c.in <= R /\ R < c.out}
<1>1. \A c \in timeline[t] : c.in \in Nat /\ c.out \in Nat
  BY DEF Cut, Clips
<1>2. ASSUME NEW c \in timeline[t], c.in <= R, R < c.out PROVE ClipAt(t, R) = c
  <2>1. ASSUME NEW d \in timeline[t], d.in <= R, R < d.out PROVE d = c
    BY <1>1, <1>2, <2>1 DEF Cut
  <2> QED BY <1>2, <2>1 DEF ClipAt
<1>3. ASSUME Here = {} PROVE ClipAt(t, R) = NoClip
  BY <1>3 DEF ClipAt
<1>4. NoClip.on = FALSE
  BY DEF NoClip
<1>5. ASSUME t \in Showing(R)
      PROVE  /\ ClipAt(t, R) \in timeline[t] /\ ClipAt(t, R).on
             /\ ClipAt(t, R).in <= R /\ R < ClipAt(t, R).out
  BY <1>2, <1>3, <1>4, <1>5 DEF Showing
<1>6. ASSUME t \notin Showing(R), NEW c \in timeline[t], c.on, c.in <= R, R < c.out PROVE FALSE
  BY <1>2, <1>6 DEF Showing
<1>7. ClipAt(t, R) # NoClip => ClipAt(t, R) \in timeline[t]
  BY <1>2, <1>3
<1> QED BY <1>2, <1>5, <1>6, <1>7

LEMMA FollowsPrepares ==
    ASSUME Laid, NEW R \in Nat, NEW decs, Follows(decs, R)
    PROVE  /\ Prepared(decs, R)
           /\ \A t \in Showing(R) :
                 ClipAt(t, R).den <= ClipAt(t, R).num =>
                    Opened(decs[t], ClipAt(t, R)).dec.next <= SrcFrame(ClipAt(t, R), R)
<1> SUFFICES ASSUME NEW t \in Showing(R)
             PROVE  /\ Serves(Opened(decs[t], ClipAt(t, R)), ClipAt(t, R), R)
                    /\ ClipAt(t, R).den <= ClipAt(t, R).num =>
                          Opened(decs[t], ClipAt(t, R)).dec.next <= SrcFrame(ClipAt(t, R), R)
  BY DEF Prepared
<1>1. t \in Tracks
  BY DEF Showing
<1>2. Cut(timeline[t]) /\ Sits(decs[t], timeline[t], R)
  BY <1>1 DEF Laid, Follows
<1>3. /\ ClipAt(t, R) \in timeline[t] /\ ClipAt(t, R).on
      /\ ClipAt(t, R).in <= R /\ R < ClipAt(t, R).out
  BY <1>1, <1>2, ClipsAt
<1>4. PICK c \in timeline[t] : c = ClipAt(t, R)
  BY <1>3
<1>5. /\ c.on /\ c.in <= R /\ R < c.out /\ TakenFor(film.declared) /\ film.hw \in BOOLEAN
  BY <1>3, <1>4 DEF Laid
<1>6. /\ Serves(Opened(decs[t], c), c, R)
      /\ c.den <= c.num => Opened(decs[t], c).dec.next <= SrcFrame(c, R)
  BY <1>2, <1>5, OpenedServes
<1> QED BY <1>4, <1>6

\* The frame a track shows, and the decoder after it, in either way of decoding.
LEMMA Shown ==
    ASSUME Laid, NEW R \in Nat, NEW t \in Showing(R), NEW d,
           InStep(d), d.hw = film.hw, Past(d, SrcFrame(ClipAt(t, R), R))
    PROVE  /\ Sits([at |-> ClipAt(t, R).in, dec |-> d], timeline[t], R + 1)
           /\ Due(R)[t] = InFilm(SrcFrame(ClipAt(t, R), R))
<1>1. t \in Tracks
  BY DEF Showing
<1>2. Cut(timeline[t])
  BY <1>1 DEF Laid
<1>3. /\ ClipAt(t, R) \in timeline[t] /\ ClipAt(t, R).in <= R /\ R < ClipAt(t, R).out
  BY <1>1, <1>2, ClipsAt
<1>4. Due(R)[t] = InFilm(SrcFrame(ClipAt(t, R), R))
  BY <1>1 DEF Due, InFilm
<1> QED BY <1>2, <1>3, <1>4, ServedSits

LEMMA SrcFrameHere ==
    ASSUME Laid, NEW R \in Nat, NEW t \in Showing(R)
    PROVE  SrcFrame(ClipAt(t, R), R) \in Nat
<1>1. t \in Tracks
  BY DEF Showing
<1>2. Cut(timeline[t])
  BY <1>1 DEF Laid
<1>3. /\ ClipAt(t, R) \in Clips /\ ClipAt(t, R).in <= R
  BY <1>1, <1>2, ClipsAt DEF Cut
<1> QED BY <1>3, SrcFrameSteps

\* RenderSession::frame.
LEMMA CompositeWorks ==
    ASSUME Last >= 1, Laid, NEW R \in Nat, NEW decs, Prepared(decs, R)
    PROVE  Follows(Composite(decs, R).decs, R + 1) /\ Composite(decs, R).pics = Due(R)
<1> DEFINE c(t) == ClipAt(t, R)
           n(t) == SrcFrame(c(t), R)
           slot(t) == Opened(decs[t], c(t))
           r(t) == DecodeToFrame(slot(t).dec, n(t))
<1>1. ASSUME NEW t \in Showing(R)
      PROVE  /\ slot(t) = [at |-> c(t).in, dec |-> slot(t).dec]
             /\ InStep(r(t).dec) /\ r(t).dec.hw = film.hw
             /\ r(t).pic = InFilm(n(t)) /\ Past(r(t).dec, n(t))
  <2>1. Serves(slot(t), c(t), R)
    BY DEF Prepared
  <2>2. n(t) \in Nat
    BY SrcFrameHere
  <2> HIDE DEF slot, n
  <2>3. /\ slot(t) = [at |-> c(t).in, dec |-> slot(t).dec]
        /\ InStep(slot(t).dec) /\ slot(t).dec.hw = film.hw /\ Finds(slot(t).dec, n(t))
    BY <2>1 DEF Serves, n
  <2>4. PICK d : d = slot(t).dec
    OBVIOUS
  <2>5. PICK m \in Nat : m = n(t)
    BY <2>2
  <2>6. PICK a : a = r(t)
    OBVIOUS
  <2>7. a = DecodeToFrame(d, m) /\ InStep(d) /\ Finds(d, m)
    BY <2>3, <2>4, <2>5, <2>6
  <2>8. InStep(a.dec) /\ a.dec.hw = d.hw /\ a.pic = InFilm(m) /\ Past(a.dec, m)
    BY <2>7, DecodeToFrameWorks
  <2> QED BY <2>3, <2>4, <2>5, <2>6, <2>8
<1>2. ASSUME NEW t \in Tracks
      PROVE  Composite(decs, R).decs[t] = IF t \in Showing(R) THEN [slot(t) EXCEPT !.dec = r(t).dec]
                                          ELSE Closed
  BY DEF Composite
<1>3. Composite(decs, R).pics = [t \in Tracks |-> IF t \in Showing(R) THEN r(t).pic ELSE None]
  BY DEF Composite
<1> HIDE DEF slot, r
<1>4. ASSUME NEW t \in Tracks
      PROVE  Sits(Composite(decs, R).decs[t], timeline[t], R + 1)
  <2>1. CASE t \in Showing(R)
    <3>1. Composite(decs, R).decs[t] = [at |-> c(t).in, dec |-> r(t).dec]
      BY <1>1, <1>2, <2>1
    <3>2. Sits([at |-> c(t).in, dec |-> r(t).dec], timeline[t], R + 1)
      BY <1>1, <2>1, Shown
    <3> QED BY <3>1, <3>2
  <2>2. CASE t \notin Showing(R)
    <3>1. Composite(decs, R).decs[t] = Closed
      BY <1>2, <2>2
    <3>2. /\ Cut(timeline[t])
          /\ \A b \in timeline[t] : b.on => ~(b.in <= R /\ R < b.out)
      BY <2>2, ClipsAt DEF Laid
    <3> QED BY <3>1, <3>2, IdleSits
  <2> QED BY <2>1, <2>2
<1>5. ASSUME NEW t \in Showing(R) PROVE r(t).pic = Due(R)[t]
  BY <1>1, Shown
<1>6. Composite(decs, R).pics = Due(R)
  <2>1. \A t \in Tracks : Due(R)[t] = IF t \in Showing(R) THEN r(t).pic ELSE None
    BY <1>5 DEF Due
  <2>2. Due(R) = [t \in Tracks |-> Due(R)[t]]
    BY DEF Due
  <2> QED BY <1>3, <2>1, <2>2
<1> QED BY <1>4, <1>6 DEF Follows

\* RenderSession::frame_gpu: what it decoded is the frame, and if it has none the
\* tracks are as good for a composite as before.
LEMMA FrameGpuWorks ==
    ASSUME Last >= 1, Tracks \subseteq Nat, IsFiniteSet(Tracks), Laid, ~(film.hw /\ Slow),
           NEW R \in Nat, NEW decs, decs = [t \in Tracks |-> decs[t]], Follows(decs, R),
           NEW gpu, gpu = FrameGpu(decs, R)
    PROVE  /\ Prepared(gpu.decs, R)
           /\ gpu.ok => gpu.pics = Due(R) /\ Follows(gpu.decs, R + 1)
           /\ gpu.decs = [t \in Tracks |-> gpu.decs[t]]
<1> DEFINE first == CHOOSE t \in Covered(R) : \A u \in Covered(R) : t <= u
           c == ClipAt(first, R)
           slot == Opened(decs[first], c)
           n == SrcFrame(c, R)
           r == DecodeToHw(slot.dec, n)
           alone == Cardinality(Showing(R)) = 1 /\ c.on
<1>1. gpu = IF alone
            THEN [ok |-> r.pic # None,
                  decs |-> [decs EXCEPT ![first] = [slot EXCEPT !.dec = r.dec]],
                  pics |-> [NoPicture EXCEPT ![first] = r.pic]]
            ELSE [ok |-> FALSE, decs |-> decs, pics |-> NoPicture]
  BY DEF FrameGpu
<1>2. Prepared(decs, R)
  BY FollowsPrepares
<1>3. CASE ~alone
  <2>1. gpu.decs = decs /\ gpu.ok = FALSE
    BY <1>1, <1>3
  <2> QED BY <1>2, <2>1
<1>4. CASE alone
  <2>0. gpu = [ok |-> r.pic # None,
               decs |-> [decs EXCEPT ![first] = [slot EXCEPT !.dec = r.dec]],
               pics |-> [NoPicture EXCEPT ![first] = r.pic]]
    BY <1>1, <1>4
  <2>1. IsFiniteSet(Showing(R)) /\ Showing(R) \subseteq Tracks
    <3>1. Showing(R) \subseteq Tracks
      BY DEF Showing
    <3> QED BY <3>1, FS_Subset
  <2>2. PICK x : Showing(R) = {x}
    BY <1>4, <2>1, FS_Singleton
  <2>3. Covered(R) \subseteq Nat /\ x \in Covered(R)
    <3>1. ClipAt(x, R) # NoClip /\ x \in Tracks
      BY <2>2 DEF Showing, NoClip
    <3> QED BY <3>1 DEF Covered
  <2>4. first \in Covered(R)
    <3>1. \E t \in Covered(R) : \A u \in Covered(R) : t <= u
      BY <2>3, Least
    <3> QED BY <3>1
  <2>5. first \in Tracks /\ first \in Showing(R) /\ Showing(R) = {first}
    BY <1>4, <2>2, <2>4 DEF Covered, Showing
  <2> HIDE DEF first
  <2>6. Cut(timeline[first]) /\ c \in timeline[first] /\ c.on /\ c \in Clips
    <3>1. Cut(timeline[first])
      BY <2>5 DEF Laid
    <3>2. c \in timeline[first] /\ c.on
      BY <2>5, <3>1, ClipsAt
    <3> QED BY <3>1, <3>2 DEF Cut
  <2>7. Serves(slot, c, R)
    BY <1>2, <2>5 DEF Prepared
  <2>8. c.den <= c.num => slot.dec.next <= n
    BY <2>5, FollowsPrepares
  <2>9. n \in Nat
    BY <2>5, SrcFrameHere
  <2>10. film.hw => c.den <= c.num
    <3>1. c.num \in Nat /\ c.den \in Nat
      BY <2>6 DEF Clips
    <3> QED BY <2>5, <2>6, <3>1 DEF Slow
  <2>11. /\ InStep(r.dec) /\ r.dec.hw = film.hw /\ Finds(r.dec, n)
         /\ r.pic # None => r.pic = InFilm(n) /\ Past(r.dec, n)
    <3>1. PICK d : d = slot.dec
      OBVIOUS
    <3>2. PICK m \in Nat : m = n
      BY <2>9
    <3>3. PICK a : a = r
      OBVIOUS
    <3>4. /\ a = DecodeToHw(d, m)
          /\ InStep(d) /\ d.hw = film.hw /\ Finds(d, m)
          /\ c.den <= c.num => d.next <= m
      BY <2>7, <2>8, <3>1, <3>2, <3>3 DEF Serves
    <3>5. d.hw => d.next <= m
      BY <2>10, <3>4
    <3> HIDE DEF c, slot, n, r
    <3>6. /\ InStep(a.dec) /\ a.dec.hw = d.hw /\ Finds(a.dec, m)
          /\ a.pic # None => a.pic = InFilm(m) /\ Past(a.dec, m)
      BY <3>4, <3>5, DecodeToHwWorks
    <3> QED BY <3>2, <3>3, <3>4, <3>6
  <2> DEFINE after == [at |-> c.in, dec |-> r.dec]
  <2>12. [slot EXCEPT !.dec = r.dec] = after
    <3>1. slot = [at |-> c.in, dec |-> slot.dec]
      BY <2>7 DEF Serves
    <3> HIDE DEF slot, r
    <3> QED BY <3>1
  <2>13. gpu.decs = [decs EXCEPT ![first] = after]
    BY <2>0, <2>12
  <2>14. /\ gpu.ok => r.pic # None
         /\ gpu.pics = [NoPicture EXCEPT ![first] = r.pic]
    <3> DEFINE has == r.pic # None
               given == [NoPicture EXCEPT ![first] = r.pic]
               left == [decs EXCEPT ![first] = [slot EXCEPT !.dec = r.dec]]
    <3>1. gpu = [ok |-> has, decs |-> left, pics |-> given]
      BY <2>0
    <3> HIDE DEF has, given, left
    <3>2. gpu.pics = given /\ (gpu.ok => has)
      BY <3>1
    <3> QED BY <3>2 DEF has, given
  <2>15. /\ gpu.decs[first] = after
         /\ \A t \in Tracks : t # first => gpu.decs[t] = decs[t]
         /\ gpu.decs = [t \in Tracks |-> gpu.decs[t]]
    <3> HIDE DEF after
    <3> QED BY <2>5, <2>13
  <2>16. Prepared(gpu.decs, R)
    <3>1. Opened(after, c) = after
      BY DEF Opened
    <3>2. Serves(after, c, R)
      BY <2>11 DEF Serves
    <3> QED BY <2>5, <2>15, <3>1, <3>2 DEF Prepared
  <2>17. ASSUME gpu.ok PROVE gpu.pics = Due(R) /\ Follows(gpu.decs, R + 1)
    <3>1. r.pic = InFilm(n) /\ Past(r.dec, n)
      BY <2>11, <2>14, <2>17
    <3>2. Sits(after, timeline[first], R + 1) /\ Due(R)[first] = r.pic
      <4>1. PICK d : d = r.dec
        OBVIOUS
      <4>2. InStep(d) /\ d.hw = film.hw /\ Past(d, SrcFrame(ClipAt(first, R), R))
        BY <2>11, <3>1, <4>1
      <4>3. /\ Sits([at |-> ClipAt(first, R).in, dec |-> d], timeline[first], R + 1)
            /\ Due(R)[first] = InFilm(SrcFrame(ClipAt(first, R), R))
        BY <2>5, <4>2, Shown
      <4> QED BY <3>1, <4>1, <4>3
    <3>3. ASSUME NEW t \in Tracks, t # first PROVE Sits(gpu.decs[t], timeline[t], R + 1)
      <4>1. t \notin Showing(R)
        BY <2>5, <3>3
      <4>2. Sits(decs[t], timeline[t], R) /\ Cut(timeline[t])
        BY <3>3 DEF Follows, Laid
      <4>3. \A b \in timeline[t] : b.on => ~(b.in <= R /\ R < b.out)
        BY <4>1, <4>2, ClipsAt
      <4>4. Sits(decs[t], timeline[t], R + 1)
        BY <4>2, <4>3, IdleSits
      <4> QED BY <2>15, <3>3, <4>4
    <3>4. Follows(gpu.decs, R + 1)
      BY <2>15, <3>2, <3>3 DEF Follows
    <3>5. gpu.pics = Due(R)
      <4>1. \A t \in Tracks : Due(R)[t] = IF t = first THEN r.pic ELSE None
        <5>1. \A t \in Tracks : t # first => Due(R)[t] = None
          BY <2>5 DEF Due
        <5> QED BY <3>2, <5>1
      <4>2. Due(R) = [t \in Tracks |-> Due(R)[t]]
        BY DEF Due
      <4> HIDE DEF r
      <4> QED BY <2>14, <4>1, <4>2 DEF NoPicture
    <3> QED BY <3>4, <3>5
  <2> QED BY <2>15, <2>16, <2>17
<1> QED BY <1>3, <1>4

-----------------------------------------------------------------------------
(* The call and its pictures.                                                *)

\* How far the producer has come, its frame in hand counted.
Reached == IF prod \in {"put", "asleep"} THEN f + 1 ELSE f

\* The exports DuePictures is about.
Good == ~(settings.gpu /\ film.hw /\ Slow)

Made(n) == \A i \in Frames : i < n => pictures[i] = Due(i)

SentDue == \A i \in 1..Len(sent) : pictures[sent[i]] = Due(sent[i])

\* What was made is what is due, and the decoders are where the next frame needs
\* them.
Coming ==
    /\ stage \in SetUpStages => Follows(decoders, 0)
    /\ stage = "threads" =>
          /\ Made(Reached)
          /\ prod \in {"render", "put", "asleep"} => Follows(decoders, Reached)
    /\ stage = "alone" =>
          /\ Made(frame)
          /\ frame < Total => Follows(decoders, frame)
    /\ SentDue

\* The inductive invariant behind DuePictures.
PicturesInv ==
    /\ CallInv
    /\ timeline \in Timelines /\ film \in [declared : Durations, hw : BOOLEAN]
    /\ decoders = [t \in Tracks |-> decoders[t]]
    /\ pictures = [n \in Frames |-> pictures[n]]
    /\ stage \in SetUpStages /\ "pool" \in held => settings.gpu
    /\ stage = "threads" => settings.gpu
    /\ Good => Coming

LEMMA PicturesStart ==
    ASSUME PicturesInit
    PROVE  PicturesInv
<1>1. CallInv /\ stage = "output" /\ held = {} /\ sent = <<>>
  BY CallInit DEF PicturesInit, ProjectInit
<1>2. Follows(decoders, 0)
  <2>1. ASSUME NEW clips PROVE Sits(Closed, clips, 0)
    BY DEF Sits, Closed, None
  <2> QED BY <2>1 DEF PicturesInit, Follows
<1>3. SentDue
  BY <1>1 DEF SentDue
<1>4. /\ timeline \in Timelines /\ film \in [declared : Durations, hw : BOOLEAN]
      /\ decoders = [t \in Tracks |-> decoders[t]]
      /\ pictures = [n \in Frames |-> pictures[n]]
  BY DEF PicturesInit
<1> QED BY <1>1, <1>2, <1>3, <1>4 DEF PicturesInv, Coming, SetUpStages

LEMMA InvLaid ==
    ASSUME \A n \in Durations : TakenFor(n), PicturesInv
    PROVE  Laid
BY PicturesAssumption DEF PicturesInv, Laid

\* A step in which no picture is made leaves what the pictures are.
LEMMA SamePictures ==
    ASSUME UNCHANGED <<timeline, film>>
    PROVE  /\ \A n : Due(n)' = Due(n)
           /\ Slow' = Slow
           /\ \A n : Follows(decoders, n)' <=> Follows(decoders', n)
<1>1. \A n : Due(n)' = Due(n)
  BY DEF Due, Showing, ClipAt
<1>2. Slow' = Slow
  BY DEF Slow
<1>3. \A n : Follows(decoders, n)' <=> Follows(decoders', n)
  BY DEF Follows, Sits
<1> QED BY <1>1, <1>2, <1>3

\* What stays when no picture is made, whatever else the step does.
LEMMA NoneMadeKeeps ==
    ASSUME PicturesInv, CallInv', NoneMade, settings' = settings,
           stage' \in SetUpStages /\ "pool" \in held' => settings.gpu,
           stage' = "threads" => settings.gpu,
           Good => Coming'
    PROVE  PicturesInv'
<1>1. Good' => Good
  BY SamePictures DEF Good, NoneMade
<1> QED BY <1>1 DEF PicturesInv, NoneMade

LEMMA SetUpMakesNone ==
    ASSUME PicturesInv, CallInv', SetUp, NoneMade
    PROVE  PicturesInv'
<1>0. UNCHANGED <<timeline, film, decoders, pictures>>
  BY DEF NoneMade
<1>1. CASE SetUp /\ ~Begin
  <2>1. /\ stage \in SetUpStages /\ stage' \in SetUpStages \cup {"failed"}
        /\ settings' = settings /\ sent' = sent
        /\ "pool" \in held' => "pool" \in held \/ settings.gpu
    BY <1>1 DEF SetUp, SetUpStages, Proceed, GiveUp, vars, OpenOutput, FindEncoder, CreatePool,
       OpenEncoder, AddStream, OpenAudio, OpenFile, WriteHeader, InitConverters
  <2>2. ASSUME Good PROVE Coming'
    <3>1. Follows(decoders, 0) /\ SentDue
      BY <2>1, <2>2 DEF PicturesInv, Coming
    <3>2. Follows(decoders, 0)'
      BY <1>0, <3>1, SamePictures
    <3>3. SentDue'
      BY <1>0, <2>1, <3>1, SamePictures DEF SentDue
    <3> QED BY <2>1, <3>2, <3>3 DEF Coming, SetUpStages
  <2> QED BY <2>1, <2>2, NoneMadeKeeps DEF PicturesInv, SetUpStages
<1>2. CASE Begin
  <2>1. stage = "session" /\ AtStart /\ settings' = settings
    BY <1>2 DEF Begin, PicturesInv, CallInv, SetUpStages
  <2>2. /\ f' = 0 /\ frame' = 0 /\ sent' = <<>>
        /\ \/ stage' = "threads" /\ prod' = "render" /\ "pool" \in held
           \/ stage' = "alone"
    BY <1>2, <2>1 DEF Begin, AtStart, consumerVars
  <2>3. stage' = "threads" => settings.gpu
    BY <2>1, <2>2 DEF PicturesInv, SetUpStages
  <2>4. ASSUME Good PROVE Coming'
    <3>1. Follows(decoders, 0)'
      BY <1>0, <2>1, <2>4, SamePictures DEF PicturesInv, Coming, SetUpStages
    <3>2. \A i \in Frames : ~(i < 0)
      BY PipelineAssumption
    <3>3. SentDue'
      BY <2>2 DEF SentDue
    <3>4. stage' = "threads" => Reached' = 0
      BY <2>2 DEF Reached
    <3>5. stage' = "threads" => Made(Reached)' /\ Follows(decoders, Reached)'
      BY <3>1, <3>2, <3>4 DEF Made, Follows
    <3>6. stage' = "alone" => Made(frame)' /\ Follows(decoders, frame)'
      BY <2>2, <3>1, <3>2 DEF Made, Follows
    <3> QED BY <2>2, <3>3, <3>5, <3>6 DEF Coming, SetUpStages
  <2> QED BY <2>1, <2>2, <2>3, <2>4, NoneMadeKeeps DEF SetUpStages
<1> QED BY <1>1, <1>2

\* The threads between two pictures: what is sent was made.
LEMMA ThreadsMakeNone ==
    ASSUME PicturesInv, CallInv', NoneMade, stage = "threads", UNCHANGED <<settings, stage, held>>,
           [Next]_vars, ~Render, ~Return
    PROVE  PicturesInv'
<1>0. UNCHANGED <<timeline, film, decoders, pictures>>
  BY DEF NoneMade
<1>1. SafeInv /\ settings.gpu
  BY DEF PicturesInv, CallInv
<1>2. TypeOK
  BY <1>1 DEF SafeInv
<1>3. /\ Reached \in Int /\ Reached' \in Int /\ Reached' <= Reached
      /\ prod' \in {"render", "put", "asleep"} =>
            Reached' = Reached /\ prod \in {"render", "put", "asleep"}
      /\ f <= Reached
  <2>0. f \in Int /\ f <= Reached /\ Reached \in Int
    BY <1>2 DEF TypeOK, Reached
  <2>1. CASE Put
    BY <2>0, <2>1 DEF Put, Reached
  <2>2. CASE PutCancelled
    BY <2>0, <2>2 DEF PutCancelled, Reached
  <2>3. CASE RenderedAll
    BY <2>0, <2>3 DEF RenderedAll, Reached
  <2>4. CASE PutWait
    BY <2>0, <2>4 DEF PutWait, Reached
  <2>5. CASE ProducerDone
    BY <2>0, <2>5 DEF ProducerDone, Reached
  <2>6. CASE Take
    BY <2>0, <2>6 DEF Take, WakeProducer, Reached
  <2>7. CASE LoopTest \/ TakeWait \/ Encode \/ Join \/ Cancel \/ UNCHANGED vars
    BY <2>0, <2>7 DEF LoopTest, TakeWait, Encode, Join, Cancel, vars, producerVars, Reached
  <2>8. CASE SpuriousWake
    BY <2>0, <2>8 DEF SpuriousWake, WakeProducer, producerVars, Reached
  <2> QED BY <2>1, <2>2, <2>3, <2>4, <2>5, <2>6, <2>7, <2>8 DEF Next, Producer, Consumer
<1>4. sent' = sent \/ \E x \in Frames : sent' = Append(sent, x) /\ x < f
  <2>1. CASE Encode
    <3>1. CASE toSend \in {<<>>, <<Miss>>}
      BY <2>1, <3>1 DEF Encode
    <3>2. CASE toSend \notin {<<>>, <<Miss>>}
      <4>1. PICK x \in Slot : toSend = <<x>>
        BY <1>1, <3>2 DEF SafeInv, Order
      <4>2. x # Miss /\ toSend[1] = x /\ toSend # <<>>
        BY <3>2, <4>1
      <4>3. x < f
        BY <1>1, <4>2 DEF SafeInv, Order
      <4>4. sent' = sent \o <<x>>
        BY <2>1, <3>2, <4>1 DEF Encode
      <4>5. sent \in Seq(Frames)
        BY <1>2 DEF TypeOK
      <4>6. x \in Frames
        BY <4>2
      <4> QED BY <4>3, <4>4, <4>5, <4>6
    <3> QED BY <3>1, <3>2
  <2>2. CASE ~Encode
    BY <2>2 DEF Next, Producer, Consumer, LoopTest, Take, TakeWait, Join, RenderedAll, PutCancelled,
       Put, PutWait, ProducerDone, Cancel, SpuriousWake, consumerVars, vars
  <2> QED BY <2>1, <2>2
<1>5. ASSUME Good PROVE Coming'
  <2>1. /\ Made(Reached) /\ SentDue
        /\ prod \in {"render", "put", "asleep"} => Follows(decoders, Reached)
    BY <1>5 DEF PicturesInv, Coming
  <2>2. Made(Reached)'
    <3>1. ASSUME NEW i \in Frames, i < Reached' PROVE pictures'[i] = Due(i)'
      <4>1. i < Reached
        BY <1>3, <3>1, PipelineAssumption
      <4>2. pictures[i] = Due(i)
        BY <2>1, <4>1 DEF Made
      <4> QED BY <1>0, <4>2, SamePictures
    <3> QED BY <3>1 DEF Made
  <2>3. prod' \in {"render", "put", "asleep"} => Follows(decoders, Reached)'
    <3>1. ASSUME NEW n, n = Reached, Reached' = n, Follows(decoders, n) PROVE Follows(decoders, Reached)'
      BY <1>0, <3>1 DEF Follows, Sits
    <3> QED BY <1>3, <2>1, <3>1
  <2>4. SentDue'
    <3>1. CASE sent' = sent
      BY <1>0, <2>1, <3>1, SamePictures DEF SentDue
    <3>2. ASSUME NEW x \in Frames, sent' = Append(sent, x), x < f PROVE SentDue'
      <4>1. sent \in Seq(Frames)
        BY <1>2 DEF TypeOK
      <4>2. x < Reached
        BY <1>2, <1>3, <3>2, PipelineAssumption DEF TypeOK
      <4>3. pictures[x] = Due(x)
        BY <2>1, <4>2 DEF Made
      <4>4. ASSUME NEW i \in 1..Len(sent') PROVE pictures[sent'[i]] = Due(sent'[i])
        <5>1. CASE i \in 1..Len(sent)
          <6>1. sent'[i] = sent[i]
            BY <3>2, <4>1, <5>1
          <6> QED BY <2>1, <5>1, <6>1 DEF SentDue
        <5>2. CASE i \notin 1..Len(sent)
          <6>1. sent'[i] = x
            BY <3>2, <4>1, <4>4, <5>2
          <6> QED BY <4>3, <6>1
        <5> QED BY <5>1, <5>2
      <4> QED BY <1>0, <4>4, SamePictures DEF SentDue
    <3> QED BY <1>4, <3>1, <3>2
  <2> QED BY <2>2, <2>3, <2>4 DEF Coming, SetUpStages
<1> QED BY <1>1, <1>5, NoneMadeKeeps DEF PicturesInv, SetUpStages

\* A step that moves no frame.
LEMMA NothingMoves ==
    ASSUME PicturesInv, CallInv', NoneMade, UNCHANGED <<settings, sent, frame, prod, f>>,
           UNCHANGED <<stage, held>> \/ stage' \in Ended
    PROVE  PicturesInv'
<1>0. UNCHANGED <<timeline, film, decoders, pictures>>
  BY DEF NoneMade
<1>1. ASSUME Good PROVE Coming'
  <2>1. Coming
    BY <1>1 DEF PicturesInv
  <2>2. SentDue'
    BY <1>0, <2>1, SamePictures DEF SentDue, Coming
  <2>3. \A n : Follows(decoders, n)' <=> Follows(decoders, n)
    BY <1>0, SamePictures
  <2>4. ASSUME stage' \in SetUpStages PROVE Follows(decoders, 0)'
    BY <2>1, <2>3, <2>4 DEF Coming, Ended, SetUpStages
  <2>5. ASSUME stage' = "threads"
        PROVE  Made(Reached)' /\ (prod' \in {"render", "put", "asleep"} => Follows(decoders, Reached)')
    <3>1. stage = "threads"
      BY <2>5 DEF Ended
    <3>2. /\ Made(Reached)
          /\ prod \in {"render", "put", "asleep"} => Follows(decoders, Reached)
      BY <2>1, <3>1 DEF Coming
    <3>3. Reached' = Reached
      BY DEF Reached
    <3>4. Made(Reached)'
      BY <1>0, <3>2, <3>3, SamePictures DEF Made
    <3>5. ASSUME NEW n, n = Reached, Reached' = n, Follows(decoders, n) PROVE Follows(decoders, Reached)'
      BY <1>0, <3>5 DEF Follows, Sits
    <3> QED BY <3>1, <3>2, <3>3, <3>4, <3>5
  <2>6. ASSUME stage' = "alone"
        PROVE  Made(frame)' /\ (frame' < Total => Follows(decoders, frame)')
    <3>1. stage = "alone"
      BY <2>6 DEF Ended
    <3>2. Made(frame) /\ (frame < Total => Follows(decoders, frame))
      BY <2>1, <3>1 DEF Coming
    <3>3. Made(frame)'
      BY <1>0, <3>2, SamePictures DEF Made
    <3>4. frame < Total => Follows(decoders, frame)'
      BY <1>0, <3>2 DEF Follows, Sits
    <3> QED BY <3>3, <3>4
  <2> QED BY <2>2, <2>4, <2>5, <2>6 DEF Coming
<1> QED BY <1>1, NoneMadeKeeps DEF PicturesInv, Ended, SetUpStages

\* The frame made is the one due, and all that were sent came before it.
LEMMA MadeOneMore ==
    ASSUME PicturesInv, NEW n \in Frames, Made(n), SentDue, UNCHANGED <<timeline, film>>,
           \A i \in 1..Len(sent) : sent[i] \in Frames /\ sent[i] < n,
           NEW shot, Shows(n, shot), shot.pics = Due(n)
    PROVE  /\ \A i \in Frames : i < n + 1 => pictures'[i] = Due(i)'
           /\ \A i \in 1..Len(sent) : pictures'[sent[i]] = Due(sent[i])
           /\ pictures' = [i \in Frames |-> pictures'[i]]
<1>1. pictures' = [pictures EXCEPT ![n] = Due(n)]
  BY DEF Shows
<1>2. pictures = [i \in Frames |-> pictures[i]]
  BY DEF PicturesInv
<1>3. /\ pictures'[n] = Due(n)
      /\ \A i \in Frames : i # n => pictures'[i] = pictures[i]
      /\ pictures' = [i \in Frames |-> pictures'[i]]
  BY <1>1, <1>2
<1>4. ASSUME NEW i \in Frames, i < n + 1 PROVE pictures'[i] = Due(i)'
  <2>1. CASE i = n
    BY <1>3, <2>1, SamePictures
  <2>2. CASE i # n
    <3>1. i < n
      BY <1>4, <2>2
    <3> QED BY <1>3, <2>2, <3>1, SamePictures DEF Made
  <2> QED BY <2>1, <2>2
<1>5. ASSUME NEW i \in 1..Len(sent) PROVE pictures'[sent[i]] = Due(sent[i])
  <2>1. sent[i] \in Frames /\ sent[i] # n
    OBVIOUS
  <2>2. pictures[sent[i]] = Due(sent[i])
    BY DEF SentDue
  <2> QED BY <1>3, <2>1, <2>2
<1> QED BY <1>3, <1>4, <1>5

LEMMA SentStays ==
    ASSUME UNCHANGED <<timeline, film>>,
           \A i \in 1..Len(sent') : \E x : sent'[i] = x /\ pictures'[x] = Due(x)
    PROVE  SentDue'
BY SamePictures DEF SentDue

LEMMA FollowsOn ==
    ASSUME UNCHANGED <<timeline, film>>, NEW n, Follows(decoders', n)
    PROVE  /\ Reached' = n => Follows(decoders, Reached)'
           /\ frame' = n => Follows(decoders, frame)'
BY DEF Follows, Sits

LEMMA GpuTracks ==
    ASSUME NEW R, NEW decs, decs = [t \in Tracks |-> decs[t]]
    PROVE  FrameGpu(decs, R).decs = [t \in Tracks |-> FrameGpu(decs, R).decs[t]]
<1> DEFINE first == CHOOSE t \in Covered(R) : \A u \in Covered(R) : t <= u
           slot == Opened(decs[first], ClipAt(first, R))
           r == DecodeToHw(slot.dec, SrcFrame(ClipAt(first, R), R))
           after == [slot EXCEPT !.dec = r.dec]
<1>1. FrameGpu(decs, R).decs \in {decs, [decs EXCEPT ![first] = after]}
  BY DEF FrameGpu
<1> HIDE DEF first, after
<1> QED BY <1>1

LEMMA ProduceMakes ==
    ASSUME Last >= 1, \A n \in Durations : TakenFor(n), PicturesInv, CallInv', Produce
    PROVE  PicturesInv'
<1>1. /\ stage = "threads" /\ Render /\ UNCHANGED <<settings, stage, held>>
      /\ settings.gpu /\ SafeInv /\ TypeOK
  BY DEF Produce, WithThreads, PicturesInv, CallInv, SafeInv
<1>2. /\ f \in Frames /\ prod = "render" /\ f' = f /\ prod' = "put" /\ sent' = sent
      /\ Reached = f /\ Reached' = f + 1
  BY <1>1 DEF Render, TypeOK, Reached, consumerVars
<1>3. PICK gpu : gpu = FrameGpu(decoders, f)
  OBVIOUS
<1>4. PICK shot : Shows(f, shot) /\ ((shot = gpu /\ gpu.ok) \/ shot = Composite(gpu.decs, f))
  BY <1>3 DEF Produce
<1>5. UNCHANGED <<timeline, film>>
  BY <1>4 DEF Shows
<1>6. Laid
  BY InvLaid
<1>7. decoders = [t \in Tracks |-> decoders[t]]
  BY DEF PicturesInv
<1>8. ASSUME Good
      PROVE  shot.pics = Due(f) /\ Follows(shot.decs, f + 1)
  <2>1. ~(film.hw /\ Slow)
    BY <1>1, <1>8 DEF Good
  <2>2. Follows(decoders, f)
    BY <1>1, <1>2, <1>8 DEF PicturesInv, Coming
  <2>3. f \in Nat
    BY <1>2
  <2>4. Tracks \subseteq Nat /\ IsFiniteSet(Tracks)
    BY PicturesAssumption
  <2>5. /\ Prepared(gpu.decs, f)
        /\ gpu.ok => gpu.pics = Due(f) /\ Follows(gpu.decs, f + 1)
    BY <1>3, <1>6, <1>7, <2>1, <2>2, <2>3, <2>4, FrameGpuWorks
  <2>6. PICK decs : decs = gpu.decs
    OBVIOUS
  <2>7. Follows(Composite(decs, f).decs, f + 1) /\ Composite(decs, f).pics = Due(f)
    BY <1>6, <2>3, <2>5, <2>6, CompositeWorks
  <2> QED BY <1>4, <2>5, <2>6, <2>7
<1>9. pictures' = [n \in Frames |-> pictures'[n]]
  <2>1. pictures = [n \in Frames |-> pictures[n]]
    BY DEF PicturesInv
  <2>2. pictures' = [pictures EXCEPT ![f] = shot.pics]
    BY <1>4 DEF Shows
  <2> QED BY <2>1, <2>2
<1>10. decoders' = [t \in Tracks |-> decoders'[t]]
  <2>1. decoders' = shot.decs
    BY <1>4 DEF Shows
  <2>2. CASE shot = Composite(gpu.decs, f)
    BY <2>1, <2>2 DEF Composite
  <2>3. CASE shot = gpu /\ gpu.ok
    <3>1. gpu.decs = [t \in Tracks |-> gpu.decs[t]]
      BY <1>3, <1>7, GpuTracks
    <3> QED BY <2>1, <2>3, <3>1
  <2> QED BY <1>4, <2>2, <2>3
<1>11. ASSUME Good PROVE Coming'
  <2>1. Made(f) /\ SentDue
    BY <1>1, <1>2, <1>11 DEF PicturesInv, Coming
  <2>2. \A i \in 1..Len(sent) : sent[i] \in Frames /\ sent[i] < f
    BY <1>1 DEF SafeInv, Order, TypeOK
  <2>3. /\ \A i \in Frames : i < f + 1 => pictures'[i] = Due(i)'
        /\ \A i \in 1..Len(sent) : pictures'[sent[i]] = Due(sent[i])
    BY <1>2, <1>4, <1>5, <1>8, <1>11, <2>1, <2>2, MadeOneMore
  <2>4. Made(Reached)' /\ SentDue'
    BY <1>2, <1>5, <2>3, SentStays DEF Made
  <2>5. Follows(decoders, Reached)'
    <3>1. PICK n : n = f + 1
      OBVIOUS
    <3>2. Follows(decoders', n) /\ Reached' = n
      BY <1>2, <1>4, <1>8, <1>11, <3>1 DEF Shows
    <3> QED BY <1>5, <3>2, FollowsOn
  <2> QED BY <1>1, <2>4, <2>5 DEF Coming, SetUpStages
<1>12. Good' => Good
  BY <1>1, <1>5, SamePictures DEF Good
<1> QED BY <1>1, <1>5, <1>9, <1>10, <1>11, <1>12 DEF PicturesInv, SetUpStages

LEMMA ProduceAloneMakes ==
    ASSUME Last >= 1, \A n \in Durations : TakenFor(n), PicturesInv, CallInv', ProduceAlone
    PROVE  PicturesInv'
<1>1. /\ stage = "alone" /\ AlonePass /\ UNCHANGED <<settings, stage, held>>
      /\ AloneInv /\ TypeOK /\ frame' = frame + 1 /\ frame \in Nat
      /\ UNCHANGED <<timeline, film>>
  BY DEF ProduceAlone, AlonePass, PicturesInv, CallInv, AloneInv, Shows, TypeOK
<1>2. Laid
  BY InvLaid
<1>3. Good' => Good
  BY <1>1, SamePictures DEF Good
<1>4. /\ decoders' = [t \in Tracks |-> decoders'[t]]
      /\ pictures' = [n \in Frames |-> pictures'[n]]
  <2>1. CASE frame < Total
    <3>1. /\ decoders' = Composite(decoders, frame).decs
          /\ pictures' = [pictures EXCEPT ![frame] = Composite(decoders, frame).pics]
      BY <2>1 DEF ProduceAlone, Shows
    <3>2. decoders' = [t \in Tracks |-> decoders'[t]]
      BY <3>1 DEF Composite
    <3>3. pictures = [n \in Frames |-> pictures[n]]
      BY DEF PicturesInv
    <3> QED BY <3>1, <3>2, <3>3
  <2>2. CASE ~(frame < Total)
    BY <2>2 DEF ProduceAlone, PicturesInv
  <2> QED BY <2>1, <2>2
<1>5. ASSUME Good PROVE Coming'
  <2>1. /\ Made(frame) /\ SentDue
        /\ frame < Total => Follows(decoders, frame)
    BY <1>1, <1>5 DEF PicturesInv, Coming
  <2>2. CASE frame < Total
    <3>1. /\ frame \in Frames /\ sent \in Seq(Frames)
          /\ sent' = sent \/ sent' = Append(sent, frame)
      BY <1>1, <2>2 DEF AlonePass, TypeOK
    <3>2. PICK shot : shot = Composite(decoders, frame)
      OBVIOUS
    <3>3. Shows(frame, shot)
      BY <2>2, <3>2 DEF ProduceAlone
    <3>4. Follows(shot.decs, frame + 1) /\ shot.pics = Due(frame)
      <4>1. Prepared(decoders, frame)
        BY <1>1, <1>2, <2>1, <2>2, FollowsPrepares
      <4> QED BY <1>1, <1>2, <3>2, <4>1, CompositeWorks
    <3>5. \A i \in 1..Len(sent) : sent[i] \in Frames /\ sent[i] < frame
      BY <1>1, <2>2, <3>1 DEF AloneInv
    <3>6. /\ \A i \in Frames : i < frame + 1 => pictures'[i] = Due(i)'
          /\ \A i \in 1..Len(sent) : pictures'[sent[i]] = Due(sent[i])
      BY <1>1, <2>1, <3>1, <3>3, <3>4, <3>5, MadeOneMore
    <3>7. Made(frame)'
      BY <1>1, <3>6 DEF Made
    <3>8. SentDue'
      <4>1. ASSUME NEW i \in 1..Len(sent') PROVE \E x : sent'[i] = x /\ pictures'[x] = Due(x)
        <5>1. CASE i \in 1..Len(sent)
          <6>1. sent'[i] = sent[i]
            BY <3>1, <5>1
          <6> QED BY <3>6, <5>1, <6>1
        <5>2. CASE i \notin 1..Len(sent)
          <6>1. sent' = Append(sent, frame) /\ sent'[i] = frame
            BY <3>1, <4>1, <5>2
          <6>2. PICK x \in Frames : x = frame
            BY <3>1
          <6>3. pictures'[x] = Due(x)
            BY <1>1, <3>6, <6>2, SamePictures
          <6> QED BY <6>1, <6>2, <6>3
        <5> QED BY <5>1, <5>2
      <4> QED BY <1>1, <4>1, SentStays
    <3>9. Follows(decoders, frame)'
      <4>1. PICK n : n = frame + 1
        OBVIOUS
      <4>2. Follows(decoders', n) /\ frame' = n
        BY <1>1, <3>3, <3>4, <4>1 DEF Shows
      <4> QED BY <1>1, <4>2, FollowsOn
    <3> QED BY <1>1, <3>7, <3>8, <3>9 DEF Coming, SetUpStages
  <2>3. CASE ~(frame < Total)
    <3>1. sent' = sent /\ pictures' = pictures /\ ~(frame' < Total)
      BY <1>1, <2>3 DEF AlonePass, ProduceAlone
    <3>2. \A i \in Frames : pictures'[i] = Due(i)'
      <4>1. \A i \in Frames : i < frame
        BY <1>1, <2>3
      <4> QED BY <1>1, <2>1, <3>1, <4>1, SamePictures DEF Made
    <3>3. Made(frame)'
      BY <3>2 DEF Made
    <3>4. SentDue'
      BY <1>1, <2>1, <3>1, SentStays DEF SentDue
    <3> QED BY <1>1, <3>1, <3>3, <3>4 DEF Coming, SetUpStages
  <2> QED BY <2>2, <2>3
<1> QED BY <1>1, <1>3, <1>4, <1>5 DEF PicturesInv, SetUpStages

LEMMA PicturesStep ==
    ASSUME Last >= 1, \A n \in Durations : TakenFor(n)
    PROVE  PicturesInv /\ [PicturesNext]_pictureVars => PicturesInv'
<1> SUFFICES ASSUME PicturesInv, [PicturesNext]_pictureVars PROVE PicturesInv'
  OBVIOUS
<1>1. CallInv'
  <2>1. [ProjectNext]_projectVars
    BY StepOfCall
  <2> QED BY <2>1, CallStep DEF PicturesInv
<1>2. CASE Produce
  BY <1>1, <1>2, ProduceMakes
<1>3. CASE ProduceAlone
  BY <1>1, <1>3, ProduceAloneMakes
<1>4. CASE SetUp /\ NoneMade
  BY <1>1, <1>4, SetUpMakesNone
<1>5. CASE (\/ WithThreads(LoopTest \/ Take \/ TakeWait \/ Encode \/ Join)
            \/ WithThreads(RenderedAll \/ PutCancelled \/ Put \/ PutWait \/ ProducerDone)
            \/ WithThreads(SpuriousWake)) /\ NoneMade
  <2>1. stage = "threads" /\ UNCHANGED <<settings, stage, held>> /\ Next /\ NoneMade
    BY <1>5 DEF WithThreads, Next, Producer, Consumer
  <2>2. ~Render /\ ~Return
    BY <1>5 DEF WithThreads, Render, Return, LoopTest, Take, TakeWait, Encode, Join, RenderedAll,
       PutCancelled, Put, PutWait, ProducerDone, SpuriousWake, WakeProducer, WakeConsumer,
       producerVars, consumerVars
  <2> QED BY <1>1, <2>1, <2>2, ThreadsMakeNone
<1>6. CASE (AloneTest \/ Finish \/ (Cancel /\ UNCHANGED <<settings, stage, held>>)) /\ NoneMade
  <2>1. /\ UNCHANGED <<settings, sent, frame, prod, f>>
        /\ UNCHANGED <<stage, held>> \/ stage' \in Ended
    BY <1>6 DEF AloneTest, Finish, Return, Cancel, producerVars, consumerVars, Ended
  <2> QED BY <1>1, <1>6, <2>1, NothingMoves
<1>7. CASE UNCHANGED pictureVars
  BY <1>1, <1>7, NothingMoves DEF pictureVars, projectVars, vars, NoneMade
<1> QED BY <1>2, <1>3, <1>4, <1>5, <1>6, <1>7 DEF PicturesNext, Others

\* Every frame the encoder is given shows what the timeline has there, in either
\* branch and however the two ways of decoding alternate (renderer.cpp,
\* video_decoder.cpp, sw_decode.cpp), for a film of more than one frame whose
\* container states no length or one that is not too short.
THEOREM DuePicturesCorrect ==
    ASSUME Last >= 1, \A n \in Durations : TakenFor(n)
    PROVE  PicturesSpec => []DuePictures
<1>1. PicturesInit => PicturesInv
  BY PicturesStart
<1>2. PicturesInv /\ [PicturesNext]_pictureVars => PicturesInv'
  BY PicturesStep
<1>3. PicturesInv => DuePictures
  BY DEF PicturesInv, Good, Coming, SentDue, DuePictures
<1> QED BY <1>1, <1>2, <1>3, PTL DEF PicturesSpec
=============================================================================
