----------------------------- MODULE JobManager -----------------------------
(***************************************************************************)
(* jobs/manager.py: the jobs of one process, the asyncio task of each job  *)
(* and of each of its clips, the semaphore they share, the idempotency     *)
(* index with its file, cancellation, the retention sweep and the restart  *)
(* of the process.                                                         *)
(*                                                                         *)
(* Code between two awaits runs at once, so an action is what a task does  *)
(* from one await to the next.  task.cancel() only marks the task: it gets *)
(* CancelledError where it waits, when it runs next.                       *)
(***************************************************************************)
EXTENDS Integers, FiniteSets

CONSTANTS
  JobIds,         \* the ids that uuid4 hands out
  Keys,           \* idempotency keys: (source hash, clips hash, config hash)
  Clips,
  ClipsOf,        \* [Keys -> SUBSET Clips]: the selected clips
  None,
  MaxConcurrent,  \* MAX_CONCURRENT_JOBS
  MaxRestarts,    \* bound: restarts of the process
  MaxFaults       \* bound: failed writes

ASSUME ConstantsAssumption ==
  /\ ClipsOf \in [Keys -> SUBSET Clips]
  /\ IsFiniteSet(JobIds) /\ IsFiniteSet(Clips)
  /\ MaxConcurrent \in Nat \ {0}
  /\ {MaxRestarts, MaxFaults} \subseteq Nat
  /\ None \notin JobIds

JobStatus == {"QUEUED", "VALIDATING", "PROCESSING", "COMPLETED", "FAILED", "CANCELLED"}
ClipStatus == {"QUEUED", "PROCESSING", "COMPLETED", "FAILED", "CANCELLED"}

(* Job and its ClipResults (models.py).                                     *)
JobType == [key : Keys, status : JobStatus, clips : UNION {[S -> ClipStatus] : S \in SUBSET Clips}]

ASSUME NoneAssumption == None \notin JobType

VARIABLES
  job,         \* _jobs: None, or [key, status, clips]
  task,        \* where the task of each job waits
  child,       \* where the task of each clip waits
  cancelling,  \* job tasks marked by task.cancel()
  dying,       \* clip tasks marked by the cancellation of their gather
  index,       \* _idempotency_index
  saved,       \* its file
  dirs,        \* job directories on disk
  old,         \* those that have not been written to for RETENTION_HOURS
  outputs,     \* finished clip files, as <<job, clip>>
  ffmpeg,      \* running ffmpeg processes, as <<job, clip>>
  lost,        \* job directories deleted by something else than the sweep
  spent        \* how much of each bound has been used

memory == <<job, task, child, cancelling, dying, index>>
disk   == <<saved, dirs, old, outputs, ffmpeg, lost>>
vars   == <<job, task, child, cancelling, dying, index, saved, dirs, old, outputs,
            ffmpeg, lost, spent>>

NoChildren == [c \in Clips |-> "none"]

Init ==
  /\ job = [j \in JobIds |-> None]
  /\ task = [j \in JobIds |-> "none"]
  /\ child = [j \in JobIds |-> NoChildren]
  /\ cancelling = {} /\ dying = {}
  /\ index = [k \in Keys |-> None] /\ saved = index
  /\ dirs = {} /\ old = {} /\ outputs = {} /\ ffmpeg = {} /\ lost = {}
  /\ spent = [restarts |-> 0, faults |-> 0]

-----------------------------------------------------------------------------
Known == {j \in JobIds : job[j] # None}
Selected(j) == ClipsOf[job[j].key]
Active == {j \in JobIds : task[j] \in {"start", "probe", "gather"}}
Children(j) == {c \in Clips : child[j][c] # "none"}

(* Mutant: an exception does not release the semaphore.                     *)
InSlotNotReleased ==
  {p \in JobIds \X Clips : child[p[1]][p[2]] \in {"running", "validating", "raised"}}

InSlot == {p \in JobIds \X Clips : child[p[1]][p[2]] \in {"running", "validating"}}
SlotFree == Cardinality(InSlot) < MaxConcurrent

Fault == /\ spent.faults < MaxFaults
         /\ spent' = [spent EXCEPT !.faults = @ + 1]

(* write_clip_metadata raises when the directory is gone, or by a fault.    *)
WriteFails(j) == IF j \in dirs THEN Fault ELSE UNCHANGED spent
WriteWorks(j) == j \in dirs /\ UNCHANGED spent

OutputsOnDisk(j) ==
  \A c \in Selected(j) : job[j].clips[c] = "COMPLETED" => <<j, c>> \in outputs

(* Mutant: the files are not looked for. *)
ReusableUnchecked(k) == index[k] \in Known /\ job[index[k]].status = "COMPLETED"

Reusable(k) ==
  /\ index[k] \in Known
  /\ job[index[k]].status = "COMPLETED"
  /\ OutputsOnDisk(index[k])

(* create_job: reuse the indexed job, ...                                   *)
ReuseJob(k) == Reusable(k) /\ UNCHANGED vars

(* ... or drop an entry that proved stale and start a new job.              *)
CreateJob(k) ==
  /\ ~ Reusable(k)
  /\ index' = IF index[k] \in Known THEN [index EXCEPT ![k] = None] ELSE index
  /\ \E j \in JobIds :
       /\ task[j] = "none"
       /\ job' = [job EXCEPT ![j] =
            [key |-> k, status |-> "QUEUED",
             clips |-> [c \in ClipsOf[k] |-> "QUEUED"]]]
       /\ task' = [task EXCEPT ![j] = "start"]
       /\ dirs' = dirs \cup {j}
  /\ UNCHANGED <<child, cancelling, dying, saved, old, outputs, ffmpeg, lost, spent>>

Marked(j) == j \in cancelling

(* _run_job up to the probe.  The source is copied into the directory, which*)
(* is made again if it is gone; the job fails if the source is gone or the  *)
(* copy does.  Nobody sees DOWNLOADING and DOWNLOADED: there is no await in *)
(* between.                                                                 *)
StartJob(j) ==
  /\ task[j] = "start" /\ ~ Marked(j)
  /\ \/ /\ task' = [task EXCEPT ![j] = "probe"]
        /\ job' = [job EXCEPT ![j].status = "VALIDATING"]
        /\ dirs' = dirs \cup {j} /\ old' = old \ {j}
     \/ /\ task' = [task EXCEPT ![j] = "done"]
        /\ job' = [job EXCEPT ![j].status = "FAILED"]
        /\ \/ dirs' = dirs \cup {j} /\ old' = old \ {j}
           \/ UNCHANGED <<dirs, old>>
  /\ UNCHANGED <<child, cancelling, dying, index, saved, outputs, ffmpeg, lost, spent>>

(* The end of _run_job, with these statuses of the clips.                   *)
JobOutcome(clips) ==
  IF DOMAIN clips = {} \/ \E c \in DOMAIN clips : clips[c] = "COMPLETED"
    THEN "COMPLETED" ELSE "FAILED"

(* The index gets its entry and is saved without an await in between; when  *)
(* the file cannot be written the entry stays and the job is FAILED.        *)
FinishJob(j, clips) ==
  /\ task' = [task EXCEPT ![j] = "done"]
  /\ IF JobOutcome(clips) = "FAILED"
       THEN /\ job' = [job EXCEPT ![j].status = "FAILED", ![j].clips = clips]
            /\ UNCHANGED <<index, saved, spent>>
       ELSE /\ index' = [index EXCEPT ![job[j].key] = j]
            /\ \/ /\ job' = [job EXCEPT ![j].status = "COMPLETED", ![j].clips = clips]
                  /\ saved' = index'
                  /\ UNCHANGED spent
               \/ /\ job' = [job EXCEPT ![j].status = "FAILED", ![j].clips = clips]
                  /\ Fault
                  /\ UNCHANGED saved

(* The probe is back: clips outside the video fail, a task for each of the  *)
(* others is made.                                                          *)
ProbeDone(j) ==
  /\ task[j] = "probe" /\ ~ Marked(j)
  /\ \E out \in SUBSET Selected(j) :
       LET clips == [c \in Selected(j) |->
                       IF c \in out THEN "FAILED" ELSE job[j].clips[c]]
           runnable == {c \in Selected(j) : clips[c] = "QUEUED"}
       IN  /\ out # {} => j \in dirs
           /\ IF runnable = {}
                THEN FinishJob(j, clips) /\ UNCHANGED child
                ELSE /\ task' = [task EXCEPT ![j] = "gather"]
                     /\ job' = [job EXCEPT ![j].status = "PROCESSING", ![j].clips = clips]
                     /\ child' = [child EXCEPT ![j] =
                          [c \in Clips |-> IF c \in runnable THEN "ready" ELSE "none"]]
                     /\ UNCHANGED <<index, saved, spent>>
           /\ old' = IF out # {} THEN old \ {j} ELSE old
  /\ UNCHANGED <<cancelling, dying, dirs, outputs, ffmpeg, lost>>

(* The probe fails, or the metadata of the clips outside the video cannot   *)
(* be written: the job fails and its other clips keep their status.         *)
ProbeFails(j) ==
  /\ task[j] = "probe" /\ ~ Marked(j)
  /\ \E out \in SUBSET Selected(j) :
       /\ IF out = {} THEN UNCHANGED spent ELSE WriteFails(j)
       /\ job' = [job EXCEPT ![j].status = "FAILED",
                             ![j].clips = [c \in Selected(j) |->
                                IF c \in out THEN "FAILED" ELSE job[j].clips[c]]]
  /\ task' = [task EXCEPT ![j] = "done"]
  /\ UNCHANGED <<child, cancelling, dying, index, disk>>

Live(j) == {c \in Clips : child[j][c] \in {"ready", "waiting", "running", "validating"}}
Raised(j) == \E c \in Clips : child[j][c] = "raised"

GatherDone(j) ==
  /\ task[j] = "gather" /\ ~ Marked(j)
  /\ Live(j) = {} /\ ~ Raised(j)
  /\ FinishJob(j, job[j].clips)
  /\ UNCHANGED <<child, cancelling, dying, dirs, old, outputs, ffmpeg, lost>>

(* Mutant: no handler for the exception. *)
GatherRaisesUnhandled(j) ==
  /\ task[j] = "gather" /\ ~ Marked(j)
  /\ Raised(j)
  /\ task' = [task EXCEPT ![j] = "done"]
  /\ UNCHANGED <<job, child, cancelling, dying, index, disk, spent>>

(* gather hands on the first exception and leaves the other clips running.  *)
GatherRaises(j) ==
  /\ task[j] = "gather" /\ ~ Marked(j)
  /\ Raised(j)
  /\ job' = [job EXCEPT ![j].status = "FAILED"]
  /\ task' = [task EXCEPT ![j] = "done"]
  /\ UNCHANGED <<child, cancelling, dying, index, disk, spent>>

Cancelled(j) == \E c \in Clips : child[j][c] = "cancelled"

(* CancelledError reaches _run_job: from gather at the end of the first of  *)
(* its clips that is cancelled (its siblings may still have to be told), or *)
(* at once when it has failed already or has no clip left to cancel.        *)
JobCancelled(j) ==
  /\ Marked(j)
  /\ task[j] = "gather" => Live(j) = {} \/ Raised(j) \/ Cancelled(j)
  /\ job' = [job EXCEPT ![j].status = "CANCELLED"]
  /\ task' = [task EXCEPT ![j] = "done"]
  /\ cancelling' = cancelling \ {j}
  /\ UNCHANGED <<child, dying, index, disk, spent>>

-----------------------------------------------------------------------------
(* _run_one_clip.  The object of a job that was swept lives on in its tasks;*)
(* what they write to it is not seen any more.                              *)
SetClip(j, c, status) ==
  job' = IF j \in Known THEN [job EXCEPT ![j].clips[c] = status] ELSE job

Waits(j, c, where) == child[j][c] = where /\ <<j, c>> \notin dying
Goes(j, c, where) == child' = [child EXCEPT ![j][c] = where]

NobodyWaits == \A j \in JobIds, c \in Clips : child[j][c] # "waiting"

(* PROCESSING is set before the semaphore is acquired. *)
StartClip(j, c) ==
  /\ Waits(j, c, "ready")
  /\ SetClip(j, c, "PROCESSING")
  /\ IF SlotFree /\ NobodyWaits
       THEN Goes(j, c, "running") /\ ffmpeg' = ffmpeg \cup {<<j, c>>} /\ old' = old \ {j}
       ELSE Goes(j, c, "waiting") /\ UNCHANGED <<ffmpeg, old>>
  /\ UNCHANGED <<task, cancelling, dying, index, saved, dirs, outputs, lost, spent>>

EnterSlot(j, c) ==
  /\ Waits(j, c, "waiting") /\ SlotFree
  /\ Goes(j, c, "running")
  /\ ffmpeg' = ffmpeg \cup {<<j, c>>} /\ old' = old \ {j}
  /\ UNCHANGED <<job, task, cancelling, dying, index, saved, dirs, outputs, lost, spent>>

(* ffmpeg exits with 0; the output is probed next. *)
EncodeDone(j, c) ==
  /\ Waits(j, c, "running")
  /\ Goes(j, c, "validating")
  /\ ffmpeg' = ffmpeg \ {<<j, c>>}
  /\ UNCHANGED <<job, task, cancelling, dying, index, saved, dirs, old, outputs, lost, spent>>

ClipCompletes(j, c) ==
  /\ Waits(j, c, "validating")
  /\ WriteWorks(j)
  /\ SetClip(j, c, "COMPLETED")
  /\ outputs' = outputs \cup {<<j, c>>} /\ old' = old \ {j}
  /\ Goes(j, c, "done")
  /\ UNCHANGED <<task, cancelling, dying, index, saved, dirs, ffmpeg, lost, spent>>

(* Mutant: the process is not killed at its timeout.                        *)
ClipFailsWithoutKill(j, c) ==
  /\ Waits(j, c, "running") \/ Waits(j, c, "validating")
  /\ WriteWorks(j)
  /\ SetClip(j, c, "FAILED")
  /\ Goes(j, c, "done") /\ old' = old \ {j}
  /\ UNCHANGED <<task, cancelling, dying, index, saved, dirs, outputs, ffmpeg, lost>>

(* ffmpeg fails or is killed at its timeout, the output is not valid, or    *)
(* the metadata of the completed clip cannot be written.  The clip FAILED;  *)
(* when its metadata cannot be written either, its task raises.             *)
ClipFails(j, c) ==
  /\ Waits(j, c, "running") \/ Waits(j, c, "validating")
  /\ SetClip(j, c, "FAILED")
  /\ ffmpeg' = ffmpeg \ {<<j, c>>}
  /\ \/ WriteWorks(j) /\ Goes(j, c, "done") /\ old' = old \ {j}
     \/ WriteFails(j) /\ Goes(j, c, "raised") /\ UNCHANGED old
  /\ UNCHANGED <<task, cancelling, dying, index, saved, dirs, outputs, lost>>

(* CancelledError: a clip inside the semaphore gets its status here, one    *)
(* that has not started or waits for the semaphore does not.  ffmpeg is not *)
(* told.                                                                    *)
ClipCancelled(j, c) ==
  /\ <<j, c>> \in dying
  /\ dying' = dying \ {<<j, c>>}
  /\ IF child[j][c] \in {"running", "validating"}
       THEN SetClip(j, c, "CANCELLED") ELSE UNCHANGED job
  /\ Goes(j, c, "cancelled")
  /\ UNCHANGED <<task, cancelling, index, disk, spent>>

OrphanExits(p) ==
  /\ p \in ffmpeg /\ child[p[1]][p[2]] # "running"
  /\ ffmpeg' = ffmpeg \ {p}
  /\ UNCHANGED <<memory, saved, dirs, old, outputs, lost, spent>>

-----------------------------------------------------------------------------
(* cancel_job.  The mutant leaves the clips whose tasks have started to     *)
(* their handlers.                                                          *)
CancellableNotStarted == {"QUEUED"}
Cancellable == {"QUEUED", "PROCESSING"}

(* Mutant: the task is not told. *)
MarkTaskNotTold(j) == UNCHANGED <<cancelling, dying>>

(* What task.cancel() does where the task waits.  A gather that has not     *)
(* failed is cancelled through its clips, and when there are none left, or  *)
(* it has failed already, the error is delivered to the job's task.  In the *)
(* moment between the failure of a clip and gather's notice of it the clips *)
(* are cancelled and the job still gets the failure.                        *)
MarkTask(j) ==
  \/ task[j] = "done" /\ UNCHANGED <<cancelling, dying>>
  \/ /\ task[j] \in {"start", "probe", "gather"}
     /\ cancelling' = cancelling \cup {j}
     /\ IF task[j] = "gather" /\ ~ Raised(j)
          THEN dying' = dying \cup ({j} \X Live(j)) ELSE UNCHANGED dying
  \/ /\ task[j] = "gather" /\ Raised(j) /\ Live(j) # {}
     /\ dying' = dying \cup ({j} \X Live(j))
     /\ UNCHANGED cancelling

CancelJob(j) ==
  /\ j \in Known
  /\ MarkTask(j)
  /\ job' = [job EXCEPT ![j].status = "CANCELLED",
       ![j].clips = [c \in Selected(j) |->
          IF job[j].clips[c] \in Cancellable THEN "CANCELLED" ELSE job[j].clips[c]]]
  /\ UNCHANGED <<task, child, index, disk, spent>>

-----------------------------------------------------------------------------
(* Retention. *)
Age(j) ==
  /\ j \in dirs \ old
  /\ old' = old \cup {j}
  /\ UNCHANGED <<memory, saved, dirs, outputs, ffmpeg, lost, spent>>

RemoveDirs(S) ==
  /\ dirs' = dirs \ S /\ old' = old \ S
  /\ outputs' = {p \in outputs : p[1] \notin S}

(* Mutant: the index keeps its entries. *)
ForgetJobsOnly(S) ==
  /\ job' = [j \in JobIds |-> IF j \in S THEN None ELSE job[j]]
  /\ UNCHANGED index

Forget(S) ==
  /\ job' = [j \in JobIds |-> IF j \in S THEN None ELSE job[j]]
  /\ index' = [k \in Keys |-> IF index[k] \in S THEN None ELSE index[k]]

(* active_ids of purge_expired; the mutant forgets to pass them on.         *)
ProtectedByNothing == {}
Protected == Active

(* purge_expired. *)
Sweep ==
  LET removed == (dirs \cap old) \ Protected IN
    /\ removed # {}
    /\ RemoveDirs(removed)
    /\ Forget(removed)
    /\ \/ saved' = (IF index' # index THEN index' ELSE saved) /\ UNCHANGED spent
       \/ index' # index /\ Fault /\ UNCHANGED saved
    /\ UNCHANGED <<task, child, cancelling, dying, ffmpeg, lost>>

(* scripts/cleanup_expired.py, from cron: nobody tells it what is running.  *)
CleanupScript ==
  /\ dirs \cap old # {}
  /\ RemoveDirs(dirs \cap old)
  /\ lost' = lost \cup (dirs \cap old)
  /\ UNCHANGED <<memory, saved, ffmpeg, spent>>

(* The process ends and starts again with what is on disk.                  *)
Restart ==
  /\ spent.restarts < MaxRestarts
  /\ spent' = [spent EXCEPT !.restarts = @ + 1]
  /\ job' = [j \in JobIds |-> None]
  /\ task' = [j \in JobIds |-> IF task[j] = "none" THEN "none" ELSE "done"]
  /\ child' = [j \in JobIds |-> NoChildren]
  /\ cancelling' = {} /\ dying' = {}
  /\ index' = saved
  /\ ffmpeg' \in {{}, ffmpeg}
  /\ UNCHANGED <<saved, dirs, old, outputs, lost>>

-----------------------------------------------------------------------------
JobStep(j) ==
  \/ StartJob(j) \/ ProbeDone(j) \/ ProbeFails(j)
  \/ GatherDone(j) \/ GatherRaises(j) \/ JobCancelled(j)

ClipStep(j, c) ==
  \/ StartClip(j, c) \/ EnterSlot(j, c) \/ EncodeDone(j, c)
  \/ ClipCompletes(j, c) \/ ClipFails(j, c) \/ ClipCancelled(j, c)

ManagerStep ==
  \/ \E k \in Keys : ReuseJob(k) \/ CreateJob(k)
  \/ \E j \in JobIds : JobStep(j) \/ CancelJob(j) \/ Age(j)
  \/ \E j \in JobIds, c \in Clips : ClipStep(j, c) \/ OrphanExits(<<j, c>>)
  \/ Sweep \/ CleanupScript

Next == ManagerStep \/ Restart

Spec == Init /\ [][Next]_vars

-----------------------------------------------------------------------------
(* Properties *)

Unresolved == {"QUEUED", "PROCESSING"}

(* The values the variables take; an active task belongs to a known job, a  *)
(* mark to a task that has still to be told.                                *)
TypeOK ==
  /\ \A j \in JobIds : job[j] = None \/ (job[j] \in JobType /\ DOMAIN job[j].clips = Selected(j))
  /\ task \in [JobIds -> {"none", "start", "probe", "gather", "done"}]
  /\ child \in [JobIds -> [Clips ->
       {"none", "ready", "waiting", "running", "validating", "done", "raised", "cancelled"}]]
  /\ Active \subseteq Known
  /\ cancelling \subseteq Active
  /\ dying \subseteq {p \in JobIds \X Clips : p[2] \in Live(p[1])}
  /\ {index, saved} \subseteq [Keys -> JobIds \cup {None}]
  /\ old \subseteq dirs /\ dirs \cup lost \subseteq JobIds
  /\ outputs \subseteq dirs \X Clips
  /\ ffmpeg \subseteq JobIds \X Clips
  /\ spent \in [restarts : 0 .. MaxRestarts, faults : 0 .. MaxFaults]

(* A job that says it is on its way has a task that will change that: no    *)
(* exception, cancellation or sweep leaves it QUEUED, VALIDATING or         *)
(* PROCESSING for ever (the watcher of auto_queue.py polls this status).    *)
RunningHasTask ==
  \A j \in Known : job[j].status \in {"QUEUED", "VALIDATING", "PROCESSING"} => j \in Active

(* When the task of a job has ended, each clip is resolved, wherever its    *)
(* own task was at a cancellation (not started, waiting for the semaphore,  *)
(* encoding, validating, still to be told of it) and whatever became of its *)
(* siblings.  Only a clip whose sibling's task raised may still be on its   *)
(* way, and only a job that failed before its clips were started leaves     *)
(* them QUEUED.                                                             *)
EndedIsResolved ==
  \A j \in Known \ Active : job[j].status # "FAILED" \/ Children(j) # {} =>
    \A c \in Selected(j) :
      job[j].clips[c] \in Unresolved => Raised(j) /\ c \in Live(j)

(* cancel_job is final: a cancelled job stays cancelled and none of its     *)
(* cancelled clips turns up COMPLETED or FAILED later, unless the job had   *)
(* been given up because a clip's task raised.                              *)
CancelSticks ==
  [][\A j \in Known : ~ Raised(j) /\ job'[j] # None =>
       /\ job[j].status = "CANCELLED" => job'[j].status = "CANCELLED"
       /\ \A c \in Selected(j) :
            job[j].clips[c] = "CANCELLED" => job'[j].clips[c] = "CANCELLED"]_vars

(* A reused job is the right one and at rest: it has the submitted key, its *)
(* task has ended, no clip of it is still being worked on, and each         *)
(* COMPLETED clip has its file.                                             *)
ReusedIsAtRest ==
  \A k \in Keys : Reusable(k) =>
    LET j == index[k] IN
      /\ job[j].key = k /\ j \notin Active /\ Live(j) = {}
      /\ \A c \in Selected(j) :
           job[j].clips[c] \notin Unresolved /\ (job[j].clips[c] = "COMPLETED" => <<j, c>> \in outputs)

(* The sweep keeps memory and disk together (manager.py:60-62): unless the  *)
(* cleanup script was there, each job in memory has its directory and each  *)
(* COMPLETED clip its file, and the index names no directory that is gone.  *)
(* An index read from the file after a restart may: create_job drops a      *)
(* stale entry from memory only.                                            *)
MemoryMatchesDisk ==
  /\ \A j \in Known \ lost :
       j \in dirs /\ \A c \in Selected(j) : job[j].clips[c] = "COMPLETED" => <<j, c>> \in outputs
  /\ spent.restarts = 0 => \A k \in Keys : index[k] # None => index[k] \in dirs \cup lost

(* A running ffmpeg process belongs to a clip that holds a slot, or to a    *)
(* job that was cancelled or belongs to an earlier life of the process.     *)
ProcessesAreAccountedFor ==
  \A p \in ffmpeg : child[p[1]][p[2]] = "running" \/ p[1] \notin Known
                      \/ job[p[1]].status = "CANCELLED" \/ Raised(p[1])
=============================================================================
