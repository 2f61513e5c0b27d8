-------------------------- MODULE JobManagerProofs --------------------------
(***************************************************************************)
(* Proofs about JobManager, for every set of jobs, keys and clips and      *)
(* every number of slots.                                                  *)
(*                                                                         *)
(* The inductive invariant says for each job what its status, its clips    *)
(* and its tasks allow to say of each other.  A step changes one job; the  *)
(* others keep what the invariant says of them (OthersKeep).               *)
(***************************************************************************)
EXTENDS JobManager, TLAPS

USE ConstantsAssumption

TaskPlaces == {"none", "start", "probe", "gather", "done"}
LivePlaces == {"ready", "waiting", "running", "validating"}
ClipPlaces == {"none", "done", "raised", "cancelled"} \cup LivePlaces

IsJob(x) == x \in [key : Keys, status : JobStatus, clips : [ClipsOf[x.key] -> ClipStatus]]

Shape ==
  /\ job = [j \in JobIds |-> job[j]]
  /\ task \in [JobIds -> TaskPlaces]
  /\ child \in [JobIds -> [Clips -> ClipPlaces]]
  /\ cancelling \subseteq JobIds
  /\ dying \subseteq JobIds \X Clips
  /\ {index, saved} \subseteq [Keys -> JobIds \cup {None}]
  /\ dirs \subseteq JobIds /\ old \subseteq JobIds /\ lost \subseteq JobIds
  /\ outputs \subseteq JobIds \X Clips /\ ffmpeg \subseteq JobIds \X Clips
  /\ spent \in [restarts : 0 .. MaxRestarts, faults : 0 .. MaxFaults]

-----------------------------------------------------------------------------
(* What the updates of the code do to a job.                                *)
LEMMA JobIsNotNone == \A x : IsJob(x) => x \in JobType /\ x # None
<1> SUFFICES ASSUME NEW x, IsJob(x) PROVE x \in JobType /\ x # None
  OBVIOUS
<1>1. x.key \in Keys /\ x.status \in JobStatus /\ x.clips \in [ClipsOf[x.key] -> ClipStatus]
  BY DEF IsJob
<1>2. ClipsOf[x.key] \in SUBSET Clips
  BY <1>1
<1>3. x.clips \in UNION {[S -> ClipStatus] : S \in SUBSET Clips}
  BY <1>1, <1>2
<1>4. x \in JobType
  BY <1>1, <1>3 DEF IsJob, JobType
<1> QED
  BY <1>4, NoneAssumption

LEMMA StatusSet ==
  ASSUME job = [j \in JobIds |-> job[j]], NEW j \in JobIds, IsJob(job[j]),
         NEW s \in JobStatus, job' = [job EXCEPT ![j].status = s]
  PROVE  /\ IsJob(job'[j]) /\ job'[j] # None
         /\ job'[j].status = s /\ job'[j].clips = job[j].clips /\ job'[j].key = job[j].key
         /\ \A i \in JobIds \ {j} : job'[i] = job[i]
         /\ job' = [i \in JobIds |-> job'[i]]
<1> DEFINE m == [job[j] EXCEPT !.status = s]
<1>1. IsJob(m) /\ m.status = s /\ m.clips = job[j].clips /\ m.key = job[j].key
  BY DEF IsJob
<1>2. job' = [job EXCEPT ![j] = m]
  OBVIOUS
<1> HIDE DEF m
<1>3. job'[j] = m /\ \A i \in JobIds \ {j} : job'[i] = job[i]
  BY <1>2
<1>4. job' = [i \in JobIds |-> job'[i]]
  BY <1>2
<1> QED
  BY <1>1, <1>3, <1>4, JobIsNotNone

LEMMA ClipsSet ==
  ASSUME job = [j \in JobIds |-> job[j]], NEW j \in JobIds, IsJob(job[j]),
         NEW s \in JobStatus, NEW clips \in [Selected(j) -> ClipStatus],
         job' = [job EXCEPT ![j].status = s, ![j].clips = clips]
  PROVE  /\ IsJob(job'[j]) /\ job'[j] # None
         /\ job'[j].status = s /\ job'[j].clips = clips /\ job'[j].key = job[j].key
         /\ \A i \in JobIds \ {j} : job'[i] = job[i]
         /\ job' = [i \in JobIds |-> job'[i]]
<1> DEFINE m == [job[j] EXCEPT !.status = s, !.clips = clips]
<1>1. IsJob(m) /\ m.status = s /\ m.clips = clips /\ m.key = job[j].key
  BY DEF IsJob, Selected
<1>2. job' = [job EXCEPT ![j] = m]
  OBVIOUS
<1> HIDE DEF m
<1>3. job'[j] = m /\ \A i \in JobIds \ {j} : job'[i] = job[i]
  BY <1>2
<1>4. job' = [i \in JobIds |-> job'[i]]
  BY <1>2
<1> QED
  BY <1>1, <1>3, <1>4, JobIsNotNone

LEMMA ClipSet ==
  ASSUME job = [j \in JobIds |-> job[j]], NEW j \in JobIds,
         job[j] = None \/ IsJob(job[j]),
         NEW c \in Clips, NEW s \in ClipStatus, SetClip(j, c, s)
  PROVE  /\ job[j] = None => job'[j] = None
         /\ job[j] # None =>
              /\ IsJob(job'[j]) /\ job'[j] # None
              /\ job'[j].status = job[j].status /\ job'[j].key = job[j].key
              /\ \A d \in Selected(j) :
                   job'[j].clips[d] = IF d = c THEN s ELSE job[j].clips[d]
         /\ \A i \in JobIds \ {j} : job'[i] = job[i]
         /\ job' = [i \in JobIds |-> job'[i]]
<1>1. CASE job[j] = None
  BY <1>1 DEF SetClip, Known
<1>2. CASE job[j] # None
  <2> DEFINE clips == [job[j].clips EXCEPT ![c] = s]
             m == [job[j] EXCEPT !.clips = clips]
  <2>1. clips \in [ClipsOf[job[j].key] -> ClipStatus]
    BY <1>2 DEF IsJob
  <2>2. \A d \in Selected(j) : clips[d] = IF d = c THEN s ELSE job[j].clips[d]
    BY <1>2 DEF IsJob, Selected
  <2>3. job' = [job EXCEPT ![j] = m]
    BY <1>2 DEF SetClip, Known
  <2> HIDE DEF clips
  <2>4. IsJob(m) /\ m.status = job[j].status /\ m.clips = clips /\ m.key = job[j].key
    BY <1>2, <2>1 DEF IsJob
  <2> HIDE DEF m
  <2>5. job'[j] = m /\ \A i \in JobIds \ {j} : job'[i] = job[i]
    BY <2>3
  <2>6. job' = [i \in JobIds |-> job'[i]]
    BY <2>3
  <2> QED
    BY <1>2, <2>2, <2>4, <2>5, <2>6, JobIsNotNone
<1> QED
  BY <1>1, <1>2

-----------------------------------------------------------------------------
(* The invariant, job by job.                                               *)
IsActive(j) == task[j] \in {"start", "probe", "gather"}
IsLive(j, c) == child[j][c] \in LivePlaces

Typed(j) ==
  /\ job[j] = None \/ IsJob(job[j])
  /\ IsActive(j) => job[j] # None
  /\ task[j] = "none" => job[j] = None
  /\ j \in cancelling => IsActive(j)
  /\ \A c \in Clips : <<j, c>> \in dying => IsLive(j, c)
  /\ task[j] \in {"none", "start", "probe"} => \A c \in Clips : child[j][c] = "none"
  /\ j \in old => j \in dirs
  /\ \A c \in Clips : <<j, c>> \in outputs => j \in dirs

(* What the status says of the tasks.                                       *)
StatusIsTrue(j) ==
  job[j] # None =>
    /\ job[j].status \in {"QUEUED", "VALIDATING", "PROCESSING"} => IsActive(j)
    /\ job[j].status = "COMPLETED" => ~ IsActive(j) /\ \A c \in Clips : ~ IsLive(j, c)
    /\ job[j].status = "CANCELLED" /\ IsActive(j) => Raised(j) \/ j \in cancelling

(* What becomes of a clip that is cancelled.                                *)
CancelHolds(j) ==
  job[j] # None /\ ~ Raised(j) =>
    /\ \A c \in Clips : <<j, c>> \in dying => job[j].status = "CANCELLED"
    /\ \A c \in Selected(j) : job[j].clips[c] = "CANCELLED" =>
         job[j].status = "CANCELLED" /\ (IsLive(j, c) => <<j, c>> \in dying)

(* Every clip that is still on its way has to be told of a cancellation.    *)
AllAreDying(j) == \A c \in Clips : IsLive(j, c) => <<j, c>> \in dying

(* Who is still responsible for a clip that is not resolved.  A task that   *)
(* has ended, or is marked, has left nobody but clips that are dying.       *)
SomeoneResolves(j) ==
  /\ (task[j] = "done" \/ j \in cancelling) /\ ~ Raised(j) => AllAreDying(j)
  /\ job[j] # None => \A c \in Selected(j) :
       /\ <<j, c>> \in dying => job[j].clips[c] \notin Unresolved
       /\ task[j] \in {"start", "probe"} => job[j].clips[c] \in {"QUEUED", "CANCELLED"}
       /\ task[j] \in {"start", "probe"} /\ j \in cancelling => job[j].clips[c] = "CANCELLED"
       /\ task[j] = "gather" => job[j].clips[c] \notin Unresolved \/ IsLive(j, c)
       /\ ~ IsActive(j) /\ (job[j].status # "FAILED" \/ Children(j) # {}) =>
            job[j].clips[c] \notin Unresolved \/ IsLive(j, c)

ProcessIsAccountedFor(j) ==
  \A c \in Clips : <<j, c>> \in ffmpeg =>
    /\ task[j] # "none"
    /\ child[j][c] = "running" \/ job[j] = None \/ job[j].status = "CANCELLED" \/ Raised(j)

IndexNames(j) ==
  \A k \in Keys : index[k] = j \/ saved[k] = j =>
    task[j] # "none" /\ (job[j] # None => job[j].key = k)

OnDisk(j) ==
  /\ job[j] # None /\ j \notin lost =>
       j \in dirs /\ \A c \in Selected(j) : job[j].clips[c] = "COMPLETED" => <<j, c>> \in outputs
  /\ spent.restarts = 0 => \A k \in Keys : index[k] = j => j \in dirs \cup lost

JobInv(j) ==
  /\ Typed(j) /\ StatusIsTrue(j) /\ CancelHolds(j) /\ SomeoneResolves(j)
  /\ ProcessIsAccountedFor(j) /\ IndexNames(j) /\ OnDisk(j)

Inv == Shape /\ \A j \in JobIds : JobInv(j)

USE DEF LivePlaces

(* The steps leave the other jobs alone.                                    *)
Untouched(i) ==
  /\ job'[i] = job[i] /\ task'[i] = task[i] /\ child'[i] = child[i]
  /\ i \in cancelling' <=> i \in cancelling
  /\ i \in dirs' <=> i \in dirs
  /\ i \in old' => i \in old
  /\ i \in lost' <=> i \in lost
  /\ \A c \in Clips : /\ <<i, c>> \in dying' <=> <<i, c>> \in dying
                      /\ <<i, c>> \in outputs' <=> <<i, c>> \in outputs
                      /\ <<i, c>> \in ffmpeg' => <<i, c>> \in ffmpeg
  /\ \A k \in Keys : /\ index'[k] = i => index[k] = i
                     /\ saved'[k] = i => index[k] = i \/ saved[k] = i
  /\ spent'.restarts = spent.restarts

LEMMA SelectedAreClips == \A j : IsJob(job[j]) => Selected(j) \subseteq Clips
BY DEF IsJob, Selected

LEMMA OthersKeep ==
  ASSUME NEW i \in JobIds, JobInv(i), Untouched(i)
  PROVE  JobInv(i)'
<1>0. job[i] # None => Selected(i) \subseteq Clips
  BY SelectedAreClips DEF JobInv, Typed
<1>1. Typed(i)'
  BY DEF JobInv, Untouched, Typed, IsActive, IsLive
<1>2. StatusIsTrue(i)'
  BY DEF JobInv, Untouched, StatusIsTrue, IsActive, IsLive, Raised
<1>3. CancelHolds(i)'
  BY <1>0 DEF JobInv, Untouched, CancelHolds, IsLive, Raised, Selected
<1>4. SomeoneResolves(i)'
  BY <1>0 DEF JobInv, Untouched, SomeoneResolves, AllAreDying, IsActive, IsLive, Raised, Selected,
     Children
<1>5. ProcessIsAccountedFor(i)'
  BY DEF JobInv, Untouched, ProcessIsAccountedFor, Raised
<1>6. IndexNames(i)'
  BY DEF JobInv, Untouched, IndexNames
<1>7. OnDisk(i)'
  BY <1>0 DEF JobInv, Untouched, OnDisk, Selected
<1> QED
  BY <1>1, <1>2, <1>3, <1>4, <1>5, <1>6, <1>7 DEF JobInv

(* What CancelSticks says of one job.                                       *)
Sticks(j) ==
  job[j] # None /\ ~ Raised(j) /\ job'[j] # None =>
    /\ job[j].status = "CANCELLED" => job'[j].status = "CANCELLED"
    /\ \A c \in Selected(j) :
         job[j].clips[c] = "CANCELLED" => job'[j].clips[c] = "CANCELLED"

GoodStep == Inv' /\ \A j \in JobIds : Sticks(j)

LEMMA OneJob ==
  ASSUME Inv, NEW j \in JobIds, Shape', JobInv(j)', Sticks(j),
         \A i \in JobIds \ {j} : Untouched(i)
  PROVE  GoodStep
<1>1. \A i \in JobIds : JobInv(i)'
  BY OthersKeep DEF Inv
<1>2. \A i \in JobIds : Sticks(i)
  BY DEF Untouched, Sticks
<1> QED
  BY <1>1, <1>2 DEF Inv, GoodStep

LEMMA ChildSet ==
  ASSUME Shape, NEW j \in JobIds, NEW c \in Clips, NEW where \in ClipPlaces, Goes(j, c, where)
  PROVE  /\ child' \in [JobIds -> [Clips -> ClipPlaces]]
         /\ child'[j][c] = where
         /\ \A d \in Clips \ {c} : child'[j][d] = child[j][d]
         /\ \A i \in JobIds \ {j} : child'[i] = child[i]
BY DEF Goes, Shape

-----------------------------------------------------------------------------
(* A clip that holds a place goes on to the next, without having been       *)
(* marked: StartClip, EnterSlot, EncodeDone, ClipCompletes, ClipFails.      *)
ClipAfter(j, c) ==
  /\ job' = [i \in JobIds |-> job'[i]] /\ \A i \in JobIds \ {j} : job'[i] = job[i]
  /\ job[j] = None => job'[j] = None
  /\ job[j] # None =>
       /\ IsJob(job'[j]) /\ job'[j] # None
       /\ job'[j].status = job[j].status /\ job'[j].key = job[j].key
       /\ \A d \in Selected(j) \ {c} : job'[j].clips[d] = job[j].clips[d]

ClipIsRight(j, c) ==
  job[j] # None /\ c \in Selected(j) =>
    /\ job'[j].clips[c] = "CANCELLED" => job[j].clips[c] = "CANCELLED"
    /\ job'[j].clips[c] \in Unresolved => child'[j][c] \in LivePlaces
    /\ job'[j].clips[c] = "COMPLETED" => job[j].clips[c] = "COMPLETED" \/ <<j, c>> \in outputs'

LEMMA ClipMoves ==
  ASSUME Inv, NEW j \in JobIds, NEW c \in Clips, IsLive(j, c), <<j, c>> \notin dying,
         NEW where \in ClipPlaces \ {"none"}, Goes(j, c, where),
         ClipAfter(j, c), ClipIsRight(j, c),
         ffmpeg' \subseteq ffmpeg \cup {<<j, c>>},
         <<j, c>> \in ffmpeg' =>
           where = "running" \/ (<<j, c>> \in ffmpeg /\ child[j][c] # "running"),
         outputs' \in {outputs, outputs \cup {<<j, c>>}}, outputs' # outputs => j \in dirs,
         old' \subseteq old /\ old \subseteq old' \cup {j},
         UNCHANGED <<task, cancelling, dying, index, saved, dirs, lost>>,
         spent' \in [restarts : 0 .. MaxRestarts, faults : 0 .. MaxFaults],
         spent'.restarts = spent.restarts
  PROVE  GoodStep
<1>1. /\ child' \in [JobIds -> [Clips -> ClipPlaces]]
      /\ child'[j][c] = where
      /\ \A d \in Clips \ {c} : child'[j][d] = child[j][d]
      /\ \A i \in JobIds \ {j} : child'[i] = child[i]
  BY ChildSet DEF Inv
<1>2. Shape'
  BY <1>1 DEF Inv, Shape, ClipAfter
<1>3. JobInv(j) /\ task[j] \notin {"none", "start", "probe"}
  BY DEF Inv, JobInv, Typed, IsLive
<1>4. job[j] # None => Selected(j) \subseteq Clips /\ Selected(j)' = Selected(j)
  BY <1>3, SelectedAreClips DEF JobInv, Typed, ClipAfter, Selected
<1>5. Raised(j) => Raised(j)'
  BY <1>1 DEF Raised, IsLive
<1>6. ~ Raised(j) /\ job[j] # None /\ c \in Selected(j) =>
        job[j].clips[c] # "CANCELLED" /\ job'[j].clips[c] # "CANCELLED"
  BY <1>3 DEF JobInv, CancelHolds, ClipIsRight
<1>7. Typed(j)'
  BY <1>1, <1>3 DEF JobInv, Typed, IsActive, IsLive, ClipAfter
<1>8. StatusIsTrue(j)'
  BY <1>1, <1>3, <1>5 DEF JobInv, StatusIsTrue, IsActive, IsLive, ClipAfter
<1>9. CancelHolds(j)'
  BY <1>1, <1>3, <1>4, <1>5, <1>6 DEF JobInv, CancelHolds, IsLive, ClipAfter
<1>10. SomeoneResolves(j)'
  <2>1. Children(j)' = Children(j)
    BY <1>1 DEF Children, IsLive
  <2>2. (task'[j] = "done" \/ j \in cancelling') /\ ~ Raised(j)' => AllAreDying(j)'
    BY <1>1, <1>3, <1>5 DEF JobInv, SomeoneResolves, AllAreDying, IsLive
  <2>3. ASSUME job'[j] # None, NEW d \in Selected(j)
        PROVE  /\ <<j, d>> \in dying' => job'[j].clips[d] \notin Unresolved
               /\ task'[j] = "gather" => job'[j].clips[d] \notin Unresolved \/ IsLive(j, d)'
               /\ ~ IsActive(j)' /\ (job'[j].status # "FAILED" \/ Children(j)' # {}) =>
                    job'[j].clips[d] \notin Unresolved \/ IsLive(j, d)'
    <3>1. CASE d = c
      BY <1>3, <2>3, <3>1 DEF ClipIsRight, ClipAfter, IsLive
    <3>2. CASE d # c
      BY <1>1, <1>3, <1>4, <2>1, <2>3, <3>2
         DEF JobInv, SomeoneResolves, ClipAfter, IsLive, IsActive
    <3> QED
      BY <3>1, <3>2
  <2> QED
    BY <1>3, <1>4, <2>2, <2>3 DEF SomeoneResolves, ClipAfter
<1>11. ProcessIsAccountedFor(j)'
  BY <1>1, <1>3, <1>5 DEF JobInv, ProcessIsAccountedFor, ClipAfter
<1>12. IndexNames(j)'
  BY <1>3 DEF JobInv, IndexNames, ClipAfter
<1>13. OnDisk(j)'
  BY <1>3, <1>4 DEF JobInv, OnDisk, ClipAfter, ClipIsRight
<1>14. Sticks(j)
  BY <1>4, <1>6 DEF Sticks, ClipAfter
<1>15. \A i \in JobIds \ {j} : Untouched(i)
  BY <1>1 DEF Untouched, ClipAfter
<1> QED
  BY <1>2, <1>7, <1>8, <1>9, <1>10, <1>11, <1>12, <1>13, <1>14, <1>15, OneJob DEF JobInv

LEMMA ClipSetIs ==
  ASSUME Inv, NEW j \in JobIds, NEW c \in Clips, NEW s \in ClipStatus, SetClip(j, c, s)
  PROVE  /\ ClipAfter(j, c)
         /\ job[j] # None /\ c \in Selected(j) => job'[j].clips[c] = s
<1>1. job = [i \in JobIds |-> job[i]] /\ (job[j] = None \/ IsJob(job[j]))
  BY DEF Inv, Shape, JobInv, Typed
<1> QED
  BY <1>1, ClipSet DEF ClipAfter

LEMMA ClipUnset ==
  ASSUME Inv, NEW j \in JobIds, NEW c \in Clips, UNCHANGED job
  PROVE  ClipAfter(j, c)
BY DEF ClipAfter, Inv, Shape, JobInv, Typed

LEMMA FaultSpends ==
  ASSUME Shape, Fault \/ UNCHANGED spent
  PROVE  /\ spent' \in [restarts : 0 .. MaxRestarts, faults : 0 .. MaxFaults]
         /\ spent'.restarts = spent.restarts
<1>1. CASE UNCHANGED spent
  BY <1>1 DEF Shape
<1>2. CASE Fault
  <2> DEFINE n == spent.faults + 1
  <2>1. spent.faults \in 0 .. MaxFaults /\ spent.restarts \in 0 .. MaxRestarts
    BY DEF Shape
  <2>2. n \in 0 .. MaxFaults
    BY <1>2, <2>1 DEF Fault
  <2>3. spent' = [spent EXCEPT !.faults = n]
    BY <1>2 DEF Fault
  <2> HIDE DEF n
  <2> QED
    BY <2>1, <2>2, <2>3 DEF Shape
<1> QED
  BY <1>1, <1>2

LEMMA StartClipIsGood ==
  ASSUME Inv, NEW j \in JobIds, NEW c \in Clips, StartClip(j, c)
  PROVE  GoodStep
<1>1. /\ child[j][c] = "ready" /\ <<j, c>> \notin dying /\ SetClip(j, c, "PROCESSING")
      /\ UNCHANGED <<task, cancelling, dying, index, saved, dirs, outputs, lost, spent>>
  BY DEF StartClip, Waits
<1>2. PICK where \in {"running", "waiting"} :
        /\ Goes(j, c, where)
        /\ ffmpeg' \subseteq ffmpeg \cup {<<j, c>>}
        /\ where = "waiting" => ffmpeg' = ffmpeg
        /\ old' \subseteq old /\ old \subseteq old' \cup {j}
  BY DEF StartClip
<1>3. ClipAfter(j, c) /\ (job[j] # None /\ c \in Selected(j) => job'[j].clips[c] = "PROCESSING")
  BY <1>1, ClipSetIs DEF ClipStatus
<1>4. child'[j][c] = where
  BY <1>2, ChildSet DEF Inv, ClipPlaces
<1>5. ClipIsRight(j, c)
  BY <1>3, <1>4 DEF ClipIsRight
<1> QED
  BY <1>1, <1>2, <1>3, <1>5, ClipMoves, FaultSpends DEF IsLive, Inv, ClipPlaces

LEMMA EnterSlotIsGood ==
  ASSUME Inv, NEW j \in JobIds, NEW c \in Clips, EnterSlot(j, c)
  PROVE  GoodStep
<1>1. /\ child[j][c] = "waiting" /\ <<j, c>> \notin dying /\ Goes(j, c, "running")
      /\ ffmpeg' = ffmpeg \cup {<<j, c>>} /\ old' = old \ {j}
      /\ UNCHANGED <<job, task, cancelling, dying, index, saved, dirs, outputs, lost, spent>>
  BY DEF EnterSlot, Waits
<1>2. ClipAfter(j, c)
  BY <1>1, ClipUnset
<1>3. child'[j][c] = "running"
  BY <1>1, ChildSet DEF Inv, ClipPlaces
<1>4. ClipIsRight(j, c)
  BY <1>1, <1>3 DEF ClipIsRight
<1> QED
  BY <1>1, <1>2, <1>4, ClipMoves, FaultSpends DEF IsLive, Inv, ClipPlaces

LEMMA EncodeDoneIsGood ==
  ASSUME Inv, NEW j \in JobIds, NEW c \in Clips, EncodeDone(j, c)
  PROVE  GoodStep
<1>1. /\ child[j][c] = "running" /\ <<j, c>> \notin dying /\ Goes(j, c, "validating")
      /\ ffmpeg' = ffmpeg \ {<<j, c>>}
      /\ UNCHANGED <<job, task, cancelling, dying, index, saved, dirs, old, outputs, lost, spent>>
  BY DEF EncodeDone, Waits
<1>2. ClipAfter(j, c)
  BY <1>1, ClipUnset
<1>3. child'[j][c] = "validating"
  BY <1>1, ChildSet DEF Inv, ClipPlaces
<1>4. ClipIsRight(j, c)
  BY <1>1, <1>3 DEF ClipIsRight
<1> QED
  BY <1>1, <1>2, <1>4, ClipMoves, FaultSpends DEF IsLive, Inv, ClipPlaces

LEMMA ClipCompletesIsGood ==
  ASSUME Inv, NEW j \in JobIds, NEW c \in Clips, ClipCompletes(j, c)
  PROVE  GoodStep
<1>1. /\ child[j][c] = "validating" /\ <<j, c>> \notin dying /\ Goes(j, c, "done")
      /\ SetClip(j, c, "COMPLETED") /\ j \in dirs /\ UNCHANGED spent
      /\ outputs' = outputs \cup {<<j, c>>} /\ old' = old \ {j}
      /\ UNCHANGED <<task, cancelling, dying, index, saved, dirs, ffmpeg, lost>>
  BY DEF ClipCompletes, Waits, WriteWorks
<1>2. ClipAfter(j, c) /\ (job[j] # None /\ c \in Selected(j) => job'[j].clips[c] = "COMPLETED")
  BY <1>1, ClipSetIs DEF ClipStatus
<1>3. ClipIsRight(j, c)
  BY <1>1, <1>2 DEF ClipIsRight, Unresolved
<1> QED
  BY <1>1, <1>2, <1>3, ClipMoves, FaultSpends DEF IsLive, Inv, ClipPlaces

LEMMA ClipFailsIsGood ==
  ASSUME Inv, NEW j \in JobIds, NEW c \in Clips, ClipFails(j, c)
  PROVE  GoodStep
<1>1. /\ child[j][c] \in {"running", "validating"} /\ <<j, c>> \notin dying
      /\ SetClip(j, c, "FAILED") /\ ffmpeg' = ffmpeg \ {<<j, c>>}
      /\ UNCHANGED <<task, cancelling, dying, index, saved, dirs, outputs, lost>>
  BY DEF ClipFails, Waits
<1>2. PICK where \in {"done", "raised"} :
        Goes(j, c, where) /\ old' \in {old, old \ {j}} /\ (Fault \/ UNCHANGED spent)
  BY DEF ClipFails, WriteWorks, WriteFails
<1>3. ClipAfter(j, c) /\ (job[j] # None /\ c \in Selected(j) => job'[j].clips[c] = "FAILED")
  BY <1>1, ClipSetIs DEF ClipStatus
<1>4. ClipIsRight(j, c)
  BY <1>3 DEF ClipIsRight, Unresolved
<1> QED
  BY <1>1, <1>2, <1>3, <1>4, ClipMoves, FaultSpends DEF IsLive, Inv, ClipPlaces


LEMMA ClipCancelledIsGood ==
  ASSUME Inv, NEW j \in JobIds, NEW c \in Clips, ClipCancelled(j, c)
  PROVE  GoodStep
<1>1. /\ <<j, c>> \in dying /\ dying' = dying \ {<<j, c>>} /\ Goes(j, c, "cancelled")
      /\ UNCHANGED <<task, cancelling, index, saved, dirs, old, outputs, ffmpeg, lost, spent>>
  BY DEF ClipCancelled, disk
<1>2. JobInv(j) /\ IsLive(j, c) /\ task[j] \notin {"none", "start", "probe"}
  BY <1>1 DEF Inv, JobInv, Typed, IsLive
<1>3. ClipAfter(j, c)
  BY ClipSetIs, ClipUnset DEF ClipCancelled, ClipStatus
<1>4. job[j] # None => Selected(j) \subseteq Clips /\ Selected(j)' = Selected(j)
  BY <1>2, <1>3, SelectedAreClips DEF JobInv, Typed, ClipAfter, Selected
<1>5. job[j] # None /\ c \in Selected(j) =>
        /\ job'[j].clips[c] \notin Unresolved
        /\ job'[j].clips[c] \in {job[j].clips[c], "CANCELLED"}
  BY <1>1, <1>2, ClipSetIs DEF ClipCancelled, ClipStatus, JobInv, SomeoneResolves, Unresolved
<1>6. /\ child' \in [JobIds -> [Clips -> ClipPlaces]]
      /\ child'[j][c] = "cancelled"
      /\ \A d \in Clips \ {c} : child'[j][d] = child[j][d]
      /\ \A i \in JobIds \ {j} : child'[i] = child[i]
  BY <1>1, ChildSet DEF Inv, ClipPlaces
<1>7. Raised(j)' <=> Raised(j)
  BY <1>2, <1>6 DEF Raised, IsLive
<1>8. Shape'
  BY <1>1, <1>3, <1>6 DEF Inv, Shape, ClipAfter
<1>9. Typed(j)'
  BY <1>1, <1>2, <1>3, <1>6 DEF JobInv, Typed, IsActive, IsLive, ClipAfter
<1>10. StatusIsTrue(j)'
  BY <1>1, <1>2, <1>3, <1>6, <1>7 DEF JobInv, StatusIsTrue, IsActive, IsLive, ClipAfter
<1>11. ~ Raised(j) /\ job[j] # None => job[j].status = "CANCELLED"
  BY <1>1, <1>2 DEF JobInv, CancelHolds
<1>12. CancelHolds(j)'
  BY <1>1, <1>2, <1>3, <1>4, <1>6, <1>7, <1>11 DEF JobInv, CancelHolds, IsLive, ClipAfter
<1>13. SomeoneResolves(j)'
  <2>1. Children(j)' = Children(j)
    BY <1>2, <1>6 DEF Children, IsLive
  <2>2. (task'[j] = "done" \/ j \in cancelling') /\ ~ Raised(j)' => AllAreDying(j)'
    BY <1>1, <1>2, <1>6, <1>7 DEF JobInv, SomeoneResolves, AllAreDying, IsLive
  <2>3. ASSUME job'[j] # None, NEW d \in Selected(j)
        PROVE  /\ <<j, d>> \in dying' => job'[j].clips[d] \notin Unresolved
               /\ task'[j] = "gather" => job'[j].clips[d] \notin Unresolved \/ IsLive(j, d)'
               /\ ~ IsActive(j)' /\ (job'[j].status # "FAILED" \/ Children(j)' # {}) =>
                    job'[j].clips[d] \notin Unresolved \/ IsLive(j, d)'
    <3>1. CASE d = c
      BY <1>3, <1>5, <2>3, <3>1 DEF ClipAfter
    <3>2. CASE d # c
      BY <1>1, <1>2, <1>3, <1>4, <1>6, <2>1, <2>3, <3>2
         DEF JobInv, SomeoneResolves, ClipAfter, IsLive, IsActive
    <3> QED
      BY <3>1, <3>2
  <2> QED
    BY <1>1, <1>2, <1>3, <1>4, <2>2, <2>3 DEF SomeoneResolves, ClipAfter
<1>14. ProcessIsAccountedFor(j)'
  BY <1>1, <1>2, <1>3, <1>6, <1>7, <1>11 DEF JobInv, ProcessIsAccountedFor, ClipAfter
<1>15. IndexNames(j)'
  BY <1>1, <1>2, <1>3 DEF JobInv, IndexNames, ClipAfter
<1>16. OnDisk(j)'
  BY <1>1, <1>2, <1>3, <1>4, <1>5 DEF JobInv, OnDisk, ClipAfter
<1>17. Sticks(j)
  BY <1>3, <1>4, <1>5 DEF Sticks, ClipAfter
<1>18. \A i \in JobIds \ {j} : Untouched(i)
  BY <1>1, <1>3, <1>6 DEF Untouched, ClipAfter
<1> QED
  BY <1>8, <1>9, <1>10, <1>12, <1>13, <1>14, <1>15, <1>16, <1>17, <1>18, OneJob DEF JobInv

LEMMA NoJob ==
  ASSUME Inv, Shape', \A i \in JobIds : Untouched(i)
  PROVE  GoodStep
<1>1. \A i \in JobIds : JobInv(i)'
  BY OthersKeep DEF Inv
<1>2. \A i \in JobIds : Sticks(i)
  BY DEF Untouched, Sticks
<1> QED
  BY <1>1, <1>2 DEF Inv, GoodStep

LEMMA OrphanExitsIsGood ==
  ASSUME Inv, NEW p, OrphanExits(p)
  PROVE  GoodStep
<1>1. UNCHANGED <<memory, saved, dirs, old, outputs, lost, spent>> /\ ffmpeg' \subseteq ffmpeg
  BY DEF OrphanExits
<1>2. Shape'
  BY <1>1 DEF Inv, Shape, memory
<1>3. \A i \in JobIds : Untouched(i)
  BY <1>1 DEF Untouched, memory
<1> QED
  BY <1>2, <1>3, NoJob

-----------------------------------------------------------------------------
(* The task of a job ends, with a status and with these clips: after a      *)
(* failure, a cancellation, or when all is done.                            *)
JobAfter(j) ==
  /\ job' = [i \in JobIds |-> job'[i]] /\ \A i \in JobIds \ {j} : job'[i] = job[i]
  /\ IsJob(job'[j]) /\ job'[j] # None /\ job'[j].key = job[j].key

ClipsEndRight(j) ==
  \A c \in Selected(j) :
    /\ job'[j].clips[c] = "CANCELLED" => job[j].clips[c] = "CANCELLED"
    /\ job[j].clips[c] = "CANCELLED" /\ ~ Raised(j) => job'[j].clips[c] = "CANCELLED"
    /\ job'[j].clips[c] = "COMPLETED" => job[j].clips[c] = "COMPLETED"
    /\ <<j, c>> \in dying => job'[j].clips[c] \notin Unresolved
    /\ job'[j].status # "FAILED" \/ Children(j) # {} =>
         job'[j].clips[c] \notin Unresolved \/ IsLive(j, c)

IndexAfter(j) ==
  /\ {index', saved'} \subseteq [Keys -> JobIds \cup {None}]
  /\ \A k \in Keys : /\ index'[k] # index[k] => index'[k] = j /\ k = job[j].key
                     /\ saved'[k] # saved[k] => saved'[k] = index'[k]

LEMMA JobEnds ==
  ASSUME Inv, NEW j \in JobIds, IsActive(j), task' = [task EXCEPT ![j] = "done"],
         JobAfter(j), job'[j].status \in {"COMPLETED", "FAILED", "CANCELLED"},
         j \in cancelling => job'[j].status = "CANCELLED", cancelling' = cancelling \ {j},
         Raised(j) \/ AllAreDying(j),
         job'[j].status = "COMPLETED" => \A c \in Clips : ~ IsLive(j, c),
         ClipsEndRight(j), IndexAfter(j),
         dirs' \in {dirs, dirs \cup {j}}, old' \in {old, old \ {j}},
         UNCHANGED <<child, dying, outputs, ffmpeg, lost>>,
         spent' \in [restarts : 0 .. MaxRestarts, faults : 0 .. MaxFaults],
         spent'.restarts = spent.restarts
  PROVE  GoodStep
<1>1. /\ task' \in [JobIds -> TaskPlaces] /\ task'[j] = "done"
      /\ \A i \in JobIds \ {j} : task'[i] = task[i]
  BY DEF Inv, Shape, TaskPlaces
<1>2. Shape'
  BY <1>1 DEF Inv, Shape, JobAfter, IndexAfter
<1>3. JobInv(j) /\ job[j] # None
  BY DEF Inv, JobInv, Typed
<1>4. Selected(j) \subseteq Clips /\ Selected(j)' = Selected(j)
  BY <1>3, SelectedAreClips DEF JobInv, Typed, JobAfter, Selected
<1>5. Raised(j)' <=> Raised(j)
  BY DEF Raised
<1>6. ~ Raised(j) /\ job[j].status = "CANCELLED" => job'[j].status = "CANCELLED"
  BY <1>3 DEF JobInv, StatusIsTrue
<1>7. Typed(j)'
  BY <1>1, <1>3 DEF JobInv, Typed, IsActive, IsLive, JobAfter
<1>8. StatusIsTrue(j)'
  BY <1>1, <1>5 DEF StatusIsTrue, IsActive, IsLive
<1>9. CancelHolds(j)'
  BY <1>3, <1>4, <1>5, <1>6 DEF JobInv, Typed, CancelHolds, IsLive, ClipsEndRight
<1>10. SomeoneResolves(j)'
  <2>1. Children(j)' = Children(j) /\ \A c : IsLive(j, c)' <=> IsLive(j, c)
    BY DEF Children, IsLive
  <2>2. AllAreDying(j)' <=> AllAreDying(j)
    BY DEF AllAreDying, IsLive
  <2> QED
    BY <1>1, <1>4, <1>5, <2>1, <2>2 DEF SomeoneResolves, IsActive, ClipsEndRight
<1>11. ProcessIsAccountedFor(j)'
  BY <1>1, <1>3, <1>5, <1>6 DEF JobInv, ProcessIsAccountedFor
<1>12. IndexNames(j)'
  BY <1>1, <1>3 DEF JobInv, IndexNames, JobAfter, IndexAfter
<1>13. OnDisk(j)'
  BY <1>3, <1>4 DEF JobInv, OnDisk, ClipsEndRight, IndexAfter
<1>14. Sticks(j)
  BY <1>6 DEF Sticks, ClipsEndRight
<1>15. \A i \in JobIds \ {j} : Untouched(i)
  BY <1>1 DEF Untouched, JobAfter, IndexAfter
<1> QED
  BY <1>2, <1>7, <1>8, <1>9, <1>10, <1>11, <1>12, <1>13, <1>14, <1>15, OneJob DEF JobInv

LEMMA FinishIs ==
  ASSUME Inv, NEW j \in JobIds, IsJob(job[j]), NEW clips \in [Selected(j) -> ClipStatus],
         FinishJob(j, clips)
  PROVE  /\ task' = [task EXCEPT ![j] = "done"]
         /\ JobAfter(j) /\ job'[j].clips = clips /\ job'[j].status \in {"COMPLETED", "FAILED"}
         /\ job'[j].status = "COMPLETED" => JobOutcome(clips) = "COMPLETED"
         /\ IndexAfter(j)
         /\ spent' \in [restarts : 0 .. MaxRestarts, faults : 0 .. MaxFaults]
         /\ spent'.restarts = spent.restarts
<1>1. job = [i \in JobIds |-> job[i]] /\ Shape
  BY DEF Inv, Shape
<1>2. task' = [task EXCEPT ![j] = "done"] /\ (Fault \/ UNCHANGED spent)
  BY DEF FinishJob
<1>3. PICK s \in {"COMPLETED", "FAILED"} :
        /\ job' = [job EXCEPT ![j].status = s, ![j].clips = clips]
        /\ s = "COMPLETED" => JobOutcome(clips) = "COMPLETED"
  BY DEF FinishJob, JobOutcome
<1>4. JobAfter(j) /\ job'[j].status = s /\ job'[j].clips = clips
  BY <1>1, <1>3, ClipsSet DEF JobAfter, JobStatus
<1>5. job[j].key \in Keys
  BY DEF IsJob
<1>6. IndexAfter(j)
  <2>1. CASE UNCHANGED <<index, saved>>
    BY <1>1, <2>1 DEF IndexAfter, Shape
  <2>2. CASE index' = [index EXCEPT ![job[j].key] = j] /\ saved' \in {index', saved}
    <3>1. index' \in [Keys -> JobIds \cup {None}]
      BY <1>1, <1>5, <2>2 DEF Shape
    <3>2. saved' \in [Keys -> JobIds \cup {None}]
      BY <1>1, <2>2, <3>1 DEF Shape
    <3>3. \A k \in Keys : index'[k] # index[k] => index'[k] = j /\ k = job[j].key
      BY <1>1, <2>2 DEF Shape
    <3> QED
      BY <2>2, <3>1, <3>2, <3>3 DEF IndexAfter
  <2> QED
    BY <2>1, <2>2 DEF FinishJob
<1> QED
  BY <1>1, <1>2, <1>3, <1>4, <1>6, FaultSpends

LEMMA StatusIs ==
  ASSUME Inv, NEW j \in JobIds, IsJob(job[j]), NEW s \in JobStatus,
         job' = [job EXCEPT ![j].status = s]
  PROVE  JobAfter(j) /\ job'[j].status = s /\ job'[j].clips = job[j].clips
<1>1. job = [i \in JobIds |-> job[i]]
  BY DEF Inv, Shape
<1> QED
  BY <1>1, StatusSet DEF JobAfter

LEMMA IndexUntouched ==
  ASSUME Inv, NEW j, UNCHANGED <<index, saved>> PROVE IndexAfter(j)
BY DEF Inv, Shape, IndexAfter

LEMMA ActiveIsJob ==
  ASSUME Inv, NEW j \in JobIds, IsActive(j)
  PROVE  /\ JobInv(j) /\ job[j] # None /\ IsJob(job[j]) /\ Selected(j) \subseteq Clips
         /\ \A c \in Selected(j) : job[j].clips[c] \in ClipStatus
<1>1. JobInv(j) /\ job[j] # None /\ IsJob(job[j])
  BY DEF Inv, JobInv, Typed
<1> QED
  BY <1>1, SelectedAreClips DEF IsJob, Selected

LEMMA GatherDoneIsGood ==
  ASSUME Inv, NEW j \in JobIds, GatherDone(j)
  PROVE  GoodStep
<1>1. /\ task[j] = "gather" /\ j \notin cancelling /\ FinishJob(j, job[j].clips)
      /\ UNCHANGED <<child, cancelling, dying, dirs, old, outputs, ffmpeg, lost>>
      /\ ~ Raised(j) /\ \A c \in Clips : ~ IsLive(j, c)
  BY DEF GatherDone, Marked, Live, IsLive
<1>2. IsActive(j)
  BY <1>1 DEF IsActive
<1>3. JobInv(j) /\ job[j] # None /\ IsJob(job[j]) /\ Selected(j) \subseteq Clips
  BY <1>2, ActiveIsJob
<1>4. job[j].clips \in [Selected(j) -> ClipStatus]
  BY <1>3 DEF IsJob, Selected
<1>5. /\ task' = [task EXCEPT ![j] = "done"]
      /\ JobAfter(j) /\ job'[j].clips = job[j].clips /\ job'[j].status \in {"COMPLETED", "FAILED"}
      /\ IndexAfter(j)
      /\ spent' \in [restarts : 0 .. MaxRestarts, faults : 0 .. MaxFaults]
      /\ spent'.restarts = spent.restarts
  BY <1>1, <1>3, <1>4, FinishIs
<1>6. ClipsEndRight(j)
  BY <1>1, <1>3, <1>5 DEF ClipsEndRight, JobInv, SomeoneResolves
<1>7. AllAreDying(j)
  BY <1>1 DEF AllAreDying
<1> QED
  BY <1>1, <1>2, <1>5, <1>6, <1>7, JobEnds

LEMMA GatherRaisesIsGood ==
  ASSUME Inv, NEW j \in JobIds, GatherRaises(j)
  PROVE  GoodStep
<1>1. /\ task[j] = "gather" /\ j \notin cancelling /\ Raised(j)
      /\ job' = [job EXCEPT ![j].status = "FAILED"] /\ task' = [task EXCEPT ![j] = "done"]
      /\ UNCHANGED <<child, cancelling, dying, index, disk, spent>>
  BY DEF GatherRaises, Marked
<1>2. IsActive(j)
  BY <1>1 DEF IsActive
<1>3. JobInv(j) /\ IsJob(job[j]) /\ Selected(j) \subseteq Clips
  BY <1>2, ActiveIsJob
<1>4. JobAfter(j) /\ job'[j].status = "FAILED" /\ job'[j].clips = job[j].clips
  BY <1>1, <1>3, StatusIs DEF JobStatus
<1>5. ClipsEndRight(j)
  BY <1>1, <1>3, <1>4, ActiveIsJob, <1>2 DEF ClipsEndRight, JobInv, SomeoneResolves
<1>6. IndexAfter(j)
  BY <1>1, IndexUntouched DEF disk
<1> QED
  BY <1>1, <1>2, <1>4, <1>5, <1>6, JobEnds, FaultSpends DEF disk, Inv

LEMMA JobCancelledIsGood ==
  ASSUME Inv, NEW j \in JobIds, JobCancelled(j)
  PROVE  GoodStep
<1>1. /\ j \in cancelling /\ job' = [job EXCEPT ![j].status = "CANCELLED"]
      /\ task' = [task EXCEPT ![j] = "done"] /\ cancelling' = cancelling \ {j}
      /\ UNCHANGED <<child, dying, index, disk, spent>>
  BY DEF JobCancelled, Marked
<1>2. IsActive(j)
  BY <1>1 DEF Inv, JobInv, Typed
<1>3. JobInv(j) /\ job[j] # None /\ IsJob(job[j]) /\ Selected(j) \subseteq Clips
  BY <1>2, ActiveIsJob
<1>4. JobAfter(j) /\ job'[j].status = "CANCELLED" /\ job'[j].clips = job[j].clips
  BY <1>1, <1>3, StatusIs DEF JobStatus
<1>5. Raised(j) \/ AllAreDying(j)
  BY <1>1, <1>3 DEF JobInv, SomeoneResolves
<1>6. ClipsEndRight(j)
  BY <1>1, <1>2, <1>3, <1>4 DEF ClipsEndRight, JobInv, SomeoneResolves, IsActive, Unresolved
<1>7. IndexAfter(j)
  BY <1>1, IndexUntouched DEF disk
<1> QED
  BY <1>1, <1>2, <1>4, <1>5, <1>6, <1>7, JobEnds, FaultSpends DEF disk, Inv

(* Before the clips have tasks.                                             *)
LEMMA BeforeTheClips ==
  ASSUME Inv, NEW j \in JobIds, task[j] \in {"start", "probe"}, j \notin cancelling
  PROVE  /\ \A c \in Clips : child[j][c] = "none" /\ <<j, c>> \notin dying
         /\ ~ Raised(j) /\ Children(j) = {}
         /\ \A c \in Selected(j) : job[j].clips[c] = "QUEUED"
<1>1. JobInv(j) /\ job[j] # None /\ IsActive(j)
  BY DEF Inv, JobInv, Typed, IsActive
<1>2. \A c \in Clips : child[j][c] = "none" /\ <<j, c>> \notin dying
  BY <1>1 DEF JobInv, Typed, IsLive
<1>3. ~ Raised(j) /\ Children(j) = {}
  BY <1>2 DEF Raised, Children
<1>4. job[j].status # "CANCELLED"
  BY <1>1, <1>3 DEF JobInv, StatusIsTrue
<1>5. \A c \in Selected(j) : job[j].clips[c] = "QUEUED"
  BY <1>1, <1>3, <1>4 DEF JobInv, SomeoneResolves, CancelHolds
<1> QED
  BY <1>2, <1>3, <1>5

LEMMA ProbeFailsIsGood ==
  ASSUME Inv, NEW j \in JobIds, ProbeFails(j)
  PROVE  GoodStep
<1>1. /\ task[j] = "probe" /\ j \notin cancelling
      /\ task' = [task EXCEPT ![j] = "done"]
      /\ UNCHANGED <<child, cancelling, dying, index, disk>>
  BY DEF ProbeFails, Marked
<1>2. PICK out \in SUBSET Selected(j) :
        /\ Fault \/ UNCHANGED spent
        /\ job' = [job EXCEPT ![j].status = "FAILED",
                     ![j].clips = [c \in Selected(j) |->
                        IF c \in out THEN "FAILED" ELSE job[j].clips[c]]]
  BY DEF ProbeFails, WriteFails
<1>3. IsActive(j)
  BY <1>1 DEF IsActive
<1>4. /\ IsJob(job[j]) /\ Selected(j) \subseteq Clips
      /\ \A c \in Selected(j) : job[j].clips[c] \in ClipStatus
  BY <1>3, ActiveIsJob
<1>5. /\ \A c \in Clips : child[j][c] = "none" /\ <<j, c>> \notin dying
      /\ Children(j) = {} /\ \A c \in Selected(j) : job[j].clips[c] = "QUEUED"
  BY <1>1, BeforeTheClips
<1> DEFINE clips == [c \in Selected(j) |-> IF c \in out THEN "FAILED" ELSE job[j].clips[c]]
<1>6. clips \in [Selected(j) -> ClipStatus] /\ \A c \in Selected(j) : clips[c] \in {"FAILED", "QUEUED"}
  BY <1>4, <1>5 DEF ClipStatus
<1>7. job' = [job EXCEPT ![j].status = "FAILED", ![j].clips = clips]
  BY <1>2
<1> HIDE DEF clips
<1>8. JobAfter(j) /\ job'[j].status = "FAILED" /\ job'[j].clips = clips
  BY <1>4, <1>6, <1>7, ClipsSet DEF JobAfter, JobStatus, Inv, Shape
<1>9. ClipsEndRight(j)
  BY <1>4, <1>5, <1>6, <1>8 DEF ClipsEndRight
<1>10. IndexAfter(j)
  BY <1>1, IndexUntouched DEF disk
<1> QED
  BY <1>1, <1>2, <1>3, <1>5, <1>8, <1>9, <1>10, JobEnds, FaultSpends
     DEF disk, Inv, IsLive, AllAreDying

-----------------------------------------------------------------------------
(* The task of a job goes on: StartJob to the probe, ProbeDone to the       *)
(* gather.                                                                  *)
LEMMA StartJobIsGood ==
  ASSUME Inv, NEW j \in JobIds, StartJob(j)
  PROVE  GoodStep
<1>1. /\ task[j] = "start" /\ j \notin cancelling
      /\ UNCHANGED <<child, cancelling, dying, index, saved, outputs, ffmpeg, lost, spent>>
      /\ dirs' \in {dirs, dirs \cup {j}} /\ old' \in {old, old \ {j}}
      /\ j \notin dirs' => dirs' = dirs
  BY DEF StartJob, Marked
<1>2. IsActive(j) /\ Inv
  BY <1>1 DEF IsActive
<1>3. /\ JobInv(j) /\ job[j] # None /\ IsJob(job[j]) /\ Selected(j) \subseteq Clips
  BY <1>2, ActiveIsJob
<1>4. /\ \A c \in Clips : child[j][c] = "none" /\ <<j, c>> \notin dying
      /\ ~ Raised(j) /\ Children(j) = {} /\ \A c \in Selected(j) : job[j].clips[c] = "QUEUED"
  BY <1>1, BeforeTheClips
<1>5. IndexAfter(j)
  BY <1>1, IndexUntouched
<1>6. CASE task' = [task EXCEPT ![j] = "done"] /\ job' = [job EXCEPT ![j].status = "FAILED"]
  <2>1. JobAfter(j) /\ job'[j].status = "FAILED" /\ job'[j].clips = job[j].clips
    BY <1>3, <1>6, StatusIs DEF JobStatus
  <2>2. ClipsEndRight(j)
    BY <1>3, <1>4, <2>1 DEF ClipsEndRight
  <2> QED
    BY <1>1, <1>2, <1>4, <1>5, <1>6, <2>1, <2>2, JobEnds, FaultSpends
       DEF Inv, IsLive, AllAreDying
<1>7. CASE /\ task' = [task EXCEPT ![j] = "probe"] /\ job' = [job EXCEPT ![j].status = "VALIDATING"]
           /\ dirs' = dirs \cup {j} /\ old' = old \ {j}
  <2>1. JobAfter(j) /\ job'[j].status = "VALIDATING" /\ job'[j].clips = job[j].clips
    BY <1>3, <1>7, StatusIs DEF JobStatus
  <2>2. /\ task' \in [JobIds -> TaskPlaces] /\ task'[j] = "probe"
        /\ \A i \in JobIds \ {j} : task'[i] = task[i]
    BY <1>7 DEF Inv, Shape, TaskPlaces
  <2>3. Shape'
    BY <1>1, <1>7, <2>1, <2>2 DEF Inv, Shape, JobAfter
  <2>4. Selected(j)' = Selected(j)
    BY <2>1 DEF JobAfter, Selected
  <2>5. Typed(j)'
    BY <1>1, <1>3, <1>4, <1>7, <2>1, <2>2 DEF JobInv, Typed, IsActive, IsLive, JobAfter
  <2>6. StatusIsTrue(j)' /\ CancelHolds(j)'
    BY <1>1, <1>4, <2>1, <2>2, <2>4 DEF StatusIsTrue, CancelHolds, IsActive
  <2>7. SomeoneResolves(j)'
    BY <1>1, <1>3, <1>4, <2>1, <2>2, <2>4 DEF SomeoneResolves, IsActive
  <2>8. ProcessIsAccountedFor(j)'
    BY <1>1, <1>2, <1>3, <1>4, <2>1, <2>2 DEF JobInv, ProcessIsAccountedFor, StatusIsTrue
  <2>9. IndexNames(j)' /\ OnDisk(j)'
    BY <1>1, <1>3, <1>4, <1>7, <2>1, <2>2, <2>4 DEF JobInv, IndexNames, OnDisk, JobAfter
  <2>10. Sticks(j)
    BY <1>1, <1>2, <1>3, <1>4, <2>1 DEF Sticks, JobInv, StatusIsTrue
  <2>11. \A i \in JobIds \ {j} : Untouched(i)
    BY <1>1, <1>7, <2>1, <2>2 DEF Untouched, JobAfter
  <2> QED
    BY <2>3, <2>5, <2>6, <2>7, <2>8, <2>9, <2>10, <2>11, OneJob DEF JobInv
<1> QED
  BY <1>6, <1>7 DEF StartJob

LEMMA ProbeDoneIsGood ==
  ASSUME Inv, NEW j \in JobIds, ProbeDone(j)
  PROVE  GoodStep
<1>1. /\ task[j] = "probe" /\ j \notin cancelling
      /\ UNCHANGED <<cancelling, dying, dirs, outputs, ffmpeg, lost>>
      /\ old' \in {old, old \ {j}}
  BY DEF ProbeDone, Marked
<1>2. IsActive(j)
  BY <1>1 DEF IsActive
<1>3. /\ JobInv(j) /\ job[j] # None /\ IsJob(job[j]) /\ Selected(j) \subseteq Clips
      /\ \A c \in Selected(j) : job[j].clips[c] \in ClipStatus
  BY <1>2, ActiveIsJob
<1>4. /\ \A c \in Clips : child[j][c] = "none" /\ <<j, c>> \notin dying
      /\ ~ Raised(j) /\ Children(j) = {} /\ \A c \in Selected(j) : job[j].clips[c] = "QUEUED"
  BY <1>1, BeforeTheClips
<1>5. PICK out \in SUBSET Selected(j) :
        LET clips == [c \in Selected(j) |-> IF c \in out THEN "FAILED" ELSE job[j].clips[c]]
            runnable == {c \in Selected(j) : clips[c] = "QUEUED"}
        IN  IF runnable = {}
              THEN FinishJob(j, clips) /\ UNCHANGED child
              ELSE /\ task' = [task EXCEPT ![j] = "gather"]
                   /\ job' = [job EXCEPT ![j].status = "PROCESSING", ![j].clips = clips]
                   /\ child' = [child EXCEPT ![j] =
                        [c \in Clips |-> IF c \in runnable THEN "ready" ELSE "none"]]
                   /\ UNCHANGED <<index, saved, spent>>
  BY DEF ProbeDone
<1> DEFINE clips == [c \in Selected(j) |-> IF c \in out THEN "FAILED" ELSE job[j].clips[c]]
           runnable == {c \in Selected(j) : clips[c] = "QUEUED"}
<1>6. clips \in [Selected(j) -> ClipStatus] /\ \A c \in Selected(j) : clips[c] \in {"FAILED", "QUEUED"}
  BY <1>3, <1>4 DEF ClipStatus
<1>7. CASE runnable = {}
  <2>1. FinishJob(j, clips) /\ UNCHANGED child
    BY <1>5, <1>7
  <2>2. \A c \in Selected(j) : clips[c] = "FAILED"
    BY <1>6, <1>7
  <2> HIDE DEF clips, runnable
  <2>3. /\ task' = [task EXCEPT ![j] = "done"]
        /\ JobAfter(j) /\ job'[j].clips = clips /\ job'[j].status \in {"COMPLETED", "FAILED"}
        /\ IndexAfter(j)
        /\ spent' \in [restarts : 0 .. MaxRestarts, faults : 0 .. MaxFaults]
        /\ spent'.restarts = spent.restarts
    BY <1>3, <1>6, <2>1, FinishIs
  <2>4. ClipsEndRight(j)
    BY <1>3, <1>4, <2>2, <2>3 DEF ClipsEndRight, Unresolved
  <2> QED
    BY <1>1, <1>2, <1>4, <2>1, <2>3, <2>4, JobEnds DEF IsLive, AllAreDying
<1>8. CASE runnable # {}
  <2>1. /\ task' = [task EXCEPT ![j] = "gather"]
        /\ job' = [job EXCEPT ![j].status = "PROCESSING", ![j].clips = clips]
        /\ child' = [child EXCEPT ![j] = [c \in Clips |-> IF c \in runnable THEN "ready" ELSE "none"]]
        /\ UNCHANGED <<index, saved, spent>>
    BY <1>5, <1>8
  <2> HIDE DEF clips
  <2>2. JobAfter(j) /\ job'[j].status = "PROCESSING" /\ job'[j].clips = clips
    BY <1>3, <1>6, <2>1, ClipsSet DEF JobAfter, JobStatus, Inv, Shape
  <2>3. /\ task' \in [JobIds -> TaskPlaces] /\ task'[j] = "gather"
        /\ \A i \in JobIds \ {j} : task'[i] = task[i]
    BY <2>1 DEF Inv, Shape, TaskPlaces
  <2>4. /\ child' \in [JobIds -> [Clips -> ClipPlaces]]
        /\ \A c \in Clips : child'[j][c] = IF c \in runnable THEN "ready" ELSE "none"
        /\ \A i \in JobIds \ {j} : child'[i] = child[i]
    <3> HIDE DEF runnable
    <3> QED
      BY <2>1 DEF Inv, Shape, ClipPlaces
  <2>5. Shape'
    BY <1>1, <2>1, <2>2, <2>3, <2>4 DEF Inv, Shape, JobAfter
  <2>6. Selected(j)' = Selected(j) /\ ~ Raised(j)'
    BY <2>2, <2>4 DEF JobAfter, Selected, Raised
  <2>7. Typed(j)'
    BY <1>1, <1>3, <1>4, <2>2, <2>3 DEF JobInv, Typed, IsActive, IsLive, JobAfter
  <2>8. StatusIsTrue(j)'
    BY <2>2, <2>3 DEF StatusIsTrue, IsActive
  <2>9. CancelHolds(j)'
    BY <1>1, <1>4, <1>6, <2>2, <2>6 DEF CancelHolds
  <2>10. SomeoneResolves(j)'
    BY <1>1, <1>3, <1>4, <1>6, <2>2, <2>3, <2>4, <2>6
       DEF SomeoneResolves, IsActive, IsLive, Unresolved
  <2>11. ProcessIsAccountedFor(j)'
    BY <1>1, <1>2, <1>3, <1>4, <2>2, <2>3 DEF JobInv, ProcessIsAccountedFor, StatusIsTrue
  <2>12. IndexNames(j)' /\ OnDisk(j)'
    BY <1>1, <1>3, <1>6, <2>1, <2>2, <2>3, <2>6 DEF JobInv, IndexNames, OnDisk, JobAfter
  <2>13. Sticks(j)
    BY <1>1, <1>2, <1>3, <1>4 DEF Sticks, JobInv, StatusIsTrue
  <2>14. \A i \in JobIds \ {j} : Untouched(i)
    BY <1>1, <2>1, <2>2, <2>3, <2>4 DEF Untouched, JobAfter
  <2> QED
    BY <2>5, <2>7, <2>8, <2>9, <2>10, <2>11, <2>12, <2>13, <2>14, OneJob DEF JobInv
<1> QED
  BY <1>7, <1>8

-----------------------------------------------------------------------------
(* Requests, time and the sweeps.                                           *)
LEMMA CancelJobIsGood ==
  ASSUME Inv, NEW j \in JobIds, CancelJob(j)
  PROVE  GoodStep
<1> DEFINE clips == [c \in Selected(j) |->
                       IF job[j].clips[c] \in Cancellable THEN "CANCELLED" ELSE job[j].clips[c]]
<1>1. /\ job[j] # None /\ MarkTask(j)
      /\ job' = [job EXCEPT ![j].status = "CANCELLED", ![j].clips = clips]
      /\ UNCHANGED <<task, child, index, disk, spent>>
  BY DEF CancelJob, Known
<1>2. JobInv(j) /\ IsJob(job[j])
  BY <1>1 DEF Inv, JobInv, Typed
<1>3. Selected(j) \subseteq Clips /\ \A c \in Selected(j) : job[j].clips[c] \in ClipStatus
  BY <1>2, SelectedAreClips DEF IsJob, Selected
<1>4. /\ clips \in [Selected(j) -> ClipStatus]
      /\ \A c \in Selected(j) :
           /\ clips[c] \notin Unresolved
           /\ clips[c] = "CANCELLED" \/ clips[c] = job[j].clips[c]
           /\ job[j].clips[c] \in {"QUEUED", "CANCELLED"} => clips[c] = "CANCELLED"
  BY <1>3 DEF ClipStatus, Cancellable, Unresolved
<1> HIDE DEF clips
<1>5. JobAfter(j) /\ job'[j].status = "CANCELLED" /\ job'[j].clips = clips
  BY <1>1, <1>2, <1>4, ClipsSet DEF JobAfter, JobStatus, Inv, Shape
<1>6. Selected(j)' = Selected(j) /\ (Raised(j)' <=> Raised(j))
  BY <1>1, <1>5 DEF JobAfter, Selected, Raised
<1>7. /\ cancelling \subseteq cancelling' /\ cancelling' \subseteq cancelling \cup {j}
      /\ dying \subseteq dying'
      /\ \A i \in JobIds, c \in Clips : <<i, c>> \in dying' =>
           <<i, c>> \in dying \/ (i = j /\ IsLive(j, c))
      /\ dying' \subseteq JobIds \X Clips
  BY DEF MarkTask, Inv, Shape, Live, IsLive, CancelJob
<1>8. /\ task[j] # "none"
      /\ j \in cancelling' => j \in cancelling \/ IsActive(j)
      /\ IsActive(j) => Raised(j) \/ j \in cancelling'
      /\ ~ Raised(j) => \A c \in Clips : IsLive(j, c) => <<j, c>> \in dying'
  BY <1>1, <1>2 DEF CancelJob, MarkTask, IsActive, Live, IsLive, JobInv, Typed, SomeoneResolves,
     AllAreDying, Inv
<1>9. Shape'
  BY <1>1, <1>5, <1>7 DEF Inv, Shape, JobAfter, disk
<1>10. Typed(j)'
  BY <1>1, <1>2, <1>5, <1>7, <1>8 DEF JobInv, Typed, IsActive, IsLive, JobAfter, disk
<1>11. StatusIsTrue(j)'
  BY <1>1, <1>5, <1>6, <1>8 DEF StatusIsTrue, IsActive
<1>12. CancelHolds(j)'
  BY <1>1, <1>3, <1>5, <1>6, <1>8 DEF CancelHolds, IsLive
<1>13. SomeoneResolves(j)'
  <2>1. ~ Raised(j)' => AllAreDying(j)'
    BY <1>1, <1>6, <1>8 DEF AllAreDying, IsLive
  <2>2. ASSUME NEW c \in Selected(j)
        PROVE  /\ job'[j].clips[c] \notin Unresolved
               /\ task'[j] \in {"start", "probe"} => job'[j].clips[c] = "CANCELLED"
    BY <1>1, <1>2, <1>4, <1>5 DEF JobInv, SomeoneResolves
  <2> QED
    BY <1>6, <2>1, <2>2 DEF SomeoneResolves
<1>14. ProcessIsAccountedFor(j)'
  BY <1>1, <1>2, <1>5 DEF JobInv, ProcessIsAccountedFor, disk
<1>15. IndexNames(j)' /\ OnDisk(j)'
  <2>1. IndexNames(j)'
    BY <1>1, <1>2, <1>5 DEF JobInv, IndexNames, JobAfter, disk
  <2>2. \A c \in Selected(j) : job'[j].clips[c] = "COMPLETED" => job[j].clips[c] = "COMPLETED"
    BY <1>4, <1>5
  <2>3. OnDisk(j)'
    BY <1>1, <1>2, <1>6, <2>2 DEF JobInv, OnDisk, disk
  <2> QED
    BY <2>1, <2>3
<1>16. Sticks(j)
  BY <1>4, <1>5 DEF Sticks
<1>17. \A i \in JobIds \ {j} : Untouched(i)
  BY <1>1, <1>5, <1>7 DEF Untouched, JobAfter, disk
<1> QED
  BY <1>9, <1>10, <1>11, <1>12, <1>13, <1>14, <1>15, <1>16, <1>17, OneJob DEF JobInv

LEMMA CreateJobIsGood ==
  ASSUME Inv, NEW k \in Keys, CreateJob(k)
  PROVE  GoodStep
<1> DEFINE new == [key |-> k, status |-> "QUEUED", clips |-> [c \in ClipsOf[k] |-> "QUEUED"]]
<1>1. PICK j \in JobIds : /\ task[j] = "none"
                          /\ job' = [job EXCEPT ![j] = new]
                          /\ task' = [task EXCEPT ![j] = "start"]
                          /\ dirs' = dirs \cup {j}
  BY DEF CreateJob
<1>2. /\ UNCHANGED <<child, cancelling, dying, saved, old, outputs, ffmpeg, lost, spent>>
      /\ index' \in {index, [index EXCEPT ![k] = None]}
  BY DEF CreateJob
<1>3. /\ IsJob(new) /\ new # None /\ new.status = "QUEUED" /\ new.key = k
      /\ \A c \in ClipsOf[k] : new.clips[c] = "QUEUED"
  <2>1. IsJob(new)
    BY DEF IsJob, JobStatus, ClipStatus
  <2> QED
    BY <2>1, JobIsNotNone
<1> HIDE DEF new
<1>4. JobInv(j)
  BY DEF Inv
<1>5. /\ job' = [i \in JobIds |-> job'[i]] /\ job'[j] = new
      /\ \A i \in JobIds \ {j} : job'[i] = job[i]
      /\ task' \in [JobIds -> TaskPlaces] /\ task'[j] = "start"
      /\ \A i \in JobIds \ {j} : task'[i] = task[i]
  BY <1>1 DEF Inv, Shape, TaskPlaces
<1>6. /\ index' \in [Keys -> JobIds \cup {None}]
      /\ \A l \in Keys : index'[l] # index[l] => index'[l] = None
  BY <1>2 DEF Inv, Shape
<1>7. Shape'
  BY <1>1, <1>2, <1>5, <1>6 DEF Inv, Shape
<1>8. \A l \in Keys : index'[l] # j /\ saved'[l] # j
  BY <1>1, <1>2, <1>4, <1>6 DEF JobInv, IndexNames
<1>9. /\ \A c \in Clips : child[j][c] = "none" /\ <<j, c>> \notin dying /\ <<j, c>> \notin ffmpeg
      /\ ~ Raised(j) /\ j \notin cancelling
  BY <1>1, <1>4 DEF JobInv, Typed, IsLive, IsActive, Raised, ProcessIsAccountedFor
<1>10. Selected(j)' = ClipsOf[k] /\ ClipsOf[k] \subseteq Clips
  BY <1>3, <1>5 DEF Selected
<1>11. Typed(j)'
  BY <1>1, <1>2, <1>3, <1>4, <1>5, <1>9 DEF JobInv, Typed, IsActive, IsLive
<1>12. StatusIsTrue(j)' /\ CancelHolds(j)'
  BY <1>2, <1>3, <1>5, <1>9, <1>10 DEF StatusIsTrue, CancelHolds, IsActive
<1>13. SomeoneResolves(j)'
  BY <1>2, <1>3, <1>5, <1>9, <1>10 DEF SomeoneResolves, IsActive
<1>14. ProcessIsAccountedFor(j)' /\ IndexNames(j)'
  BY <1>2, <1>8, <1>9 DEF ProcessIsAccountedFor, IndexNames
<1>15. OnDisk(j)'
  BY <1>1, <1>3, <1>5, <1>8, <1>10 DEF OnDisk
<1>16. Sticks(j)
  BY <1>1, <1>4 DEF JobInv, Sticks, Typed
<1>17. \A i \in JobIds \ {j} : Untouched(i)
  BY <1>1, <1>2, <1>5, <1>6 DEF Untouched
<1> QED
  BY <1>7, <1>11, <1>12, <1>13, <1>14, <1>15, <1>16, <1>17, OneJob DEF JobInv

-----------------------------------------------------------------------------
(* Steps that change several jobs at once: those not in S are untouched.    *)
LEMMA SomeJobs ==
  ASSUME Inv, NEW S, Shape', \A j \in S \cap JobIds : JobInv(j)' /\ Sticks(j),
         \A i \in JobIds \ S : Untouched(i)
  PROVE  GoodStep
<1>1. \A i \in JobIds : JobInv(i)'
  BY OthersKeep DEF Inv
<1>2. \A i \in JobIds : Sticks(i)
  BY DEF Untouched, Sticks
<1> QED
  BY <1>1, <1>2 DEF Inv, GoodStep

LEMMA StutteringIsGood ==
  ASSUME Inv, UNCHANGED vars
  PROVE  GoodStep
<1>1. \A i \in JobIds : Untouched(i)
  BY DEF Untouched, vars
<1>2. Shape'
  BY DEF Inv, Shape, vars
<1> QED
  BY <1>1, <1>2, NoJob

LEMMA AgeIsGood ==
  ASSUME Inv, NEW j \in JobIds, Age(j)
  PROVE  GoodStep
<1>1. /\ j \in dirs /\ old' = old \cup {j}
      /\ UNCHANGED <<job, task, child, cancelling, dying, index, saved, dirs, outputs, ffmpeg,
                     lost, spent>>
  BY DEF Age, memory
<1>2. Shape'
  BY <1>1 DEF Inv, Shape
<1>3. JobInv(j)
  BY DEF Inv
<1>4. Typed(j)'
  BY <1>1, <1>3 DEF JobInv, Typed, IsActive, IsLive
<1>5. StatusIsTrue(j)' /\ CancelHolds(j)'
  BY <1>1, <1>3 DEF JobInv, StatusIsTrue, CancelHolds, IsActive, IsLive, Raised, Selected
<1>6. SomeoneResolves(j)'
  BY <1>1, <1>3 DEF JobInv, SomeoneResolves, AllAreDying, IsActive, IsLive, Raised, Selected,
     Children
<1>7. ProcessIsAccountedFor(j)' /\ IndexNames(j)' /\ OnDisk(j)'
  BY <1>1, <1>3 DEF JobInv, ProcessIsAccountedFor, IndexNames, OnDisk, Raised, Selected
<1>8. Sticks(j)
  BY <1>1 DEF Sticks
<1>9. \A i \in JobIds \ {j} : Untouched(i)
  BY <1>1 DEF Untouched
<1> QED
  BY <1>2, <1>4, <1>5, <1>6, <1>7, <1>8, <1>9, OneJob DEF JobInv

(* A job that is forgotten, by the sweep or with the process.               *)
LEMMA SweepIsGood ==
  ASSUME Inv, Sweep
  PROVE  GoodStep
<1> DEFINE S == (dirs \cap old) \ Active
<1>1. /\ dirs' = dirs \ S /\ old' = old \ S /\ outputs' = {p \in outputs : p[1] \notin S}
      /\ job' = [j \in JobIds |-> IF j \in S THEN None ELSE job[j]]
      /\ index' = [k \in Keys |-> IF index[k] \in S THEN None ELSE index[k]]
      /\ UNCHANGED <<task, child, cancelling, dying, ffmpeg, lost>>
      /\ saved' \in {saved, index'} /\ (Fault \/ UNCHANGED spent)
  BY DEF Sweep, RemoveDirs, Forget, Protected
<1>2. \A j \in S : ~ IsActive(j)
  BY DEF Active, IsActive, Inv, Shape
<1> HIDE DEF S
<1>3. /\ spent' \in [restarts : 0 .. MaxRestarts, faults : 0 .. MaxFaults]
      /\ spent'.restarts = spent.restarts
  BY <1>1, FaultSpends DEF Inv
<1>4. index' \in [Keys -> JobIds \cup {None}] /\ job' = [j \in JobIds |-> job'[j]]
  BY <1>1 DEF Inv, Shape
<1>5. Shape'
  BY <1>1, <1>3, <1>4 DEF Inv, Shape
<1>6. ASSUME NEW j \in S \cap JobIds
      PROVE  JobInv(j)' /\ Sticks(j)
  <2>1. JobInv(j) /\ job'[j] = None /\ ~ IsActive(j)
    BY <1>1, <1>2 DEF Inv
  <2>2. Typed(j)'
    BY <1>1, <2>1 DEF JobInv, Typed, IsActive, IsLive
  <2>3. \A k \in Keys : index'[k] # j /\ (saved'[k] = j => saved[k] = j)
    BY <1>1
  <2>4. StatusIsTrue(j)' /\ CancelHolds(j)' /\ ProcessIsAccountedFor(j)' /\ IndexNames(j)'
    BY <1>1, <2>1, <2>3
       DEF JobInv, StatusIsTrue, CancelHolds, ProcessIsAccountedFor, IndexNames
  <2>5. SomeoneResolves(j)'
    BY <1>1, <2>1 DEF JobInv, SomeoneResolves, AllAreDying, IsLive, Raised
  <2>6. OnDisk(j)'
    BY <2>1, <2>3 DEF OnDisk
  <2> QED
    BY <2>1, <2>2, <2>4, <2>5, <2>6 DEF JobInv, Sticks
<1>7. ASSUME NEW i \in JobIds \ S
      PROVE  Untouched(i)
  <2>1. \A k \in Keys : /\ index'[k] = i => index[k] = i
                        /\ saved'[k] = i => index[k] = i \/ saved[k] = i
    BY <1>1
  <2>2. \A c \in Clips : <<i, c>> \in outputs' <=> <<i, c>> \in outputs
    BY <1>1
  <2> QED
    BY <1>1, <1>3, <2>1, <2>2 DEF Untouched
<1> QED
  BY <1>5, <1>6, <1>7, SomeJobs

LEMMA CleanupScriptIsGood ==
  ASSUME Inv, CleanupScript
  PROVE  GoodStep
<1> DEFINE S == dirs \cap old
<1>1. /\ dirs' = dirs \ S /\ old' = old \ S /\ outputs' = {p \in outputs : p[1] \notin S}
      /\ lost' = lost \cup S
      /\ UNCHANGED <<job, task, child, cancelling, dying, index, saved, ffmpeg, spent>>
  BY DEF CleanupScript, RemoveDirs, memory
<1> HIDE DEF S
<1>2. Shape'
  BY <1>1 DEF Inv, Shape, CleanupScript
<1>3. ASSUME NEW j \in S \cap JobIds
      PROVE  JobInv(j)' /\ Sticks(j)
  <2>1. JobInv(j) /\ j \in lost'
    BY <1>1 DEF Inv
  <2>2. Typed(j)'
    BY <1>1, <2>1 DEF JobInv, Typed, IsActive, IsLive
  <2>3. StatusIsTrue(j)' /\ CancelHolds(j)'
    BY <1>1, <2>1 DEF JobInv, StatusIsTrue, CancelHolds, IsActive, IsLive, Raised, Selected
  <2>4. SomeoneResolves(j)'
    BY <1>1, <2>1 DEF JobInv, SomeoneResolves, AllAreDying, IsActive, IsLive, Raised, Selected,
     Children
  <2>5. ProcessIsAccountedFor(j)' /\ IndexNames(j)'
    BY <1>1, <2>1 DEF JobInv, ProcessIsAccountedFor, IndexNames, Raised
  <2>6. OnDisk(j)'
    BY <2>1 DEF OnDisk
  <2> QED
    BY <1>1, <2>2, <2>3, <2>4, <2>5, <2>6 DEF JobInv, Sticks
<1>4. ASSUME NEW i \in JobIds \ S
      PROVE  Untouched(i)
  <2>1. \A c \in Clips : <<i, c>> \in outputs' <=> <<i, c>> \in outputs
    BY <1>1
  <2> QED
    BY <1>1, <2>1 DEF Untouched
<1> QED
  BY <1>2, <1>3, <1>4, SomeJobs

LEMMA RestartIsGood ==
  ASSUME Inv, Restart
  PROVE  GoodStep
<1>1. /\ job' = [j \in JobIds |-> None] /\ child' = [j \in JobIds |-> NoChildren]
      /\ task' = [j \in JobIds |-> IF task[j] = "none" THEN "none" ELSE "done"]
      /\ cancelling' = {} /\ dying' = {} /\ index' = saved /\ ffmpeg' \subseteq ffmpeg
      /\ UNCHANGED <<saved, dirs, old, outputs, lost>>
  BY DEF Restart
<1>2. spent' \in [restarts : 0 .. MaxRestarts, faults : 0 .. MaxFaults] /\ spent'.restarts # 0
  <2> DEFINE n == spent.restarts + 1
  <2>1. spent.faults \in 0 .. MaxFaults /\ spent.restarts \in 0 .. MaxRestarts
    BY DEF Inv, Shape
  <2>2. n \in 0 .. MaxRestarts /\ n # 0
    BY <2>1 DEF Restart
  <2>3. spent' = [spent EXCEPT !.restarts = n]
    BY DEF Restart
  <2> HIDE DEF n
  <2> QED
    BY <2>1, <2>2, <2>3 DEF Inv, Shape
<1>3. \A j \in JobIds : /\ job'[j] = None /\ ~ IsActive(j)'
                        /\ task'[j] = "none" <=> task[j] = "none"
                        /\ \A c \in Clips : child'[j][c] = "none"
  BY <1>1 DEF IsActive, NoChildren
<1>4. Shape'
  <2>1. child' \in [JobIds -> [Clips -> ClipPlaces]]
    BY <1>1 DEF NoChildren, ClipPlaces
  <2>2. task' \in [JobIds -> TaskPlaces]
    BY <1>1 DEF TaskPlaces
  <2> QED
    BY <1>1, <1>2, <2>1, <2>2 DEF Inv, Shape
<1>5. ASSUME NEW j \in JobIds
      PROVE  JobInv(j)' /\ Sticks(j)
  <2>1. JobInv(j)
    BY DEF Inv
  <2>2. Typed(j)'
    BY <1>1, <1>3, <2>1 DEF JobInv, Typed
  <2>3. StatusIsTrue(j)' /\ CancelHolds(j)' /\ SomeoneResolves(j)'
    BY <1>3 DEF StatusIsTrue, CancelHolds, SomeoneResolves, AllAreDying, IsLive
  <2>4. ProcessIsAccountedFor(j)' /\ IndexNames(j)'
    BY <1>1, <1>3, <2>1 DEF JobInv, ProcessIsAccountedFor, IndexNames
  <2>5. OnDisk(j)'
    BY <1>2, <1>3 DEF OnDisk
  <2> QED
    BY <1>3, <2>2, <2>3, <2>4, <2>5 DEF JobInv, Sticks
<1> QED
  BY <1>4, <1>5, SomeJobs

-----------------------------------------------------------------------------
LEMMA InitIsGood == Init => Inv
<1> SUFFICES ASSUME Init PROVE Inv
  OBVIOUS
<1>1. Shape
  BY DEF Init, Shape, TaskPlaces, ClipPlaces, NoChildren
<1>2. ASSUME NEW j \in JobIds
      PROVE  JobInv(j)
  <2>1. /\ job[j] = None /\ task[j] = "none" /\ \A c \in Clips : child[j][c] = "none"
        /\ \A k \in Keys : index[k] # j /\ saved[k] # j
    BY DEF Init, NoChildren
  <2>2. Typed(j)
    BY <2>1 DEF Init, Typed, IsActive
  <2>3. StatusIsTrue(j) /\ CancelHolds(j) /\ SomeoneResolves(j)
    BY <2>1 DEF Init, StatusIsTrue, CancelHolds, SomeoneResolves, AllAreDying
  <2>4. ProcessIsAccountedFor(j) /\ IndexNames(j) /\ OnDisk(j)
    BY <2>1 DEF Init, ProcessIsAccountedFor, IndexNames, OnDisk
  <2> QED
    BY <2>2, <2>3, <2>4 DEF JobInv
<1> QED
  BY <1>1, <1>2 DEF Inv

LEMMA StepIsGood == Inv /\ [Next]_vars => GoodStep
<1> SUFFICES ASSUME Inv, [Next]_vars PROVE GoodStep
  OBVIOUS
<1>1. ASSUME NEW k \in Keys, ReuseJob(k) \/ CreateJob(k) PROVE GoodStep
  BY <1>1, StutteringIsGood, CreateJobIsGood DEF ReuseJob
<1>2. ASSUME NEW j \in JobIds, JobStep(j) PROVE GoodStep
  BY <1>2, StartJobIsGood, ProbeDoneIsGood, ProbeFailsIsGood, GatherDoneIsGood,
     GatherRaisesIsGood, JobCancelledIsGood DEF JobStep
<1>3. ASSUME NEW j \in JobIds, CancelJob(j) \/ Age(j) PROVE GoodStep
  BY <1>3, CancelJobIsGood, AgeIsGood
<1>4. ASSUME NEW j \in JobIds, NEW c \in Clips, ClipStep(j, c) PROVE GoodStep
  BY <1>4, StartClipIsGood, EnterSlotIsGood, EncodeDoneIsGood, ClipCompletesIsGood,
     ClipFailsIsGood, ClipCancelledIsGood DEF ClipStep
<1>5. ASSUME NEW j \in JobIds, NEW c \in Clips, OrphanExits(<<j, c>>) PROVE GoodStep
  BY <1>5, OrphanExitsIsGood
<1> QED
  BY <1>1, <1>2, <1>3, <1>4, <1>5, SweepIsGood, CleanupScriptIsGood, RestartIsGood,
     StutteringIsGood DEF Next, ManagerStep

LEMMA InvHolds == Spec => []Inv
<1>1. Init => Inv
  BY InitIsGood
<1>2. Inv /\ [Next]_vars => Inv'
  BY StepIsGood DEF GoodStep
<1> QED
  BY <1>1, <1>2, PTL DEF Spec

(* The variables of the manager have the values the code gives them, a job  *)
(* object has exactly the clips its request selected, an active task has    *)
(* its job and a mark its task.                                             *)
THEOREM TypeOKHolds == Spec => []TypeOK
<1>1. ASSUME Inv PROVE TypeOK
  <2>1. \A j \in JobIds : Typed(j)
    BY <1>1 DEF Inv, JobInv
  <2>2. \A j \in JobIds :
          job[j] = None \/ (job[j] \in JobType /\ DOMAIN job[j].clips = Selected(j))
    BY <2>1, JobIsNotNone DEF Typed, IsJob, Selected
  <2>3. Active \subseteq Known /\ cancelling \subseteq Active
    BY <1>1, <2>1 DEF Typed, IsActive, Active, Known, Inv, Shape
  <2>4. dying \subseteq {p \in JobIds \X Clips : p[2] \in Live(p[1])}
    BY <1>1, <2>1 DEF Typed, IsLive, Live, Inv, Shape
  <2>5. old \subseteq dirs /\ outputs \subseteq dirs \X Clips
    BY <1>1, <2>1 DEF Typed, Inv, Shape
  <2> QED
    BY <1>1, <2>2, <2>3, <2>4, <2>5 DEF TypeOK, Inv, Shape, TaskPlaces, ClipPlaces
<1> QED
  BY <1>1, InvHolds, PTL

(* No exception, cancellation, sweep or restart leaves a job whose status   *)
(* promises progress without a task that makes it.                          *)
THEOREM RunningHasTaskHolds == Spec => []RunningHasTask
<1>1. ASSUME Inv PROVE RunningHasTask
  <2> SUFFICES ASSUME NEW j \in Known, job[j].status \in {"QUEUED", "VALIDATING", "PROCESSING"}
               PROVE  j \in Active
    BY DEF RunningHasTask
  <2>1. j \in JobIds /\ job[j] # None /\ StatusIsTrue(j)
    BY <1>1 DEF Known, Inv, JobInv
  <2> QED
    BY <2>1 DEF StatusIsTrue, IsActive, Active
<1> QED
  BY <1>1, InvHolds, PTL

(* Whatever ends the task of a job, no clip of it is left unresolved, but   *)
(* for a clip that is still running after its sibling's task raised and for *)
(* a job that failed before its clips started.                              *)
THEOREM EndedIsResolvedHolds == Spec => []EndedIsResolved
<1>1. ASSUME Inv PROVE EndedIsResolved
  <2> SUFFICES ASSUME NEW j \in Known \ Active, job[j].status # "FAILED" \/ Children(j) # {},
                      NEW c \in Selected(j),
                      job[j].clips[c] \in Unresolved
               PROVE  Raised(j) /\ c \in Live(j)
    BY DEF EndedIsResolved
  <2>1. j \in JobIds /\ job[j] # None /\ SomeoneResolves(j) /\ Typed(j) /\ ~ IsActive(j)
    BY <1>1 DEF Known, Active, IsActive, Inv, JobInv
  <2>2. c \in Clips
    BY <2>1, SelectedAreClips DEF Typed
  <2>3. task[j] = "done"
    BY <1>1, <2>1 DEF Inv, Shape, TaskPlaces, IsActive, Typed
  <2> QED
    BY <2>1, <2>2, <2>3 DEF SomeoneResolves, AllAreDying, IsLive, Live
<1> QED
  BY <1>1, InvHolds, PTL

(* An idempotent resubmission gets a job with its own key that nothing is   *)
(* working on any more and whose files are there.                           *)
THEOREM ReusedIsAtRestHolds == Spec => []ReusedIsAtRest
<1>1. ASSUME Inv PROVE ReusedIsAtRest
  <2> SUFFICES ASSUME NEW k \in Keys, Reusable(k)
               PROVE  LET j == index[k] IN
                        /\ job[j].key = k /\ j \notin Active /\ Live(j) = {}
                        /\ \A c \in Selected(j) : job[j].clips[c] \notin Unresolved
                             /\ (job[j].clips[c] = "COMPLETED" => <<j, c>> \in outputs)
    BY DEF ReusedIsAtRest
  <2> DEFINE j == index[k]
  <2>1. j \in JobIds /\ job[j] # None /\ job[j].status = "COMPLETED" /\ OutputsOnDisk(j)
    BY DEF Reusable, Known
  <2>2. index[k] = j
    OBVIOUS
  <2> HIDE DEF j
  <2>3. JobInv(j)
    BY <1>1, <2>1 DEF Inv
  <2>4. job[j].key = k
    BY <2>1, <2>2, <2>3 DEF JobInv, IndexNames
  <2>5. ~ IsActive(j) /\ \A c \in Clips : ~ IsLive(j, c)
    BY <2>1, <2>3 DEF JobInv, StatusIsTrue
  <2>6. Selected(j) \subseteq Clips
    BY <2>1, <2>3, SelectedAreClips DEF JobInv, Typed
  <2>7. \A c \in Selected(j) : job[j].clips[c] \notin Unresolved
    BY <2>1, <2>3, <2>5, <2>6 DEF JobInv, SomeoneResolves
  <2>8. j \notin Active /\ Live(j) = {}
    BY <2>5 DEF IsActive, Active, IsLive, Live
  <2>9. \A c \in Selected(j) : job[j].clips[c] = "COMPLETED" => <<j, c>> \in outputs
    BY <2>1 DEF OutputsOnDisk
  <2> QED
    BY <2>2, <2>4, <2>7, <2>8, <2>9
<1> QED
  BY <1>1, InvHolds, PTL

(* The sweep forgets a job and deletes its files together.                  *)
THEOREM MemoryMatchesDiskHolds == Spec => []MemoryMatchesDisk
<1>1. ASSUME Inv PROVE MemoryMatchesDisk
  <2>1. ASSUME NEW j \in Known \ lost
        PROVE  j \in dirs /\ \A c \in Selected(j) : job[j].clips[c] = "COMPLETED" => <<j, c>> \in outputs
    BY <1>1 DEF Known, Inv, JobInv, OnDisk
  <2>2. ASSUME spent.restarts = 0, NEW k \in Keys, index[k] # None
        PROVE  index[k] \in dirs \cup lost
    <3>1. index[k] \in JobIds
      BY <1>1, <2>2 DEF Inv, Shape
    <3> QED
      BY <1>1, <2>2, <3>1 DEF Inv, JobInv, OnDisk
  <2> QED
    BY <2>1, <2>2 DEF MemoryMatchesDisk
<1> QED
  BY <1>1, InvHolds, PTL

(* An ffmpeg process that no slot accounts for is left over from a          *)
(* cancelled job, a raised clip or an earlier life of the process.          *)
THEOREM ProcessesAreAccountedForHolds == Spec => []ProcessesAreAccountedFor
<1>1. ASSUME Inv PROVE ProcessesAreAccountedFor
  <2> SUFFICES ASSUME NEW p \in ffmpeg
               PROVE  child[p[1]][p[2]] = "running" \/ p[1] \notin Known
                        \/ job[p[1]].status = "CANCELLED" \/ Raised(p[1])
    BY DEF ProcessesAreAccountedFor
  <2>1. PICK j \in JobIds, c \in Clips : p = <<j, c>>
    BY <1>1 DEF Inv, Shape
  <2> QED
    BY <1>1, <2>1 DEF Inv, JobInv, ProcessIsAccountedFor, Known
<1> QED
  BY <1>1, InvHolds, PTL

(* cancel_job is final for the job and for each clip it cancelled.          *)
THEOREM CancelSticksHolds == Spec => CancelSticks
<1>1. Inv /\ [Next]_vars =>
        [\A j \in Known : ~ Raised(j) /\ job'[j] # None =>
           /\ job[j].status = "CANCELLED" => job'[j].status = "CANCELLED"
           /\ \A c \in Selected(j) :
                job[j].clips[c] = "CANCELLED" => job'[j].clips[c] = "CANCELLED"]_vars
  BY StepIsGood DEF GoodStep, Sticks, Known
<1> QED
  BY <1>1, InvHolds, PTL DEF Spec, CancelSticks
=============================================================================
