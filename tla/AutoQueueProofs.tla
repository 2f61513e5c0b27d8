--------------------------- MODULE AutoQueueProofs ---------------------------
(***************************************************************************)
(* Proofs about AutoQueue: beside its watchers the job manager does what   *)
(* JobManager says, so that what is proved there holds here; a watcher     *)
(* takes every clip there will be, each with its file.                     *)
(***************************************************************************)
EXTENDS AutoQueue, JobManagerProofs

USE ConstantsAssumption DEF LivePlaces

(* "Generate + queue" is a client of the job manager: with the watchers     *)
(* hidden, its behaviours are behaviours of JobManager.                     *)
THEOREM AutoImplementsManager == AutoSpec => Spec
<1>1. AutoInit => Init
  BY DEF AutoInit
<1>2. [AutoNext]_watchVars => [Next]_vars
  <2> SUFFICES ASSUME [AutoNext]_watchVars PROVE [Next]_vars
    OBVIOUS
  <2>1. ASSUME NEW w \in Watchers, NEW k \in Keys, GenerateAndQueue(w, k) PROVE Next
    BY <2>1 DEF GenerateAndQueue, Next, ManagerStep
  <2>2. ASSUME NEW w \in Watchers, Poll(w) \/ GivesUp(w) PROVE UNCHANGED vars
    BY <2>2 DEF Poll, PollThrough, PollGone, GivesUp
  <2> QED
    BY <2>1, <2>2 DEF AutoNext, Next, watchVars
<1> QED
  BY <1>1, <1>2, PTL DEF AutoSpec, Spec

-----------------------------------------------------------------------------
(* What the invariant of the manager does not say: a job that failed is     *)
(* over, a clip whose task may still complete it is not resolved yet, and a *)
(* cancelled job has no unresolved clip.                                    *)
IsStarting(j) == task[j] \in {"start", "probe"}

Extra(j) ==
  job[j] # None =>
    /\ job[j].status = "FAILED" => ~ IsActive(j)
    /\ ~ Raised(j) => \A c \in Selected(j) :
         /\ IsLive(j, c) /\ <<j, c>> \notin dying => job[j].clips[c] \in Unresolved
         /\ job[j].status = "CANCELLED" => job[j].clips[c] \notin Unresolved

(* Nothing will complete a clip of the job any more.                        *)
Frozen(j) ==
  \A c \in Selected(j) : /\ IsLive(j, c) => <<j, c>> \in dying
                         /\ IsStarting(j) => job[j].clips[c] # "QUEUED"

(* What a step of the manager does to the job of a watcher.                 *)
Follows(j) ==
  /\ Extra(j)'
  /\ task[j] # "none" => task'[j] # "none"
  /\ task[j] # "none" /\ job'[j] # None /\ ~ Raised(j)' =>
       /\ job[j] # None /\ ~ Raised(j)
       /\ Frozen(j) => Frozen(j)' /\ Completed(j)' \subseteq Completed(j)

ManagerInv == Inv /\ \A j \in JobIds : Extra(j)
Follow == \A j \in JobIds : Follows(j)

(* A job the step leaves alone, and one it forgets.                         *)
LEMMA OthersFollow ==
  ASSUME NEW i \in JobIds, Extra(i), job'[i] = job[i], task'[i] = task[i], child'[i] = child[i],
         \A c \in Clips : <<i, c>> \in dying' <=> <<i, c>> \in dying,
         job[i] = None \/ Selected(i) \subseteq Clips
  PROVE  Follows(i)
<1>1. job[i] # None => Selected(i)' = Selected(i)
  BY DEF Selected
<1>2. (Raised(i)' <=> Raised(i)) /\ \A c : IsLive(i, c)' <=> IsLive(i, c)
  BY DEF Raised, IsLive
<1>3. Extra(i)'
  BY <1>1, <1>2 DEF Extra, IsActive
<1>4. job[i] # None /\ Frozen(i) => Frozen(i)' /\ Completed(i)' \subseteq Completed(i)
  BY <1>1, <1>2 DEF Frozen, Completed, IsStarting
<1> QED
  BY <1>2, <1>3, <1>4 DEF Follows

LEMMA ForgottenFollows ==
  ASSUME NEW i \in JobIds, job'[i] = None, task[i] # "none" => task'[i] # "none"
  PROVE  Follows(i)
BY DEF Follows, Extra

LEMMA KnownIsJob ==
  ASSUME Inv, NEW j \in JobIds
  PROVE  /\ JobInv(j)
         /\ job[j] # None => IsJob(job[j]) /\ Selected(j) \subseteq Clips /\ task[j] # "none"
         /\ job[j] = None \/ Selected(j) \subseteq Clips
BY SelectedAreClips DEF Inv, JobInv, Typed

(* A step that leaves all jobs but one alone.                               *)
LEMMA OneFollows ==
  ASSUME ManagerInv, NEW j \in JobIds, Follows(j),
         \A i \in JobIds \ {j} :
           /\ job'[i] = job[i] /\ task'[i] = task[i] /\ child'[i] = child[i]
           /\ \A c \in Clips : <<i, c>> \in dying' <=> <<i, c>> \in dying
  PROVE  Follow
BY KnownIsJob, OthersFollow DEF ManagerInv, Follow

-----------------------------------------------------------------------------
(* A clip goes on that is not marked: it is not frozen.                     *)
LEMMA ClipFollows ==
  ASSUME ManagerInv, NEW j \in JobIds, NEW c \in Clips, IsLive(j, c), <<j, c>> \notin dying,
         NEW where \in ClipPlaces, Goes(j, c, where), ClipAfter(j, c),
         job[j] # None /\ c \in Selected(j) /\ ~ Raised(j) /\ where \in LivePlaces =>
           job'[j].clips[c] \in Unresolved,
         job[j] # None /\ c \in Selected(j) /\ ~ Raised(j) /\ job[j].status = "CANCELLED" =>
           job'[j].clips[c] \notin Unresolved,
         UNCHANGED <<task, dying>>
  PROVE  Follow
<1>1. /\ child'[j][c] = where
      /\ \A d \in Clips \ {c} : child'[j][d] = child[j][d]
      /\ \A i \in JobIds \ {j} : child'[i] = child[i]
  BY ChildSet DEF ManagerInv, Inv
<1>2. JobInv(j) /\ (job[j] # None => IsJob(job[j]) /\ Selected(j) \subseteq Clips) /\ Extra(j)
  BY KnownIsJob DEF ManagerInv
<1>3. job[j] # None => Selected(j)' = Selected(j)
  BY DEF ClipAfter, Selected
<1>4. Raised(j) => Raised(j)'
  BY <1>1 DEF Raised, IsLive
<1>5. Extra(j)'
  <2> SUFFICES ASSUME job[j] # None PROVE Extra(j)'
    BY DEF Extra, ClipAfter
  <2>1. job'[j].status = "FAILED" => ~ IsActive(j)'
    BY <1>2 DEF Extra, ClipAfter, IsActive
  <2>2. ASSUME ~ Raised(j)', NEW d \in Selected(j)
        PROVE  /\ IsLive(j, d)' /\ <<j, d>> \notin dying' => job'[j].clips[d] \in Unresolved
               /\ job'[j].status = "CANCELLED" => job'[j].clips[d] \notin Unresolved
    <3>1. CASE d = c
      BY <1>1, <1>4, <2>2, <3>1 DEF ClipAfter, IsLive
    <3>2. CASE d # c
      BY <1>1, <1>2, <1>4, <2>2, <3>2 DEF ClipAfter, IsLive, Extra
    <3> QED
      BY <3>1, <3>2
  <2> QED
    BY <1>3, <2>1, <2>2 DEF Extra
<1>6. job[j] # None /\ Frozen(j) => c \notin Selected(j)
  BY DEF Frozen
<1>7. job[j] # None /\ Frozen(j) => Frozen(j)' /\ Completed(j)' \subseteq Completed(j)
  <2> SUFFICES ASSUME job[j] # None, Frozen(j)
               PROVE  Frozen(j)' /\ Completed(j)' \subseteq Completed(j)
    OBVIOUS
  <2>1. \A d \in Selected(j) : /\ d \in Clips /\ child'[j][d] = child[j][d]
                               /\ job'[j].clips[d] = job[j].clips[d]
    BY <1>1, <1>2, <1>6 DEF ClipAfter
  <2> QED
    BY <1>3, <2>1 DEF Frozen, Completed, IsLive, IsStarting
<1>8. Follows(j)
  BY <1>4, <1>5, <1>7 DEF Follows, ClipAfter
<1> QED
  BY <1>1, <1>8, OneFollows DEF ClipAfter

LEMMA OpenClip ==
  ASSUME ManagerInv, NEW j \in JobIds, NEW c \in Clips, IsLive(j, c), <<j, c>> \notin dying,
         job[j] # None, c \in Selected(j), ~ Raised(j)
  PROVE  job[j].clips[c] \in Unresolved /\ job[j].status # "CANCELLED"
BY DEF ManagerInv, Extra

LEMMA ClipStepFollows ==
  ASSUME ManagerInv, NEW j \in JobIds, NEW c \in Clips,
         StartClip(j, c) \/ EnterSlot(j, c) \/ EncodeDone(j, c) \/ ClipCompletes(j, c)
           \/ ClipFails(j, c)
  PROVE  Follow
<1> USE DEF ClipPlaces
<1>0. Inv /\ UNCHANGED <<task, dying>>
  BY DEF ManagerInv, StartClip, EnterSlot, EncodeDone, ClipCompletes, ClipFails
<1>1. <<j, c>> \notin dying /\ IsLive(j, c)
  BY DEF StartClip, EnterSlot, EncodeDone, ClipCompletes, ClipFails, Waits, IsLive
<1>2. CASE StartClip(j, c)
  <2>1. PICK where \in {"running", "waiting"} : Goes(j, c, where)
    BY <1>2 DEF StartClip
  <2>2. ClipAfter(j, c) /\ (job[j] # None /\ c \in Selected(j) => job'[j].clips[c] = "PROCESSING")
    BY <1>0, <1>2, ClipSetIs DEF StartClip, ClipStatus
  <2> QED
    BY <1>0, <1>1, <2>1, <2>2, ClipFollows, OpenClip DEF Unresolved
<1>3. CASE EnterSlot(j, c) \/ EncodeDone(j, c)
  <2>1. PICK where \in {"running", "validating"} : UNCHANGED job /\ Goes(j, c, where)
    BY <1>3 DEF EnterSlot, EncodeDone
  <2> QED
    BY <1>0, <1>1, <2>1, ClipUnset, ClipFollows, OpenClip
<1>4. CASE ClipCompletes(j, c) \/ ClipFails(j, c)
  <2>1. PICK where \in {"done", "raised"} : Goes(j, c, where)
    BY <1>4 DEF ClipCompletes, ClipFails
  <2>2. PICK s \in {"COMPLETED", "FAILED"} : SetClip(j, c, s)
    BY <1>4 DEF ClipCompletes, ClipFails
  <2>3. ClipAfter(j, c) /\ (job[j] # None /\ c \in Selected(j) => job'[j].clips[c] = s)
    BY <1>0, <2>2, ClipSetIs DEF ClipStatus
  <2> QED
    BY <1>0, <1>1, <2>1, <2>3, ClipFollows DEF Unresolved
<1> QED
  BY <1>2, <1>3, <1>4

LEMMA ClipCancelledFollows ==
  ASSUME ManagerInv, NEW j \in JobIds, NEW c \in Clips, ClipCancelled(j, c)
  PROVE  Follow
<1>0. Inv /\ Extra(j) /\ JobInv(j) /\ (job[j] # None => Selected(j) \subseteq Clips)
  BY KnownIsJob DEF ManagerInv
<1>1. /\ <<j, c>> \in dying /\ dying' = dying \ {<<j, c>>} /\ Goes(j, c, "cancelled")
      /\ UNCHANGED task
  BY DEF ClipCancelled
<1>2. ClipAfter(j, c) /\ IsLive(j, c)
  BY <1>0, <1>1, ClipSetIs, ClipUnset DEF ClipCancelled, ClipStatus, JobInv, Typed
<1>3. job[j] # None /\ c \in Selected(j) =>
        job'[j].clips[c] \notin Unresolved /\ job'[j].clips[c] \in {job[j].clips[c], "CANCELLED"}
  BY <1>0, <1>1, ClipSetIs DEF ClipCancelled, ClipStatus, JobInv, SomeoneResolves, Unresolved
<1>4. /\ child'[j][c] = "cancelled"
      /\ \A d \in Clips \ {c} : child'[j][d] = child[j][d]
      /\ \A i \in JobIds \ {j} : child'[i] = child[i]
  BY <1>0, <1>1, ChildSet DEF ClipPlaces, Inv
<1>5. Raised(j)' <=> Raised(j)
  BY <1>2, <1>4 DEF Raised, IsLive
<1>6. job[j] # None => Selected(j)' = Selected(j)
  BY <1>2 DEF ClipAfter, Selected
<1>7. Extra(j)'
  <2> SUFFICES ASSUME job[j] # None PROVE Extra(j)'
    BY <1>2 DEF Extra, ClipAfter
  <2>1. job'[j].status = "FAILED" => ~ IsActive(j)'
    BY <1>0, <1>1, <1>2 DEF Extra, ClipAfter, IsActive
  <2>2. ASSUME ~ Raised(j)', NEW d \in Selected(j)
        PROVE  /\ IsLive(j, d)' /\ <<j, d>> \notin dying' => job'[j].clips[d] \in Unresolved
               /\ job'[j].status = "CANCELLED" => job'[j].clips[d] \notin Unresolved
    <3>1. CASE d = c
      BY <1>3, <1>4, <3>1 DEF IsLive
    <3>2. CASE d # c
      BY <1>0, <1>1, <1>2, <1>4, <1>5, <2>2, <3>2 DEF ClipAfter, IsLive, Extra
    <3> QED
      BY <3>1, <3>2
  <2> QED
    BY <1>6, <2>1, <2>2 DEF Extra
<1>8. ASSUME job[j] # None, Frozen(j)
      PROVE  Frozen(j)' /\ Completed(j)' \subseteq Completed(j)
  <2>1. ASSUME NEW d \in Selected(j)
        PROVE  /\ IsLive(j, d)' => <<j, d>> \in dying'
               /\ IsStarting(j)' => job'[j].clips[d] # "QUEUED"
               /\ job'[j].clips[d] = "COMPLETED" => job[j].clips[d] = "COMPLETED"
    <3>1. CASE d = c
      BY <1>3, <1>4, <1>8, <3>1 DEF IsLive, Unresolved
    <3>2. CASE d # c
      <4>1. d \in Clips /\ child'[j][d] = child[j][d] /\ job'[j].clips[d] = job[j].clips[d]
        BY <1>0, <1>2, <1>4, <1>8, <3>2 DEF ClipAfter
      <4>2. <<j, d>> \in dying => <<j, d>> \in dying'
        BY <1>1, <3>2
      <4> QED
        BY <1>1, <1>8, <4>1, <4>2 DEF Frozen, IsLive, IsStarting
    <3> QED
      BY <3>1, <3>2
  <2> QED
    BY <1>6, <1>8, <2>1 DEF Frozen, Completed
<1>9. Follows(j)
  BY <1>1, <1>2, <1>5, <1>7, <1>8 DEF Follows, ClipAfter
<1> QED
  BY <1>1, <1>2, <1>4, <1>9, OneFollows DEF ClipAfter

-----------------------------------------------------------------------------
(* The task of a job goes on or ends, its clips' tasks do not move.         *)
LEMMA JobFollows ==
  ASSUME ManagerInv, NEW j \in JobIds, IsActive(j), JobAfter(j),
         NEW where \in {"probe", "done"}, task' = [task EXCEPT ![j] = where],
         job'[j].status = "FAILED" => where = "done",
         where = "probe" => task[j] = "start",
         job'[j].status = "CANCELLED" /\ ~ Raised(j) =>
           \A c \in Selected(j) : job'[j].clips[c] \notin Unresolved,
         \A c \in Selected(j) : \/ job'[j].clips[c] = job[j].clips[c]
                                \/ job'[j].clips[c] = "FAILED" /\ ~ IsLive(j, c),
         UNCHANGED <<child, dying>>
  PROVE  Follow
<1>1. /\ Inv /\ JobInv(j) /\ Extra(j) /\ job[j] # None /\ task[j] # "none"
      /\ Selected(j) \subseteq Clips /\ Selected(j)' = Selected(j)
  BY ActiveIsJob DEF ManagerInv, IsActive, JobAfter, Selected
<1>2. task'[j] = where /\ \A i \in JobIds \ {j} : task'[i] = task[i]
  BY <1>1 DEF Inv, Shape
<1>3. (Raised(j)' <=> Raised(j)) /\ \A c : IsLive(j, c)' <=> IsLive(j, c)
  BY DEF Raised, IsLive
<1>4. Extra(j)'
  BY <1>1, <1>2, <1>3 DEF Extra, IsActive
<1>5. Frozen(j) => Frozen(j)' /\ Completed(j)' \subseteq Completed(j)
  BY <1>1, <1>2, <1>3 DEF Frozen, Completed, IsStarting
<1>6. Follows(j)
  BY <1>1, <1>2, <1>3, <1>4, <1>5 DEF Follows
<1> QED
  BY <1>2, <1>6, OneFollows DEF JobAfter

LEMMA JobStepFollows ==
  ASSUME ManagerInv, NEW j \in JobIds,
         StartJob(j) \/ ProbeFails(j) \/ GatherDone(j) \/ GatherRaises(j) \/ JobCancelled(j)
  PROVE  Follow
<1>1. /\ IsActive(j) /\ Inv /\ JobInv(j) /\ job[j] # None /\ IsJob(job[j])
      /\ Selected(j) \subseteq Clips /\ UNCHANGED <<child, dying>>
  <2>1. Inv
    BY DEF ManagerInv
  <2>2. IsActive(j)
    BY <2>1 DEF StartJob, ProbeFails, GatherDone, GatherRaises, JobCancelled, Marked, IsActive,
       Inv, JobInv, Typed
  <2>3. UNCHANGED <<child, dying>>
    BY DEF StartJob, ProbeFails, GatherDone, GatherRaises, JobCancelled
  <2> QED
    BY <2>1, <2>2, <2>3, ActiveIsJob
<1>2. CASE StartJob(j)
  <2>1. PICK s \in {"VALIDATING", "FAILED"} :
          /\ job' = [job EXCEPT ![j].status = s]
          /\ task' = [task EXCEPT ![j] = IF s = "FAILED" THEN "done" ELSE "probe"]
          /\ task[j] = "start"
    BY <1>2 DEF StartJob
  <2>2. JobAfter(j) /\ job'[j].status = s /\ job'[j].clips = job[j].clips
    BY <1>1, <2>1, StatusIs DEF JobStatus
  <2> QED
    BY <1>1, <2>1, <2>2, JobFollows
<1>3. CASE GatherRaises(j) \/ JobCancelled(j)
  <2>1. PICK s \in {"FAILED", "CANCELLED"} :
          /\ job' = [job EXCEPT ![j].status = s]
          /\ task' = [task EXCEPT ![j] = "done"]
          /\ s = "CANCELLED" => j \in cancelling
    BY <1>3 DEF GatherRaises, JobCancelled, Marked
  <2>2. JobAfter(j) /\ job'[j].status = s /\ job'[j].clips = job[j].clips
    BY <1>1, <2>1, StatusIs DEF JobStatus
  <2>3. s = "CANCELLED" /\ ~ Raised(j) => \A c \in Selected(j) : job[j].clips[c] \notin Unresolved
    BY <1>1, <2>1 DEF JobInv, SomeoneResolves, AllAreDying, IsActive, IsLive, Unresolved
  <2> QED
    BY <1>1, <2>1, <2>2, <2>3, JobFollows
<1>4. CASE GatherDone(j)
  <2>1. job[j].clips \in [Selected(j) -> ClipStatus] /\ FinishJob(j, job[j].clips)
    BY <1>1, <1>4 DEF IsJob, Selected, GatherDone
  <2>2. /\ task' = [task EXCEPT ![j] = "done"]
        /\ JobAfter(j) /\ job'[j].clips = job[j].clips /\ job'[j].status \in {"COMPLETED", "FAILED"}
    BY <1>1, <2>1, FinishIs
  <2> QED
    BY <1>1, <2>2, JobFollows
<1>5. CASE ProbeFails(j)
  <2>1. /\ task[j] = "probe" /\ j \notin cancelling /\ task' = [task EXCEPT ![j] = "done"]
    BY <1>5 DEF ProbeFails, Marked
  <2>2. PICK out \in SUBSET Selected(j) :
          job' = [job EXCEPT ![j].status = "FAILED",
                    ![j].clips = [c \in Selected(j) |->
                       IF c \in out THEN "FAILED" ELSE job[j].clips[c]]]
    BY <1>5 DEF ProbeFails
  <2> DEFINE clips == [c \in Selected(j) |-> IF c \in out THEN "FAILED" ELSE job[j].clips[c]]
  <2>3. /\ clips \in [Selected(j) -> ClipStatus]
        /\ \A c \in Selected(j) : clips[c] = job[j].clips[c] \/ clips[c] = "FAILED"
    BY <1>1, ActiveIsJob DEF ClipStatus
  <2>4. job' = [job EXCEPT ![j].status = "FAILED", ![j].clips = clips]
    BY <2>2
  <2> HIDE DEF clips
  <2>5. JobAfter(j) /\ job'[j].status = "FAILED" /\ job'[j].clips = clips
    BY <1>1, <2>3, <2>4, ClipsSet DEF JobAfter, JobStatus, Inv, Shape
  <2>6. \A c \in Clips : ~ IsLive(j, c)
    BY <1>1, <2>1, BeforeTheClips DEF IsLive
  <2> QED
    BY <1>1, <2>1, <2>3, <2>5, <2>6, JobFollows
<1> QED
  BY <1>2, <1>3, <1>4, <1>5

(* A job whose clips get their tasks is not frozen, unless it has none.     *)
LEMMA ProbeDoneFollows ==
  ASSUME ManagerInv, NEW j \in JobIds, ProbeDone(j)
  PROVE  Follow
<1>1. /\ task[j] = "probe" /\ j \notin cancelling /\ UNCHANGED dying /\ Inv /\ IsActive(j)
  BY DEF ProbeDone, Marked, ManagerInv, IsActive
<1>2. /\ JobInv(j) /\ job[j] # None /\ IsJob(job[j]) /\ Selected(j) \subseteq Clips
      /\ \A c \in Selected(j) : job[j].clips[c] \in ClipStatus
  BY <1>1, ActiveIsJob
<1>3. /\ \A c \in Clips : child[j][c] = "none" /\ <<j, c>> \notin dying
      /\ ~ Raised(j) /\ \A c \in Selected(j) : job[j].clips[c] = "QUEUED"
  BY <1>1, BeforeTheClips
<1>4. PICK out \in SUBSET Selected(j) :
        LET clips == [c \in Selected(j) |-> IF c \in out THEN "FAILED" ELSE job[j].clips[c]]
            runnable == {c \in Selected(j) : clips[c] = "QUEUED"}
        IN  IF runnable = {}
              THEN FinishJob(j, clips) /\ UNCHANGED child
              ELSE /\ task' = [task EXCEPT ![j] = "gather"]
                   /\ job' = [job EXCEPT ![j].status = "PROCESSING", ![j].clips = clips]
                   /\ child' = [child EXCEPT ![j] =
                        [c \in Clips |-> IF c \in runnable THEN "ready" ELSE "none"]]
  BY DEF ProbeDone
<1> DEFINE clips == [c \in Selected(j) |-> IF c \in out THEN "FAILED" ELSE job[j].clips[c]]
           runnable == {c \in Selected(j) : clips[c] = "QUEUED"}
<1>5. /\ clips \in [Selected(j) -> ClipStatus]
      /\ \A c \in Selected(j) : clips[c] = job[j].clips[c] \/ clips[c] = "FAILED"
  BY <1>2 DEF ClipStatus
<1>6. CASE runnable = {}
  <2>1. FinishJob(j, clips) /\ UNCHANGED child
    BY <1>4, <1>6
  <2> HIDE DEF clips, runnable
  <2>2. /\ task' = [task EXCEPT ![j] = "done"]
        /\ JobAfter(j) /\ job'[j].clips = clips /\ job'[j].status \in {"COMPLETED", "FAILED"}
    BY <1>1, <1>2, <1>5, <2>1, FinishIs
  <2> QED
    BY <1>1, <1>2, <1>3, <1>5, <2>1, <2>2, JobFollows DEF IsLive
<1>7. CASE runnable # {}
  <2>1. /\ task' = [task EXCEPT ![j] = "gather"]
        /\ job' = [job EXCEPT ![j].status = "PROCESSING", ![j].clips = clips]
        /\ child' = [child EXCEPT ![j] = [c \in Clips |-> IF c \in runnable THEN "ready" ELSE "none"]]
    BY <1>4, <1>7
  <2>2. \A c \in runnable : c \in Selected(j) /\ clips[c] = "QUEUED"
    OBVIOUS
  <2>3. \E c \in Selected(j) : job[j].clips[c] = "QUEUED"
    BY <1>3, <1>7
  <2> HIDE DEF clips, runnable
  <2>4. JobAfter(j) /\ job'[j].status = "PROCESSING" /\ job'[j].clips = clips
    BY <1>1, <1>2, <1>5, <2>1, ClipsSet DEF JobAfter, JobStatus, Inv, Shape
  <2>5. /\ task'[j] = "gather" /\ \A i \in JobIds \ {j} : task'[i] = task[i]
        /\ \A c \in Clips : child'[j][c] = IF c \in runnable THEN "ready" ELSE "none"
        /\ \A i \in JobIds \ {j} : child'[i] = child[i]
    BY <1>1, <2>1 DEF Inv, Shape
  <2>6. Selected(j)' = Selected(j)
    BY <2>4 DEF JobAfter, Selected
  <2>7. Extra(j)'
    BY <1>2, <2>2, <2>4, <2>5, <2>6 DEF Extra, IsLive, Unresolved
  <2>8. ~ Frozen(j)
    BY <1>1, <2>3 DEF Frozen, IsStarting
  <2>9. Follows(j)
    BY <1>2, <1>3, <2>5, <2>7, <2>8 DEF Follows
  <2> QED
    BY <1>1, <2>4, <2>5, <2>9, OneFollows DEF JobAfter
<1> QED
  BY <1>6, <1>7

-----------------------------------------------------------------------------
(* Requests, time, the sweeps and the restart.                              *)
LEMMA CancelJobFollows ==
  ASSUME ManagerInv, NEW j \in JobIds, CancelJob(j)
  PROVE  Follow
<1> DEFINE clips == [c \in Selected(j) |->
                       IF job[j].clips[c] \in Cancellable THEN "CANCELLED" ELSE job[j].clips[c]]
<1>1. /\ job[j] # None /\ MarkTask(j)
      /\ job' = [job EXCEPT ![j].status = "CANCELLED", ![j].clips = clips]
      /\ UNCHANGED <<task, child>>
  BY DEF CancelJob, Known
<1>2. /\ Inv /\ Extra(j) /\ JobInv(j) /\ IsJob(job[j]) /\ Selected(j) \subseteq Clips
      /\ task[j] # "none"
  BY <1>1, KnownIsJob DEF ManagerInv
<1>3. /\ clips \in [Selected(j) -> ClipStatus]
      /\ \A c \in Selected(j) : /\ clips[c] \notin Unresolved
                                /\ clips[c] = "COMPLETED" => job[j].clips[c] = "COMPLETED"
  BY <1>2 DEF ClipStatus, Cancellable, Unresolved, IsJob, Selected
<1> HIDE DEF clips
<1>4. JobAfter(j) /\ job'[j].status = "CANCELLED" /\ job'[j].clips = clips
  BY <1>1, <1>2, <1>3, ClipsSet DEF JobAfter, JobStatus, Inv, Shape
<1>5. /\ dying \subseteq dying'
      /\ \A i \in JobIds, c \in Clips : <<i, c>> \in dying' => <<i, c>> \in dying \/ i = j
      /\ ~ Raised(j) => \A c \in Clips : IsLive(j, c) => <<j, c>> \in dying'
  BY <1>1, <1>2 DEF MarkTask, IsActive, Live, IsLive, JobInv, Typed, SomeoneResolves, AllAreDying,
     Inv, Shape
<1>6. Selected(j)' = Selected(j) /\ (Raised(j)' <=> Raised(j)) /\ \A c : IsLive(j, c)' <=> IsLive(j, c)
  BY <1>1, <1>4 DEF JobAfter, Selected, Raised, IsLive
<1>7. Extra(j)'
  BY <1>2, <1>3, <1>4, <1>5, <1>6 DEF Extra
<1>8. Frozen(j) => Frozen(j)' /\ Completed(j)' \subseteq Completed(j)
  BY <1>2, <1>3, <1>4, <1>5, <1>6 DEF Frozen, Completed, Unresolved
<1>9. Follows(j)
  BY <1>1, <1>6, <1>7, <1>8 DEF Follows
<1> QED
  BY <1>1, <1>4, <1>5, <1>9, OneFollows DEF JobAfter

LEMMA CreateJobFollows ==
  ASSUME ManagerInv, NEW k \in Keys, CreateJob(k)
  PROVE  Follow
<1> DEFINE new == [key |-> k, status |-> "QUEUED", clips |-> [c \in ClipsOf[k] |-> "QUEUED"]]
<1>1. PICK j \in JobIds : /\ task[j] = "none"
                          /\ job' = [job EXCEPT ![j] = new]
                          /\ task' = [task EXCEPT ![j] = "start"]
  BY DEF CreateJob
<1>2. UNCHANGED <<child, dying>>
  BY DEF CreateJob
<1>3. Inv /\ JobInv(j) /\ \A c \in Clips : child[j][c] = "none"
  BY <1>1 DEF ManagerInv, Inv, JobInv, Typed
<1>4. /\ job'[j] = new /\ \A i \in JobIds \ {j} : job'[i] = job[i]
      /\ task'[j] = "start" /\ \A i \in JobIds \ {j} : task'[i] = task[i]
  <2> HIDE DEF new
  <2> QED
    BY <1>1, <1>3 DEF Inv, Shape
<1>5. Extra(j)'
  BY <1>2, <1>3, <1>4 DEF Extra, IsLive, Selected
<1>6. Follows(j)
  BY <1>1, <1>5 DEF Follows
<1> QED
  BY <1>2, <1>4, <1>6, OneFollows

(* The jobs a step forgets; it does not move the others.                    *)
LEMMA SomeForgotten ==
  ASSUME ManagerInv, NEW S, job' = [i \in JobIds |-> IF i \in S THEN None ELSE job[i]],
         UNCHANGED <<task, child, dying>>
  PROVE  Follow
<1>1. ASSUME NEW i \in JobIds \cap S PROVE Follows(i)
  BY ForgottenFollows
<1>2. ASSUME NEW i \in JobIds \ S PROVE Follows(i)
  BY KnownIsJob, OthersFollow DEF ManagerInv
<1> QED
  BY <1>1, <1>2 DEF Follow

LEMMA StillFollows ==
  ASSUME ManagerInv, UNCHANGED <<job, task, child, dying>>
  PROVE  Follow
BY KnownIsJob, OthersFollow DEF ManagerInv, Follow

LEMMA RestartFollows ==
  ASSUME ManagerInv, Restart
  PROVE  Follow
<1>1. \A j \in JobIds : job'[j] = None /\ (task[j] # "none" => task'[j] # "none")
  BY DEF Restart
<1> QED
  BY <1>1, ForgottenFollows DEF Follow

LEMMA StepFollows == ManagerInv /\ [Next]_vars => ManagerInv' /\ Follow
<1> SUFFICES ASSUME ManagerInv, [Next]_vars PROVE ManagerInv' /\ Follow
  OBVIOUS
<1>1. ASSUME NEW k \in Keys, ReuseJob(k) \/ CreateJob(k) PROVE Follow
  BY <1>1, StillFollows, CreateJobFollows DEF ReuseJob, vars
<1>2. ASSUME NEW j \in JobIds, JobStep(j) PROVE Follow
  BY <1>2, JobStepFollows, ProbeDoneFollows DEF JobStep
<1>3. ASSUME NEW j \in JobIds, CancelJob(j) \/ Age(j) PROVE Follow
  BY <1>3, CancelJobFollows, StillFollows DEF Age, memory
<1>4. ASSUME NEW j \in JobIds, NEW c \in Clips, ClipStep(j, c) PROVE Follow
  BY <1>4, ClipStepFollows, ClipCancelledFollows DEF ClipStep
<1>5. ASSUME NEW j \in JobIds, NEW c \in Clips, OrphanExits(<<j, c>>) PROVE Follow
  BY <1>5, StillFollows DEF OrphanExits, memory
<1>6. ASSUME Sweep PROVE Follow
  <2>1. PICK S : job' = [i \in JobIds |-> IF i \in S THEN None ELSE job[i]]
    BY <1>6 DEF Sweep, Forget
  <2>2. UNCHANGED <<task, child, dying>>
    BY <1>6 DEF Sweep
  <2> QED
    BY <2>1, <2>2, SomeForgotten
<1>7. ASSUME CleanupScript \/ UNCHANGED vars PROVE Follow
  <2>1. UNCHANGED <<job, task, child, dying>>
    BY <1>7 DEF CleanupScript, memory, vars
  <2> QED
    BY <2>1, StillFollows
<1>8. Follow
  BY <1>1, <1>2, <1>3, <1>4, <1>5, <1>6, <1>7, RestartFollows DEF Next, ManagerStep
<1>9. Inv'
  BY StepIsGood DEF GoodStep, ManagerInv
<1> QED
  BY <1>8, <1>9 DEF ManagerInv, Follow, Follows

-----------------------------------------------------------------------------
(* The watchers.                                                            *)
WatchPlaces == {"none", "poll", "queued", "nothing", "raised", "gave_up", "lost"}

WatchType == [pc : WatchPlaces, job : JobIds \cup {None}, clips : SUBSET Clips]

Watching(w) ==
  LET j == watch[w].job IN
    /\ watch[w].pc \in {"poll", "queued", "nothing"} => j \in JobIds /\ task[j] # "none"
    /\ watch[w].pc \in {"queued", "nothing"} /\ job[j] # None /\ ~ Raised(j) =>
         Frozen(j) /\ Completed(j) \subseteq watch[w].clips

WatchInv ==
  /\ ManagerInv
  /\ watch \in [Watchers -> WatchType]
  /\ \A w \in Watchers : Watching(w)

(* Either break of the loop finds the job as it will stay.                  *)
LEMMA ThroughIsFrozen ==
  ASSUME ManagerInv, NEW j \in JobIds, job[j] # None, ~ Raised(j), Through(j)
  PROVE  Frozen(j)
<1>1. /\ JobInv(j) /\ Extra(j) /\ IsJob(job[j]) /\ Selected(j) \subseteq Clips
      /\ task[j] # "none" /\ task[j] \in TaskPlaces
  BY KnownIsJob DEF ManagerInv, Inv, Shape
<1>2. CASE ~ IsActive(j)
  <2>1. AllAreDying(j)
    BY <1>1, <1>2 DEF JobInv, SomeoneResolves, IsActive, TaskPlaces
  <2> QED
    BY <1>1, <1>2, <2>1 DEF Frozen, AllAreDying, IsActive, IsStarting
<1>3. CASE IsActive(j)
  <2>1. \A c \in Selected(j) : job[j].clips[c] \notin Unresolved
    <3>1. CASE JobIsOver(j)
      <4>1. job[j].status = "CANCELLED"
        BY <1>1, <1>3, <3>1 DEF JobIsOver, Extra, JobInv, StatusIsTrue
      <4> QED
        BY <1>1, <4>1 DEF Extra
    <3>2. CASE Resolved(j)
      BY <3>2 DEF Resolved, Unresolved
    <3> QED
      BY <3>1, <3>2 DEF Through
  <2> QED
    BY <1>1, <2>1 DEF Frozen, Extra, Unresolved
<1> QED
  BY <1>2, <1>3

LEMMA WatchStep == WatchInv /\ [AutoNext]_watchVars => WatchInv'
<1> SUFFICES ASSUME WatchInv, [AutoNext]_watchVars PROVE WatchInv'
  OBVIOUS
<1>0. ManagerInv /\ watch \in [Watchers -> WatchType] /\ \A w \in Watchers : Watching(w)
  BY DEF WatchInv
<1>1. ASSUME [Next]_vars, watch' \in [Watchers -> WatchType],
             \A w \in Watchers :
               \/ watch'[w] = watch[w]
               \/ watch'[w].pc \notin {"poll", "queued", "nothing"}
               \/ watch'[w].pc = "poll" /\ watch'[w].job \in JobIds /\ task'[watch'[w].job] # "none"
      PROVE  WatchInv'
  <2>1. ManagerInv' /\ Follow
    BY <1>0, <1>1, StepFollows
  <2>2. ASSUME NEW w \in Watchers PROVE Watching(w)'
    <3>1. CASE watch'[w] = watch[w]
      <4>1. CASE watch[w].pc \in {"poll", "queued", "nothing"}
        <5>1. watch[w].job \in JobIds /\ Follows(watch[w].job) /\ Watching(w)
          BY <1>0, <2>1, <4>1 DEF Watching, Follow
        <5> QED
          BY <3>1, <4>1, <5>1 DEF Watching, Follows
      <4>2. CASE watch[w].pc \notin {"poll", "queued", "nothing"}
        BY <3>1, <4>2 DEF Watching
      <4> QED
        BY <4>1, <4>2
    <3>2. CASE watch'[w].pc \notin {"poll", "queued", "nothing"}
      BY <3>2 DEF Watching
    <3>3. CASE watch'[w].pc = "poll" /\ watch'[w].job \in JobIds /\ task'[watch'[w].job] # "none"
      BY <3>3 DEF Watching
    <3> QED
      BY <1>1, <3>1, <3>2, <3>3
  <2> QED
    BY <1>1, <2>1, <2>2 DEF WatchInv
<1>2. CASE (ManagerStep /\ UNCHANGED watch) \/ UNCHANGED watchVars
  BY <1>0, <1>1, <1>2 DEF Next, watchVars
<1>3. CASE Restart /\ Dies
  <2>1. ASSUME NEW w \in Watchers
        PROVE  /\ watch'[w] \in WatchType
               /\ watch'[w] = watch[w] \/ watch'[w].pc \notin {"poll", "queued", "nothing"}
    <3> DEFINE m == [watch[w] EXCEPT !.pc = "lost"]
    <3>1. watch[w] \in WatchType
      BY <1>0
    <3>2. m \in WatchType /\ m.pc = "lost"
      BY <3>1 DEF WatchType, WatchPlaces
    <3>3. watch'[w] = IF watch[w].pc = "poll" THEN m ELSE watch[w]
      BY <1>3 DEF Dies
    <3> HIDE DEF m
    <3> QED
      BY <3>1, <3>2, <3>3
  <2>2. watch' = [w \in Watchers |-> watch'[w]]
    BY <1>3 DEF Dies
  <2>3. watch' \in [Watchers -> WatchType]
    BY <2>1, <2>2
  <2> QED
    BY <1>1, <1>3, <2>1, <2>3 DEF Next
<1>4. ASSUME NEW w \in Watchers, NEW k \in Keys, GenerateAndQueue(w, k) PROVE WatchInv'
  <2>1. PICK j : Watches(w, j) /\ j \in JobIds /\ task'[j] # "none" /\ Next
    <3>1. CASE ReuseJob(k) /\ Watches(w, index[k])
      <4>1. index[k] \in JobIds /\ job[index[k]] # None /\ UNCHANGED vars
        BY <3>1 DEF ReuseJob, Reusable, Known
      <4>2. task[index[k]] # "none"
        BY <1>0, <4>1, KnownIsJob DEF ManagerInv
      <4> QED
        BY <3>1, <4>1, <4>2 DEF vars, Next, ManagerStep
    <3>2. ASSUME CreateJob(k), NEW j \in JobIds, task[j] # task'[j], Watches(w, j)
          PROVE  task'[j] # "none" /\ Next
      BY <1>0, <3>2 DEF CreateJob, Next, ManagerStep, ManagerInv, Inv, Shape
    <3> QED
      BY <1>4, <3>1, <3>2 DEF GenerateAndQueue
  <2> DEFINE m == [pc |-> "poll", job |-> j, clips |-> {}]
  <2>2. m \in WatchType /\ m.pc = "poll" /\ m.job = j
    BY <2>1 DEF WatchType, WatchPlaces
  <2>3. watch' = [watch EXCEPT ![w] = m]
    BY <2>1 DEF Watches
  <2> HIDE DEF m
  <2>4. /\ watch' \in [Watchers -> WatchType] /\ watch'[w] = m
        /\ \A v \in Watchers \ {w} : watch'[v] = watch[v]
    BY <1>0, <2>2, <2>3
  <2> QED
    BY <1>1, <2>1, <2>2, <2>4
<1>5. ASSUME NEW w \in Watchers, PollGone(w) \/ GivesUp(w) PROVE WatchInv'
  <2>1. PICK pc \in {"raised", "gave_up"} : watch' = [watch EXCEPT ![w].pc = pc]
    BY <1>5 DEF PollGone, GivesUp
  <2>2. UNCHANGED vars
    BY <1>5 DEF PollGone, GivesUp
  <2> DEFINE m == [watch[w] EXCEPT !.pc = pc]
  <2>3. m \in WatchType /\ m.pc = pc
    BY <1>0 DEF WatchType, WatchPlaces
  <2>4. watch' = [watch EXCEPT ![w] = m]
    BY <2>1
  <2> HIDE DEF m
  <2>5. /\ watch' \in [Watchers -> WatchType] /\ watch'[w] = m
        /\ \A v \in Watchers \ {w} : watch'[v] = watch[v]
    BY <1>0, <2>3, <2>4
  <2> QED
    BY <1>1, <2>2, <2>3, <2>5
<1>6. ASSUME NEW w \in Watchers, PollThrough(w) PROVE WatchInv'
  <2> DEFINE j == watch[w].job
             pc == IF Takes(j) = {} THEN "nothing" ELSE "queued"
             m == [watch[w] EXCEPT !.clips = Takes(j), !.pc = pc]
  <2>1. /\ j \in JobIds /\ job[j] # None /\ Through(j) /\ UNCHANGED vars
        /\ watch' = [watch EXCEPT ![w] = m]
    BY <1>6 DEF PollThrough, Known
  <2>2. Selected(j) \subseteq Clips /\ task[j] # "none"
    BY <1>0, <2>1, KnownIsJob DEF ManagerInv
  <2>3. Takes(j) \in SUBSET Clips
    BY <2>2 DEF Takes, Completed
  <2>4. m \in WatchType /\ m.job = j /\ m.clips = Takes(j) /\ m.pc \in {"nothing", "queued"}
    BY <1>0, <2>3 DEF WatchType, WatchPlaces
  <2>5. ~ Raised(j) => Frozen(j)
    BY <1>0, <2>1, ThroughIsFrozen
  <2> HIDE DEF m, j
  <2>6. /\ watch' \in [Watchers -> WatchType] /\ watch'[w] = m
        /\ \A v \in Watchers \ {w} : watch'[v] = watch[v]
    BY <1>0, <2>1, <2>4
  <2>7. ManagerInv'
    BY <1>0, <2>1, StepFollows
  <2>8. UNCHANGED <<job, task, child, dying>>
    BY <2>1 DEF vars
  <2>9. ASSUME NEW v \in Watchers PROVE Watching(v)'
    <3>1. CASE v = w
      <4>1. Watching(w)'
        BY <2>1, <2>2, <2>4, <2>5, <2>6, <2>8
           DEF Watching, Frozen, Completed, Takes, Raised, IsLive, IsStarting, Selected
      <4> QED
        BY <3>1, <4>1
    <3>2. CASE v # w
      BY <1>0, <2>6, <2>8, <3>2
         DEF Watching, Frozen, Completed, Raised, IsLive, IsStarting, Selected
    <3> QED
      BY <3>1, <3>2
  <2> QED
    BY <2>6, <2>7, <2>9 DEF WatchInv
<1> QED
  BY <1>2, <1>3, <1>4, <1>5, <1>6 DEF AutoNext, Poll

LEMMA WatchInvHolds == AutoSpec => []WatchInv
<1>1. AutoInit => WatchInv
  <2> SUFFICES ASSUME AutoInit PROVE WatchInv
    OBVIOUS
  <2>1. Inv /\ \A j \in JobIds : job[j] = None
    BY InitIsGood DEF AutoInit, Init
  <2>2. ManagerInv
    BY <2>1 DEF ManagerInv, Extra
  <2>3. watch \in [Watchers -> WatchType] /\ \A w \in Watchers : watch[w].pc = "none"
    BY DEF AutoInit, WatchType, WatchPlaces
  <2> QED
    BY <2>2, <2>3 DEF WatchInv, Watching
<1>2. WatchInv /\ [AutoNext]_watchVars => WatchInv'
  BY WatchStep
<1> QED
  BY <1>1, <1>2, PTL DEF AutoSpec

(* When the watcher stops polling because the job or its clips are through, *)
(* no clip of the job turns COMPLETED any more that it did not take, unless *)
(* the task of a clip had raised.                                           *)
THEOREM WatcherMissesNothingHolds == AutoSpec => []WatcherMissesNothing
<1>1. WatchInv => WatcherMissesNothing
  BY DEF WatchInv, Watching, WatcherMissesNothing, Known
<1> QED
  BY <1>1, WatchInvHolds, PTL

(* What a watcher hands over has its file, whatever was reused, cancelled   *)
(* or swept meanwhile, unless the cleanup script took it.                   *)
THEOREM QueuedHasItsFileHolds == AutoSpec => QueuedHasItsFile
<1>1. WatchInv /\ [AutoNext]_watchVars =>
        [\A w \in Watchers : watch'[w].pc = "queued" /\ watch[w].pc = "poll" =>
           \A c \in watch'[w].clips : <<watch[w].job, c>> \in outputs \/ watch[w].job \in lost]_watchVars
  <2> SUFFICES ASSUME WatchInv, AutoNext, NEW w \in Watchers,
                      watch'[w].pc = "queued", watch[w].pc = "poll", NEW c \in watch'[w].clips
               PROVE  <<watch[w].job, c>> \in outputs \/ watch[w].job \in lost
    OBVIOUS
  <2>1. watch \in [Watchers -> WatchType] /\ Inv
    BY DEF WatchInv, ManagerInv
  <2>2. watch'[w] # watch[w]
    OBVIOUS
  <2>3. ~ UNCHANGED watch
    BY <2>2
  <2>4. ASSUME NEW v \in Watchers, PollGone(v) \/ GivesUp(v) \/ \E k \in Keys : GenerateAndQueue(v, k)
        PROVE  FALSE
    <3>1. PICK m : watch' = [watch EXCEPT ![v] = m] /\ (v = w => m.pc # "queued")
      <4>1. CASE PollGone(v) \/ GivesUp(v)
        <5>1. PICK pc \in {"raised", "gave_up"} : watch' = [watch EXCEPT ![v].pc = pc]
          BY <4>1 DEF PollGone, GivesUp
        <5> DEFINE m == [watch[v] EXCEPT !.pc = pc]
        <5>2. m.pc # "queued"
          BY <2>1 DEF WatchType
        <5>3. watch' = [watch EXCEPT ![v] = m]
          BY <5>1
        <5> QED
          BY <5>2, <5>3
      <4>2. CASE \E k \in Keys : GenerateAndQueue(v, k)
        <5>1. PICK j : watch' = [watch EXCEPT ![v] = [pc |-> "poll", job |-> j, clips |-> {}]]
          BY <4>2 DEF GenerateAndQueue, Watches
        <5> QED
          BY <5>1
      <4> QED
        BY <2>4, <4>1, <4>2
    <3> QED
      BY <2>1, <2>2, <3>1
  <2>5. ~ Dies
    <3>1. Dies => watch'[w] = [watch[w] EXCEPT !.pc = "lost"]
      BY DEF Dies
    <3>2. watch[w] \in WatchType
      BY <2>1
    <3> QED
      BY <3>1, <3>2 DEF WatchType
  <2>6. PICK v \in Watchers : PollThrough(v)
    BY <2>3, <2>4, <2>5 DEF AutoNext, Poll
  <2>7. v = w
    BY <2>1, <2>2, <2>6 DEF PollThrough
  <2> DEFINE j == watch[w].job
             pc == IF Takes(j) = {} THEN "nothing" ELSE "queued"
             m == [watch[w] EXCEPT !.clips = Takes(j), !.pc = pc]
  <2>8. j \in JobIds /\ job[j] # None /\ watch' = [watch EXCEPT ![w] = m]
    BY <2>6, <2>7 DEF PollThrough, Known
  <2>9. m.clips = Takes(j)
    BY <2>1 DEF WatchType
  <2>10. watch'[w] = m
    <3> HIDE DEF m
    <3> QED
      BY <2>1, <2>8
  <2>11. c \in Selected(j) /\ job[j].clips[c] = "COMPLETED"
    BY <2>9, <2>10 DEF Takes, Completed
  <2> QED
    BY <2>1, <2>8, <2>11 DEF Inv, JobInv, OnDisk
<1> QED
  BY <1>1, WatchInvHolds, PTL DEF AutoSpec, QueuedHasItsFile
=============================================================================
