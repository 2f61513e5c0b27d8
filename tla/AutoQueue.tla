------------------------------ MODULE AutoQueue ------------------------------
(***************************************************************************)
(* "Generate + queue" (routes_publishing.py, auto_queue.py): a request     *)
(* makes or reuses a job and starts a watcher, a task that nobody awaits.  *)
(* It polls the job and, when the job or all its clips are through, hands  *)
(* the COMPLETED clips to create_queue_from_job.  The job manager does not *)
(* know of it, so every step of JobManager goes on beside it.              *)
(***************************************************************************)
EXTENDS JobManager

CONSTANT Watchers

ASSUME WatchersAssumption == IsFiniteSet(Watchers)

VARIABLE watch  \* of each watcher: where it is, its job, the clips it took

watchVars == <<vars, watch>>

AutoInit ==
  /\ Init
  /\ watch = [w \in Watchers |-> [pc |-> "none", job |-> None, clips |-> {}]]

-----------------------------------------------------------------------------
Watches(w, j) == watch' = [watch EXCEPT ![w] = [pc |-> "poll", job |-> j, clips |-> {}]]

(* generate_and_queue, with a platform at least.                            *)
GenerateAndQueue(w, k) ==
  /\ watch[w].pc = "none"
  /\ \/ ReuseJob(k) /\ Watches(w, index[k])
     \/ /\ CreateJob(k)
        /\ \E j \in JobIds : task[j] # task'[j] /\ Watches(w, j)

Resolved(j) == \A c \in Selected(j) : job[j].clips[c] \notin {"QUEUED", "PROCESSING"}
Completed(j) == {c \in Selected(j) : job[j].clips[c] = "COMPLETED"}

JobIsOver(j) == job[j].status \in {"COMPLETED", "FAILED", "CANCELLED"}

(* Mutant: one resolved clip is enough. *)
ThroughWithOne(j) ==
  JobIsOver(j) \/ \E c \in Selected(j) : job[j].clips[c] \notin {"QUEUED", "PROCESSING"}

(* The two breaks of the loop.                                              *)
Through(j) == JobIsOver(j) \/ (Resolved(j) /\ Selected(j) # {})

(* Mutant: a failed clip is taken too. *)
TakesResolved(j) == {c \in Selected(j) : job[j].clips[c] # "CANCELLED"}

Takes(j) == Completed(j)

(* The poll that ends the loop, and what follows without an await.          *)
PollThrough(w) ==
  LET j == watch[w].job IN
    /\ watch[w].pc = "poll" /\ j \in Known /\ Through(j)
    /\ watch' = [watch EXCEPT ![w].clips = Takes(j),
                   ![w].pc = IF Takes(j) = {} THEN "nothing" ELSE "queued"]
    /\ UNCHANGED vars

(* Mutant: a job that is gone is polled again. *)
PollGoneAgain(w) ==
  watch[w].pc = "poll" /\ watch[w].job \notin Known /\ UNCHANGED <<vars, watch>>

(* get_job raises NotFoundError, which nobody sees.                         *)
PollGone(w) ==
  /\ watch[w].pc = "poll" /\ watch[w].job \notin Known
  /\ watch' = [watch EXCEPT ![w].pc = "raised"]
  /\ UNCHANGED vars

(* _MAX_WAIT_SECONDS are over. *)
GivesUp(w) ==
  /\ watch[w].pc = "poll" /\ watch[w].job \in Known /\ ~ Through(watch[w].job)
  /\ watch' = [watch EXCEPT ![w].pc = "gave_up"]
  /\ UNCHANGED vars

(* The watchers end with the process. *)
Dies == watch' = [w \in Watchers |-> IF watch[w].pc = "poll" THEN [watch[w] EXCEPT !.pc = "lost"]
                                     ELSE watch[w]]

Poll(w) == PollThrough(w) \/ PollGone(w)

AutoNext ==
  \/ \E w \in Watchers : Poll(w) \/ GivesUp(w) \/ \E k \in Keys : GenerateAndQueue(w, k)
  \/ ManagerStep /\ UNCHANGED watch
  \/ Restart /\ Dies

AutoSpec == AutoInit /\ [][AutoNext]_watchVars

(* The event loop runs what is ready; ffprobe and ffmpeg have timeouts.     *)
AutoFairness ==
  /\ \A j \in JobIds : WF_watchVars(JobStep(j) /\ UNCHANGED watch)
  /\ \A j \in JobIds, c \in Clips : WF_watchVars(ClipStep(j, c) /\ UNCHANGED watch)
  /\ \A w \in Watchers : WF_watchVars(Poll(w))

FairAutoSpec == AutoSpec /\ AutoFairness

-----------------------------------------------------------------------------
(* Properties *)

(* What a watcher took when its job, or the clips of it, were through is    *)
(* all there is to take: no clip of the job turns COMPLETED afterwards,     *)
(* whatever was cancelled, unless the job was given up because the task of  *)
(* one of its clips raised (manager.py:185).                                *)
WatcherMissesNothing ==
  \A w \in Watchers :
    LET j == watch[w].job IN
      watch[w].pc \in {"queued", "nothing"} /\ j \in Known /\ ~ Raised(j) =>
        Completed(j) \subseteq watch[w].clips

(* A clip is handed over with its file, unless the cleanup script took it:  *)
(* a job that is reused, cancelled or swept meanwhile included.             *)
QueuedHasItsFile ==
  [][\A w \in Watchers : watch'[w].pc = "queued" /\ watch[w].pc = "poll" =>
       \A c \in watch'[w].clips : <<watch[w].job, c>> \in outputs \/ watch[w].job \in lost]_watchVars

(* Every job ends, all its clips with it, though an exception or a          *)
(* cancellation may hit any task that holds the slot or waits for it.       *)
EveryClipEnds ==
  \A j \in JobIds : j \in Active \/ Live(j) # {} ~> j \notin Active /\ Live(j) = {}

(* No watcher polls for ever: its job ends, is swept, or time is up.        *)
EveryWatcherEnds == \A w \in Watchers : watch[w].pc = "poll" ~> watch[w].pc # "poll"
=============================================================================
