------------------------------ MODULE Ingestion ------------------------------
(***************************************************************************)
(* How a source video gets into uploads/: the download of a URL or of a    *)
(* YouTube page as a background task (ingest_manager.py, remote_source.py),*)
(* the upload by the browser (routes_video.py), the storage quota and the  *)
(* retention sweep over uploads/ and over the records of finished          *)
(* downloads (paths.py, retention.py).                                     *)
(*                                                                         *)
(* Downloads share a semaphore.  Name lookups and yt-dlp run on threads of *)
(* asyncio's default executor; a thread cannot be stopped once it runs.    *)
(***************************************************************************)
EXTENDS Integers, FiniteSets, FiniteSetsExt, SequencesExt

CONSTANTS
  Ids,           \* transfers; each has a directory under uploads/ of its own
  Kinds,         \* a subset of {"direct", "youtube", "upload"}
  MaxDownloads,  \* MAX_CONCURRENT_DOWNLOADS
  Threads,       \* threads of the default executor
  MaxRedirects,  \* MAX_DOWNLOAD_REDIRECTS
  MaxUpload,     \* MAX_UPLOAD_SIZE_BYTES, in chunks
  YtMax,         \* what yt-dlp may write: its limit is per format, and it fetches two
  Quota,         \* MAX_TOTAL_STORAGE_BYTES, in chunks
  MaxRestarts    \* bound: restarts of the process

ASSUME IngestionAssumption ==
  /\ IsFiniteSet(Ids)
  /\ Kinds \subseteq {"direct", "youtube", "upload"}
  /\ {MaxDownloads, Threads, MaxUpload} \subseteq Nat \ {0}
  /\ {MaxRedirects, YtMax, Quota, MaxRestarts} \subseteq Nat
  /\ YtMax >= MaxUpload

VARIABLES
  kind,      \* what each transfer is, "none" before it starts
  task,      \* where its task waits
  status,    \* of its record, which the client polls; an upload has none
  aged,      \* records made an hour ago or more
  hop,       \* redirect answers a direct download has had
  refused,   \* downloads that failed with "Too many redirects"
  pending,   \* executor jobs that wait for a thread, in order
  running,   \* ids whose executor job has a thread
  file,      \* the file in the directory of each transfer
  stale,     \* directories not changed for RETENTION_HOURS
  told,      \* upload ids a client has been given
  swept,     \* directories the sweep has removed
  peak,      \* the most transfers that were ever under way at once
  restarts

taskVars == <<kind, task, status, aged, hop, refused>>
poolVars == <<pending, running>>
diskVars == <<file, stale, told, swept>>
vars == <<kind, task, status, aged, hop, refused, pending, running, file, stale, told,
          swept, peak, restarts>>

NoFile == [name |-> "none", size |-> 0, whole |-> FALSE]
NewFile(name) == [name |-> name, size |-> 0, whole |-> FALSE]

Init ==
  /\ kind = [i \in Ids |-> "none"] /\ task = [i \in Ids |-> "none"]
  /\ status = [i \in Ids |-> "none"]
  /\ aged = {} /\ hop = [i \in Ids |-> 0] /\ refused = {}
  /\ pending = <<>> /\ running = {}
  /\ file = [i \in Ids |-> NoFile]
  /\ stale = {} /\ told = {} /\ swept = {}
  /\ peak = 0 /\ restarts = 0

-----------------------------------------------------------------------------
Used == MapThenSumSet(LAMBDA i : file[i].size, Ids)

Busy == {i \in Ids : task[i] \notin {"none", "ended"}}
InSlot == {i \in Busy : kind[i] # "upload" /\ task[i] # "queued"}

(* Threads of yt-dlp that the task has given up on. *)
Orphans == {i \in running : kind[i] = "youtube" /\ task[i] # "fetch"}
UnderWay == Busy \cup Orphans

At(i, where) == task[i] = where
Goes(i, where) == task' = [task EXCEPT ![i] = where]

(* A directory changes when a file appears, goes or is renamed in it.       *)
Puts(i, f) == file' = [file EXCEPT ![i] = f] /\ stale' = stale \ {i}

(* Mutant: the size of what is coming is left out. *)
QuotaAllowsNow == Used <= Quota

(* check_storage_quota; nothing is reserved.                                *)
QuotaAllows == Used + MaxUpload <= Quota

Begin(i, k, where) ==
  /\ task[i] = "none" /\ k \in Kinds /\ QuotaAllows
  /\ kind' = [kind EXCEPT ![i] = k]
  /\ Goes(i, where)
  /\ peak' = Max({peak, Cardinality(UnderWay) + 1})

StartIngest(i, k) ==
  /\ k \in {"direct", "youtube"}
  /\ Begin(i, k, "queued")
  /\ status' = [status EXCEPT ![i] = "downloading"]
  /\ UNCHANGED <<aged, hop, refused, poolVars, diskVars, restarts>>

(* The body was received before the handler runs; the handler copies it.    *)
StartUpload(i) ==
  /\ Begin(i, "upload", "stream")
  /\ Puts(i, NewFile("source"))
  /\ UNCHANGED <<status, aged, hop, refused, poolVars, told, swept, restarts>>

(* A task writes to its IngestState whether or not the manager knows it     *)
(* still; an upload has none.                                               *)
Record(i, s) == status' = IF status[i] = "none" THEN status ELSE [status EXCEPT ![i] = s]

(* The error path of _run and of upload_video: unlink, then report.         *)
Fail(i) ==
  /\ Goes(i, "ended")
  /\ Record(i, "failed")
  /\ Puts(i, NoFile)
  /\ UNCHANGED <<kind, aged, told, swept, peak, restarts>>

-----------------------------------------------------------------------------
(* Downloads. *)
Submit(i) == pending' = Append(pending, i)

EnterSlot(i) ==
  /\ At(i, "queued")
  /\ Cardinality(InSlot) < MaxDownloads
  /\ Goes(i, IF kind[i] = "direct" THEN "resolve" ELSE "fetch")
  /\ Submit(i)
  /\ UNCHANGED <<kind, status, aged, hop, refused, running, diskVars, peak, restarts>>

ThreadTakes ==
  /\ pending # <<>> /\ Cardinality(running) < Threads
  /\ running' = running \cup {Head(pending)}
  /\ pending' = Tail(pending)
  /\ UNCHANGED <<taskVars, diskVars, peak, restarts>>

(* ensure_public_host. *)
HostIsPublic(i) ==
  /\ At(i, "resolve") /\ i \in running
  /\ running' = running \ {i}
  /\ Goes(i, "respond")
  /\ UNCHANGED <<kind, status, aged, hop, refused, pending, diskVars, peak, restarts>>

HostIsRefused(i) ==
  /\ At(i, "resolve") /\ i \in running
  /\ running' = running \ {i}
  /\ Fail(i)
  /\ UNCHANGED <<hop, refused, pending>>

(* Mutant: range(MAX_DOWNLOAD_REDIRECTS). *)
AnotherHopEarly(n) == n < MaxRedirects

(* The n-th iteration, from 0, of range(MAX_DOWNLOAD_REDIRECTS + 1) exists. *)
AnotherHop(n) == n < MaxRedirects + 1

(* A redirect with a Location: another iteration, or the else of the loop.  *)
Redirected(i) ==
  /\ At(i, "respond")
  /\ hop' = [hop EXCEPT ![i] = @ + 1]
  /\ IF AnotherHop(hop'[i])
       THEN /\ Goes(i, "resolve") /\ Submit(i)
            /\ UNCHANGED <<kind, status, aged, refused, diskVars, peak, restarts>>
       ELSE /\ Fail(i)
            /\ refused' = refused \cup {i}
            /\ UNCHANGED pending
  /\ UNCHANGED running

Responds(i) ==
  /\ At(i, "respond")
  /\ Goes(i, "stream")
  /\ Puts(i, NewFile("source.download"))
  /\ UNCHANGED <<kind, status, aged, hop, refused, poolVars, told, swept, peak, restarts>>

(* A chunk is written; the file has no name any more if its directory was   *)
(* swept.  A chunk past the limit is one of the failures below.             *)
Chunk(i) ==
  /\ At(i, "stream") /\ file[i].name # "none"
  /\ file[i].size < MaxUpload
  /\ file' = [file EXCEPT ![i].size = @ + 1]
  /\ UNCHANGED <<taskVars, poolVars, stale, told, swept, peak, restarts>>

StreamEnds(i) ==
  /\ At(i, "stream") /\ file[i].size > 0
  /\ Goes(i, "probe")
  /\ Puts(i, [file[i] EXCEPT !.name = "source", !.whole = TRUE])
  /\ UNCHANGED <<kind, status, aged, hop, refused, poolVars, told, swept, peak, restarts>>

(* A bad answer, a timeout, too large, empty, a failing write, not a video. *)
TransferFails(i) ==
  /\ task[i] \in {"respond", "stream", "probe"}
  /\ Fail(i)
  /\ UNCHANGED <<hop, refused, poolVars>>

(* An exception that is no AppError passes the handlers of upload_video.    *)
UploadBreaks(i) ==
  /\ kind[i] = "upload" /\ task[i] \in {"stream", "probe"}
  /\ Goes(i, "ended")
  /\ UNCHANGED <<kind, status, aged, hop, refused, poolVars, diskVars, peak, restarts>>

ProbeDone(i) ==
  /\ At(i, "probe") /\ file[i].name = "source"
  /\ Goes(i, "ended")
  /\ Record(i, "completed")
  /\ told' = told \cup {i}
  /\ UNCHANGED <<kind, aged, hop, refused, poolVars, file, stale, swept, peak, restarts>>

-----------------------------------------------------------------------------
(* yt-dlp, on its thread, whether or not anybody still waits for it.        *)
YtWrites(i) ==
  /\ i \in running /\ kind[i] = "youtube"
  /\ file[i].size < YtMax
  /\ Puts(i, [name |-> "source", size |-> file[i].size + 1, whole |-> FALSE])
  /\ UNCHANGED <<taskVars, poolVars, told, swept, peak, restarts>>

YtFinishes(i) ==
  /\ i \in running /\ kind[i] = "youtube" /\ file[i].size > 0
  /\ running' = running \ {i}
  /\ Puts(i, [file[i] EXCEPT !.whole = TRUE])
  /\ IF At(i, "fetch") THEN Goes(i, "probe") ELSE UNCHANGED task
  /\ UNCHANGED <<kind, status, aged, hop, refused, pending, told, swept, peak, restarts>>

(* An error of yt-dlp, or no file because the video was too large.          *)
YtFails(i) ==
  /\ i \in running /\ kind[i] = "youtube"
  /\ running' = running \ {i}
  /\ IF At(i, "fetch")
       THEN Fail(i) /\ UNCHANGED <<hop, refused>>
       ELSE UNCHANGED <<taskVars, diskVars, peak, restarts>>
  /\ UNCHANGED pending

(* Mutant: the timeout is taken for the end of the download. *)
FetchTimesOutAsDone(i) ==
  /\ At(i, "fetch") /\ file[i].size > 0
  /\ Goes(i, "probe")
  /\ UNCHANGED <<kind, status, aged, hop, refused, poolVars, diskVars, peak, restarts>>

(* Mutant: a job that waits for a thread is not dropped. *)
FetchTimesOutQueued(i) ==
  /\ At(i, "fetch")
  /\ Fail(i)
  /\ UNCHANGED <<hop, refused, poolVars>>

(* wait_for cancels the job of the executor: one without a thread is        *)
(* dropped, one with a thread runs on.                                      *)
FetchTimesOut(i) ==
  /\ At(i, "fetch")
  /\ Fail(i)
  /\ IF \E n \in DOMAIN pending : pending[n] = i
       THEN \E n \in DOMAIN pending : pending[n] = i /\ pending' = RemoveAt(pending, n)
       ELSE UNCHANGED pending
  /\ UNCHANGED <<hop, refused, running>>

-----------------------------------------------------------------------------
(* Retention. *)
DirAges(i) ==
  /\ file[i].name # "none" /\ i \notin stale
  /\ stale' = stale \cup {i}
  /\ UNCHANGED <<taskVars, poolVars, file, told, swept, peak, restarts>>

RecordAges(i) ==
  /\ status[i] # "none" /\ i \notin aged
  /\ aged' = aged \cup {i}
  /\ UNCHANGED <<kind, task, status, hop, refused, poolVars, diskVars, peak, restarts>>

(* Mutant: the age alone decides. *)
PurgeableByAge == {i \in aged : status[i] # "none"}

(* purge_old: by the age of the record, which began with the download.      *)
Purgeable == {i \in aged : status[i] \in {"completed", "failed"}}

(* Mutant: only directories that belong to an upload are looked at. *)
RemovableIfKnown == stale \cap told

(* _cleanup_old_dirs goes by the age of the directory; no upload is         *)
(* protected.                                                               *)
Removable == stale

(* run_once over uploads/ and the records.                                  *)
Sweep ==
  /\ Removable \cup Purgeable # {}
  /\ file' = [i \in Ids |-> IF i \in Removable THEN NoFile ELSE file[i]]
  /\ stale' = stale \ Removable /\ swept' = swept \cup Removable
  /\ status' = [i \in Ids |-> IF i \in Purgeable THEN "none" ELSE status[i]]
  /\ UNCHANGED <<kind, task, aged, hop, refused, poolVars, told, peak, restarts>>

Restart ==
  /\ restarts < MaxRestarts
  /\ restarts' = restarts + 1
  /\ task' = [i \in Ids |-> IF i \in Busy THEN "ended" ELSE task[i]]
  /\ status' = [i \in Ids |-> "none"]
  /\ pending' = <<>> /\ running' = {}
  /\ UNCHANGED <<kind, aged, hop, refused, diskVars, peak>>

-----------------------------------------------------------------------------
TaskStep(i) ==
  \/ EnterSlot(i) \/ HostIsPublic(i) \/ HostIsRefused(i)
  \/ Redirected(i) \/ Responds(i) \/ Chunk(i) \/ StreamEnds(i)
  \/ TransferFails(i) \/ UploadBreaks(i) \/ ProbeDone(i)
  \/ FetchTimesOut(i)

YtEnds(i) == YtFinishes(i) \/ YtFails(i)

Next ==
  \/ \E i \in Ids : \/ \E k \in Kinds : StartIngest(i, k)
                    \/ StartUpload(i)
                    \/ TaskStep(i) \/ YtWrites(i) \/ YtEnds(i)
                    \/ DirAges(i) \/ RecordAges(i)
  \/ ThreadTakes \/ Sweep \/ Restart

Spec == Init /\ [][Next]_vars

(* Servers answer or the read times out, the size limit ends a stream, the  *)
(* threads of getaddrinfo and yt-dlp return, and time passes.               *)
Fairness ==
  /\ WF_vars(ThreadTakes) /\ WF_vars(Sweep)
  /\ \A i \in Ids : WF_vars(TaskStep(i)) /\ WF_vars(YtEnds(i)) /\ WF_vars(DirAges(i))

FairSpec == Spec /\ Fairness

-----------------------------------------------------------------------------
(* Properties *)

(* The values the variables take, and where an executor job can come from.  *)
TypeOK ==
  /\ kind \in [Ids -> Kinds \cup {"none"}]
  /\ task \in [Ids -> {"none", "queued", "resolve", "respond", "stream", "fetch",
                       "probe", "ended"}]
  /\ status \in [Ids -> {"none", "downloading", "completed", "failed"}]
  /\ hop \in [Ids -> 0 .. MaxRedirects + 1]
  /\ file \in [Ids -> [name : {"none", "source.download", "source"},
                       size : 0 .. YtMax, whole : BOOLEAN]]
  /\ \A n \in DOMAIN pending : task[pending[n]] \in {"resolve", "fetch"}
  /\ running \subseteq {i \in Ids : kind[i] = "youtube" \/ At(i, "resolve")}
  /\ running \cap {pending[n] : n \in DOMAIN pending} = {}
  /\ aged \cup refused \cup stale \cup told \cup swept \subseteq Ids

(* source.py:27-29: no path is handed out before the file is complete.  An  *)
(* upload id that a client has been given names a whole file for as long as *)
(* the sweep has not removed it: not a file that a timed-out yt-dlp thread  *)
(* is writing, nor the rest of one whose directory was swept meanwhile.     *)
ToldIsWhole ==
  \A i \in told \ swept : file[i].name = "source" /\ file[i].whole /\ i \notin running

(* A download that goes on has followed MAX_DOWNLOAD_REDIRECTS redirects at *)
(* most, and one that is refused for its redirects was sent one more.       *)
RedirectLimitIsExact ==
  /\ \A i \in refused : hop[i] > MaxRedirects
  /\ \A i \in Ids \ refused : hop[i] <= MaxRedirects

(* The quota is checked and not reserved (paths.py:55-61), so transfers     *)
(* that overlap exceed it together: n at a time, threads of abandoned       *)
(* downloads included, by n - 1 files, and each by what yt-dlp may write    *)
(* past the limit of one file.  They never do by more, however many pass    *)
(* one after the other.                                                     *)
OvershootIsBounded == Used <= Quota - MaxUpload + Max({1, peak}) * YtMax

(* Every download ends: the slot comes free after every kind of failure,    *)
(* threads of abandoned downloads only delay the lookups that queue behind  *)
(* them, and the record is there until it has ended (ingest_manager.py:     *)
(* 126-129).                                                                *)
EveryIngestEnds ==
  \A i \in Ids : status[i] = "downloading" ~> status[i] \in {"completed", "failed"} \/ restarts > 0

(* What nobody can name is removed in the end: parts of uploads that broke, *)
(* of downloads a restart cut off, and files of abandoned threads.          *)
LeftoversGo ==
  \A i \in Ids : file[i].name # "none" /\ i \notin told \cup UnderWay ~> file[i].name = "none"
=============================================================================
