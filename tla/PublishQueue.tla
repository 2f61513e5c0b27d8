---------------------------- MODULE PublishQueue ----------------------------
(***************************************************************************)
(* The publishing queue of the application: the rows of publish_queue, the *)
(* worker loops that claim and publish them (publishing/worker.py) and the *)
(* API handlers that change them (publishing/queue_manager.py).            *)
(*                                                                         *)
(* Every `await` on the database is a point where another coroutine, or    *)
(* another process, can run.  SQLite starts a write transaction at the     *)
(* first UPDATE, so a handler that loads a row and assigns to it is two    *)
(* steps, and SQLAlchemy's flush writes only the columns whose new value   *)
(* differs from the loaded one.  A bulk UPDATE is one step.                *)
(***************************************************************************)
EXTENDS Integers, FiniteSets

CONSTANTS
  Items,        \* the rows, each named by its idempotency key [job, clip, platform]
  Workers,      \* one publishing_worker_loop per running process
  Clients,      \* API requests that can be in progress at once
  Ops,          \* the queue operations the clients use
  None,         \* no value
  MaxAttempts,  \* MAX_PUBLISH_ATTEMPTS
  ClaimLimit,   \* LIMIT of the claim query (5 in the code)
  MaxRequests,  \* bound: API requests in a behaviour
  MaxUnknown,   \* bound: per item, posts that land although the call reports an error
  MaxQuota,     \* bound: quota errors in a behaviour
  MaxCrashes,   \* bound: worker crashes in a behaviour
  MaxDbErrors   \* bound: database errors in a behaviour

AllOps == {"retry", "skip", "cancel", "publish_now", "pause", "resume"}

QueueStatus ==
  {"WAITING", "PUBLISHING", "PUBLISHED", "FAILED", "RETRYING", "PAUSED",
   "CANCELLED", "NOT_SUPPORTED", "AUTH_REQUIRED", "QUOTA_WAIT"}

DueStatuses == {"WAITING", "RETRYING", "QUOTA_WAIT"}

(* Statuses from which a row reaches a worker without anybody reopening it. *)
Claimable == DueStatuses \cup {"PAUSED"}

ErrorClass == {"TRANSIENT", "AUTH", "QUOTA", "UNSUPPORTED", "PERMANENT"}

(* What _publish_one ends with: the provider's answer, or an early return. *)
ProviderResult == ErrorClass \cup {"SUCCESS"}
Result == ProviderResult \cup
            {"ALREADY_PUBLISHED", "INVALID_MEDIA", "NO_ACCOUNT", "INTERNAL"}

(* scheduled is scheduled_at compared with the clock: "past" once it has come. *)
Row == [status           : QueueStatus,
        attempt_count    : Nat,
        scheduled        : {"past", "future"},
        external_post_id : Nat]          \* 0: none, n: the n-th post of the item

ASSUME ConstantsAssumption ==
  /\ Ops \subseteq AllOps
  /\ MaxAttempts \in Nat \ {0}
  /\ ClaimLimit \in Nat \ {0}
  /\ IsFiniteSet(Workers)
  /\ {MaxRequests, MaxUnknown, MaxQuota, MaxCrashes, MaxDbErrors} \subseteq Nat
  /\ None \notin Items \cup Row \cup Result \cup AllOps

VARIABLES
  row,       \* the table publish_queue
  attempts,  \* the table publishing_attempts: the outcomes recorded for each item
  worker,    \* the local variables of each worker
  request,   \* the local variables of each API handler
  posts,     \* posts of the item that exist on the platform
  reopened,  \* how often a request reopened an item that was posted or in a worker's hands
  unknown,   \* posts that landed although the provider call reported an error
  stranded,  \* items whose worker died, or could not write, while it held them
  spent      \* how much of each bound has been used

vars == <<row, attempts, worker, request, posts, reopened, unknown, stranded, spent>>
table == <<row, attempts>>
ghosts == <<posts, reopened, unknown, stranded>>

Nothing == [i \in Items |-> None]

IdleWorker == [pc |-> "idle", seen |-> Nothing, item |-> None, attempt |-> 0,
               result |-> None, post_id |-> 0, loaded |-> None]
IdleRequest == [op |-> None, loaded |-> Nothing]

Init ==
  /\ row \in [Items -> [status : {"WAITING"}, attempt_count : {0},
                        scheduled : {"past", "future"}, external_post_id : {0}]]
  /\ attempts = [i \in Items |-> {}]
  /\ worker = [w \in Workers |-> IdleWorker]
  /\ request = [c \in Clients |-> IdleRequest]
  /\ posts = [i \in Items |-> 0]
  /\ reopened = [i \in Items |-> 0]
  /\ unknown = [i \in Items |-> 0]
  /\ stranded = {}
  /\ spent = [requests |-> 0, quota |-> 0, crashes |-> 0, db |-> 0]

-----------------------------------------------------------------------------
(* The ORM flush: what a commit leaves in a row now holding cur, when the   *)
(* handler loaded ld and assigned new.  scheduled = "keep" means that the   *)
(* handler does not touch scheduled_at; a fresh timestamp always differs    *)
(* from the loaded one and is always written.                               *)
Flush(cur, ld, new) ==
  [status           |-> IF new.status = ld.status THEN cur.status ELSE new.status,
   attempt_count    |-> IF new.attempt_count = ld.attempt_count
                          THEN cur.attempt_count ELSE new.attempt_count,
   scheduled        |-> IF new.scheduled = "keep" THEN cur.scheduled ELSE new.scheduled,
   external_post_id |-> IF new.external_post_id = ld.external_post_id
                          THEN cur.external_post_id ELSE new.external_post_id]

(* Mutant: only WAITING and RETRYING are selected.                          *)
IsDueButQuota(i) ==
  row[i].status \in {"WAITING", "RETRYING"} /\ row[i].scheduled = "past"

IsDue(i) == row[i].status \in DueStatuses /\ row[i].scheduled = "past"

Holding(w, i) == worker[w].item = i

(* A worker that holds the item and may still post it. *)
PrePost == {"check", "validate", "publish"}

(* Writing WAITING over this row gives it a second life: it was posted, or a *)
(* worker has it.                                                            *)
Reopens(i) == /\ row[i].status \notin Claimable
              /\ posts[i] > 0 \/ \E w \in Workers : Holding(w, i)

-----------------------------------------------------------------------------
(* The worker: _claim_due_item. *)

SelectDue(w) ==
  /\ worker[w].pc = "idle"
  /\ \E S \in SUBSET {i \in Items : IsDue(i)} :
       /\ S # {}
       /\ \/ Cardinality(S) = ClaimLimit
          \/ Cardinality(S) < ClaimLimit /\ S = {i \in Items : IsDue(i)}
       /\ worker' = [worker EXCEPT
            ![w].pc = "claim",
            ![w].seen = [i \in Items |-> IF i \in S THEN row[i] ELSE None]]
  /\ UNCHANGED <<table, request, ghosts, spent>>

(* Nothing is due: the loop sleeps until the next poll. *)
SleepUntilPoll(w) ==
  /\ worker[w].pc = "idle"
  /\ \A i \in Items : ~ IsDue(i)
  /\ UNCHANGED vars

(* Mutant: the claim checks the id only.                                    *)
ClaimMatchesAnyStatus(w, i) == worker[w].seen[i] # None

(* The WHERE of the claim: id = candidate.id and status = candidate.status. *)
ClaimMatches(w, i) ==
  worker[w].seen[i] # None /\ row[i].status = worker[w].seen[i].status

(* The worker goes on with the candidate it selected, its attempt_count     *)
(* included, not with the row it claimed.                                   *)
ClaimCandidate(w) ==
  /\ worker[w].pc = "claim"
  /\ \E i \in Items :
       /\ ClaimMatches(w, i)
       /\ row' = [row EXCEPT ![i].status = "PUBLISHING"]
       /\ worker' = [worker EXCEPT
            ![w].pc = "check",
            ![w].item = i,
            ![w].attempt = worker[w].seen[i].attempt_count + 1,
            ![w].seen = Nothing]
  /\ UNCHANGED <<attempts, request, ghosts, spent>>

ClaimNothing(w) ==
  /\ worker[w].pc = "claim"
  /\ \A i \in Items : ~ ClaimMatches(w, i)
  /\ worker' = [worker EXCEPT ![w] = IdleWorker]
  /\ UNCHANGED <<table, request, ghosts, spent>>

(* The worker: _publish_one. *)

AlreadyPublished(w) == row[worker[w].item].status = "PUBLISHED"

(* Mutant: the early return after the idempotency skip is missing.          *)
CheckPublishedNoReturn(w) ==
  /\ worker[w].pc = "check"
  /\ worker' = [worker EXCEPT
       ![w].pc = "validate",
       ![w].result = IF AlreadyPublished(w) THEN "ALREADY_PUBLISHED" ELSE None]
  /\ UNCHANGED <<table, request, ghosts, spent>>

CheckPublished(w) ==
  /\ worker[w].pc = "check"
  /\ worker' = [worker EXCEPT
       ![w].pc = IF AlreadyPublished(w) THEN "load" ELSE "validate",
       ![w].result = IF AlreadyPublished(w) THEN "ALREADY_PUBLISHED" ELSE None]
  /\ UNCHANGED <<table, request, ghosts, spent>>

(* _pre_publish_validate and _get_connected_account. *)
Preflight(w) ==
  /\ worker[w].pc = "validate"
  /\ \/ worker' = [worker EXCEPT ![w].pc = "publish"]
     \/ \E r \in {"INVALID_MEDIA", "NO_ACCOUNT"} :
          worker' = [worker EXCEPT ![w].pc = "load", ![w].result = r]
  /\ UNCHANGED <<table, request, ghosts, spent>>

(* The provider posts and says so. *)
PublishSucceeds(w) ==
  /\ worker[w].pc = "publish"
  /\ LET i == worker[w].item IN
       /\ posts' = [posts EXCEPT ![i] = @ + 1]
       /\ worker' = [worker EXCEPT ![w].pc = "record", ![w].result = "SUCCESS",
                                   ![w].post_id = posts[i] + 1]
  /\ UNCHANGED <<table, request, reopened, unknown, stranded, spent>>

(* The provider raises, and nothing was posted. *)
PublishFails(w) ==
  /\ worker[w].pc = "publish"
  /\ \E e \in ErrorClass :
       /\ e = "QUOTA" => spent.quota < MaxQuota
       /\ spent' = [spent EXCEPT !.quota = IF e = "QUOTA" THEN @ + 1 ELSE @]
       /\ worker' = [worker EXCEPT ![w].pc = "record", ![w].result = e]
  /\ UNCHANGED <<table, request, ghosts>>

(* The post lands, but the call ends with an error: a timeout on the answer *)
(* (TRANSIENT) or an answer without an id (PERMANENT).                      *)
PublishUnacknowledged(w) ==
  /\ worker[w].pc = "publish"
  /\ LET i == worker[w].item IN
       /\ unknown[i] < MaxUnknown
       /\ unknown' = [unknown EXCEPT ![i] = @ + 1]
       /\ posts' = [posts EXCEPT ![i] = @ + 1]
  /\ \E e \in {"TRANSIENT", "PERMANENT"} :
       worker' = [worker EXCEPT ![w].pc = "record", ![w].result = e]
  /\ UNCHANGED <<table, request, reopened, stranded, spent>>

RecordAttempt(w) ==
  /\ worker[w].pc = "record"
  /\ attempts' = [attempts EXCEPT ![worker[w].item] =
       @ \cup {IF worker[w].result = "SUCCESS" THEN "SUCCESS" ELSE "FAILED"}]
  /\ worker' = [worker EXCEPT ![w].pc = "load"]
  /\ UNCHANGED <<row, request, ghosts, spent>>

LoadItem(w) ==
  /\ worker[w].pc = "load"
  /\ worker' = [worker EXCEPT ![w].pc = "commit", ![w].loaded = row[worker[w].item]]
  /\ UNCHANGED <<table, request, ghosts, spent>>

(* Mutant: one attempt too many.                                             *)
AttemptsLeftOffByOne(n) == n <= MaxAttempts
AttemptsLeft(n) == n < MaxAttempts

(* The status an outcome leads to at attempt n: _handle_failure, _set_status *)
(* and the success path.                                                     *)
StatusAfter(result, n) ==
  CASE result = "SUCCESS"                           -> "PUBLISHED"
    [] result \in {"AUTH", "NO_ACCOUNT"}            -> "AUTH_REQUIRED"
    [] result = "UNSUPPORTED"                       -> "NOT_SUPPORTED"
    [] result = "QUOTA"                             -> "QUOTA_WAIT"
    [] result = "TRANSIENT" /\ AttemptsLeft(n)      -> "RETRYING"
    [] result = "ALREADY_PUBLISHED"                 -> "CANCELLED"
    [] OTHER                                        -> "FAILED"

(* Mutant: the failed attempt is not counted.                                *)
CountNotStored(me) == me.loaded.attempt_count
CountToStore(me) ==
  IF me.result \in ProviderResult THEN me.attempt ELSE me.loaded.attempt_count

(* Mutant: the id of the post is dropped.                                    *)
PostIdNotStored(me) == me.loaded.external_post_id
PostIdToStore(me) ==
  IF me.result = "SUCCESS" THEN me.post_id ELSE me.loaded.external_post_id

(* What the worker assigns to the row it loaded; only a provider result     *)
(* touches attempt_count, and only a postponement touches scheduled_at.     *)
Outcome(me) ==
  LET status == StatusAfter(me.result, me.attempt)
  IN  [status           |-> status,
       attempt_count    |-> CountToStore(me),
       scheduled        |-> IF status \in {"RETRYING", "QUOTA_WAIT"}
                              THEN "future" ELSE "keep",
       external_post_id |-> PostIdToStore(me)]

CommitItem(w) ==
  /\ worker[w].pc = "commit"
  /\ row' = [row EXCEPT ![worker[w].item] = Flush(@, worker[w].loaded, Outcome(worker[w]))]
  /\ worker' = [worker EXCEPT ![w] = IdleWorker]
  /\ UNCHANGED <<attempts, request, ghosts, spent>>

(* Mutant: an error in _publish_one is logged and the item left as it is.   *)
WorkerDbErrorIgnored(w) ==
  /\ worker[w].pc \in {"claim", "check", "validate", "record", "load", "commit"}
  /\ spent.db < MaxDbErrors
  /\ spent' = [spent EXCEPT !.db = @ + 1]
  /\ worker' = [worker EXCEPT ![w] = IdleWorker]
  /\ UNCHANGED <<table, request, ghosts>>

(* A database call of the worker raises (SQLite: database is locked).  In    *)
(* _publish_one the item is then set to FAILED; in _claim_due_item, and in   *)
(* that last _set_status itself, the error ends the cycle.                   *)
WorkerDbError(w) ==
  /\ worker[w].pc \in {"claim", "check", "validate", "record", "load", "commit"}
  /\ spent.db < MaxDbErrors
  /\ spent' = [spent EXCEPT !.db = @ + 1]
  /\ \/ /\ worker[w].pc # "claim" /\ worker[w].result # "INTERNAL"
        /\ worker' = [worker EXCEPT ![w].pc = "load", ![w].result = "INTERNAL",
                                    ![w].loaded = None]
        /\ UNCHANGED stranded
     \/ /\ worker[w].pc = "claim"
        /\ worker' = [worker EXCEPT ![w] = IdleWorker]
        /\ UNCHANGED stranded
     \/ /\ worker[w].result = "INTERNAL"
        /\ worker' = [worker EXCEPT ![w] = IdleWorker]
        /\ stranded' = stranded \cup {worker[w].item}
  /\ UNCHANGED <<table, request, posts, reopened, unknown>>

(* The process dies, or its worker task is cancelled at shutdown, and comes  *)
(* back with nothing in memory.                                              *)
WorkerCrash(w) ==
  /\ worker[w].pc # "idle"
  /\ spent.crashes < MaxCrashes
  /\ spent' = [spent EXCEPT !.crashes = @ + 1]
  /\ worker' = [worker EXCEPT ![w] = IdleWorker]
  /\ stranded' = stranded \cup ({worker[w].item} \ {None})
  /\ UNCHANGED <<table, request, posts, reopened, unknown>>

-----------------------------------------------------------------------------
(* The API handlers. *)

(* The early returns of retry_item, skip_item, cancel_item and publish_now. *)
Accepts(op, status) ==
  CASE op = "retry"       -> status # "PUBLISHED"
    [] op = "publish_now" -> status \in Claimable
    [] op \in {"skip", "cancel"} -> TRUE
    [] OTHER -> FALSE

StartRequest(c) ==
  /\ request[c].op = None
  /\ spent.requests < MaxRequests
  /\ spent' = [spent EXCEPT !.requests = @ + 1]

LoadForRequest(c) ==
  /\ StartRequest(c)
  /\ \E op \in Ops, i \in Items :
       /\ Accepts(op, row[i].status)
       /\ request' = [request EXCEPT ![c] =
            [op |-> op, loaded |-> [Nothing EXCEPT ![i] = row[i]]]]
  /\ UNCHANGED <<table, worker, ghosts>>

PausedOf(job) == {i \in Items : i.job = job /\ row[i].status = "PAUSED"}

LoadForResume(c) ==
  /\ StartRequest(c)
  /\ "resume" \in Ops
  /\ \E job \in {i.job : i \in Items} :
       /\ PausedOf(job) # {}
       /\ request' = [request EXCEPT ![c] =
            [op |-> "resume",
             loaded |-> [i \in Items |-> IF i \in PausedOf(job) THEN row[i] ELSE None]]]
  /\ UNCHANGED <<table, worker, ghosts>>

(* What a handler assigns to a row it loaded.  resume_job_queue gives the   *)
(* first of the clips it resumes the present moment, the others later slots.*)
Requested(op, ld, isFirst) ==
  [ld EXCEPT
     !.status = IF op \in {"skip", "cancel"} THEN "CANCELLED" ELSE "WAITING",
     !.attempt_count = IF op = "retry" THEN 0 ELSE @,
     !.scheduled = CASE op \in {"skip", "cancel"} -> "keep"
                     [] op = "resume" /\ ~ isFirst -> "future"
                     [] OTHER -> "past"]

(* The items that ORDER BY scheduled_at may put first. *)
Earliest(loaded, S) ==
  {i \in S : loaded[i].scheduled = "past" \/ \A j \in S : loaded[j].scheduled = "future"}

CommitRequest(c) ==
  LET op == request[c].op
      touched == {i \in Items : request[c].loaded[i] # None}
  IN  /\ op # None
      /\ \E first \in Earliest(request[c].loaded, touched) :
           row' = [i \in Items |->
             IF i \in touched
               THEN LET ld == request[c].loaded[i]
                    IN  Flush(row[i], ld, Requested(op, ld, i.clip = first.clip))
               ELSE row[i]]
      /\ reopened' = [i \in Items |->
           IF row'[i].status = "WAITING" /\ Reopens(i)
             THEN reopened[i] + 1 ELSE reopened[i]]
      /\ request' = [request EXCEPT ![c] = IdleRequest]
      /\ UNCHANGED <<attempts, worker, posts, unknown, stranded, spent>>

(* A database error, or the end of the process: the session is rolled back. *)
AbortRequest(c) ==
  /\ request[c].op # None
  /\ spent.db < MaxDbErrors
  /\ spent' = [spent EXCEPT !.db = @ + 1]
  /\ request' = [request EXCEPT ![c] = IdleRequest]
  /\ UNCHANGED <<table, worker, ghosts>>

(* pause_job_queue is one bulk UPDATE. *)
PauseJob(c) ==
  /\ StartRequest(c)
  /\ "pause" \in Ops
  /\ \E job \in {i.job : i \in Items} :
       row' = [i \in Items |->
         IF i.job = job /\ row[i].status \in DueStatuses
           THEN [row[i] EXCEPT !.status = "PAUSED"] ELSE row[i]]
  /\ UNCHANGED <<attempts, worker, request, ghosts>>

(* The clock reaches scheduled_at. *)
TimePasses(i) ==
  /\ row[i].scheduled = "future"
  /\ row' = [row EXCEPT ![i].scheduled = "past"]
  /\ UNCHANGED <<attempts, worker, request, ghosts, spent>>

-----------------------------------------------------------------------------
WorkerStep(w) ==
  \/ SelectDue(w) \/ SleepUntilPoll(w) \/ ClaimCandidate(w) \/ ClaimNothing(w)
  \/ CheckPublished(w) \/ Preflight(w)
  \/ PublishSucceeds(w) \/ PublishFails(w) \/ PublishUnacknowledged(w)
  \/ RecordAttempt(w) \/ LoadItem(w) \/ CommitItem(w)

WorkerFault(w) == WorkerDbError(w) \/ WorkerCrash(w)

RequestStep(c) ==
  \/ LoadForRequest(c) \/ LoadForResume(c) \/ CommitRequest(c)
  \/ AbortRequest(c) \/ PauseJob(c)

Next ==
  \/ \E w \in Workers : WorkerStep(w) \/ WorkerFault(w)
  \/ \E c \in Clients : RequestStep(c)
  \/ \E i \in Items : TimePasses(i)

Spec == Init /\ [][Next]_vars

(* The event loop runs every ready coroutine, a provider call ends (each    *)
(* client has a timeout), and time passes.  Nothing makes a user act.       *)
Fairness ==
  /\ \A w \in Workers : WF_vars(WorkerStep(w))
  /\ \A c \in Clients : WF_vars(CommitRequest(c))
  /\ \A i \in Items : WF_vars(TimePasses(i))

FairSpec == Spec /\ Fairness

-----------------------------------------------------------------------------
(* Properties *)

WorkerState ==
  [pc      : {"idle", "claim", "check", "validate", "publish", "record", "load", "commit"},
   seen    : [Items -> Row \cup {None}],
   item    : Items \cup {None},
   attempt : Nat,
   result  : Result \cup {None},
   post_id : Nat,
   loaded  : Row \cup {None}]

RequestState == [op : AllOps \cup {None}, loaded : [Items -> Row \cup {None}]]

(* What a worker knows at each point of its code. *)
Consistent(me) ==
  /\ me.item = None <=> me.pc \in {"idle", "claim"}
  /\ me.result = None <=> me.pc \in {"idle", "claim"} \cup PrePost
  /\ me.pc = "commit" => me.loaded # None

(* The values the variables take, and what each worker knows where.         *)
TypeOK ==
  /\ row \in [Items -> Row]
  /\ attempts \in [Items -> SUBSET {"SUCCESS", "FAILED"}]
  /\ worker \in [Workers -> WorkerState]
  /\ request \in [Clients -> RequestState]
  /\ posts \in [Items -> Nat]
  /\ reopened \in [Items -> Nat]
  /\ unknown \in [Items -> Nat]
  /\ stranded \subseteq Items
  /\ spent \in [requests : Nat, quota : Nat, crashes : Nat, db : Nat]
  /\ \A w \in Workers : Consistent(worker[w])

(* What a row that says PUBLISHED stands for: a recorded success and a post  *)
(* of this very item (worker.py _publish_one writes the row last).           *)
PublishedWasPosted ==
  \A i \in Items : row[i].status = "PUBLISHED" =>
    /\ "SUCCESS" \in attempts[i]
    /\ row[i].external_post_id \in 1 .. posts[i]

(* No row is left in PUBLISHING, a status nothing selects, while the worker  *)
(* that claimed it goes on to other work: whatever requests and other        *)
(* workers write meanwhile, somebody holds it, except when its worker died   *)
(* or could not write the outcome.                                           *)
InFlightIsHeld ==
  \A i \in Items \ stranded : row[i].status = "PUBLISHING" =>
    \E w \in Workers : Holding(w, i)

(* An item is posted once, and once more at most for every time a request    *)
(* reopened it while it was posted or in a worker's hands and for every post *)
(* whose call reported an error; and no post is made without such a reason:  *)
(* the claim never lets two workers post one queueing of an item, whatever   *)
(* the crashes and stale snapshots.                                          *)
Ledger == INSTANCE PublishLedger WITH
  permits <- [i \in Items |-> 1 + reopened[i] + unknown[i]]

PostsArePermitted == Ledger!Spec

(* Two workers never hold the same item unless a request reopened it.        *)
OneHolder ==
  \A i \in Items : reopened[i] = 0 =>
    \A v, w \in Workers : Holding(v, i) /\ Holding(w, i) => v = w

(* retry_item protects only PUBLISHED rows.  That is enough: an item it      *)
(* accepts and that no worker holds is not live on the platform, unless the  *)
(* provider's answer or the write of the outcome was lost, somebody          *)
(* cancelled it, or a request had reopened it before.                        *)
RetryIsSafe ==
  \A i \in Items :
    (/\ Accepts("retry", row[i].status) /\ row[i].status # "CANCELLED"
     /\ \A w \in Workers : ~ Holding(w, i)
     /\ reopened[i] = 0 /\ unknown[i] = 0
     /\ i \notin stranded /\ spent.db = 0)
    => posts[i] = 0

(* A paused, failed, cancelled, published or otherwise resting row changes   *)
(* its status only by a request that loaded it or a worker that already held *)
(* it: a worker that selected the row before it came to rest cannot claim it.*)
RestsUntilAsked ==
  [][\A i \in Items :
       (row[i].status \notin DueStatuses \cup {"PUBLISHING"} /\ row'[i].status # row[i].status)
       => \/ \E c \in Clients : request[c].loaded[i] # None /\ request'[c].op = None
          \/ \E w \in Workers : Holding(w, i) /\ worker'[w].pc = "idle"]_vars

(* Every queued row is eventually published or comes to rest in a status     *)
(* that shows why, if no process dies, no database call fails, and the quota *)
(* errors end.                                                               *)
EventuallySettles ==
  \A i \in Items :
    (row[i].status \in DueStatuses \cup {"PUBLISHING"})
      ~> (row[i].status \notin DueStatuses \cup {"PUBLISHING"})

(* What the documentation says, checked on its own runs. *)

(* queue_manager.py:178-182: retry_item leaves a PUBLISHED item untouched    *)
(* "rather than being reverted to WAITING".                                  *)
PublishedNeverReverts ==
  [][\A i \in Items : row[i].status = "PUBLISHED" => row'[i].status # "WAITING"]_vars

(* worker.py:12-13 and README: the claim makes the queue restart-safe.       *)
InFlightEnds ==
  \A i \in Items : row[i].status = "PUBLISHING" ~> row[i].status # "PUBLISHING"

=============================================================================
