----------------------------- MODULE PublishCalls -----------------------------
(***************************************************************************)
(* PublishQueue with a history of the attempts that are really made.  The  *)
(* table counts them in attempt_count, which a worker takes from the row   *)
(* as it was when it selected it (worker.py:119); here each call of        *)
(* provider.publish is counted where it is made.  The history only         *)
(* records, it keeps no step of the queue from happening.                  *)
(***************************************************************************)
EXTENDS PublishQueue

VARIABLES
  calls,      \* calls of provider.publish for each item since its count was last set to 0
  uncounted   \* attempts that workers left out, having selected the row before they were made

history == <<calls, uncounted>>
countedVars == <<vars, history>>

CountedInit ==
  /\ Init
  /\ calls = [i \in Items |-> 0]
  /\ uncounted = [i \in Items |-> 0]

(* The provider is called, whatever it answers. *)
CountedCall(w) ==
  /\ PublishSucceeds(w) \/ PublishFails(w) \/ PublishUnacknowledged(w)
  /\ calls' = [calls EXCEPT ![worker[w].item] = @ + 1]
  /\ UNCHANGED uncounted

(* How many attempts a worker does not know of when it claims this row.     *)
MadeSinceSelected(w, i) ==
  IF row[i].attempt_count > worker[w].seen[i].attempt_count
    THEN row[i].attempt_count - worker[w].seen[i].attempt_count ELSE 0

CountedClaim(w) ==
  /\ ClaimCandidate(w)
  /\ uncounted' = [i \in Items |-> IF worker'[w].item = i
                                     THEN uncounted[i] + MadeSinceSelected(w, i)
                                     ELSE uncounted[i]]
  /\ UNCHANGED calls

(* retry_item writes 0 over a count that was not 0: the item starts again.  *)
StartsAgain(c, i) ==
  /\ request[c].op = "retry" /\ request[c].loaded[i] # None
  /\ request[c].loaded[i].attempt_count # 0

CountedRequest(c) ==
  /\ CommitRequest(c)
  /\ calls' = [i \in Items |-> IF StartsAgain(c, i) THEN 0 ELSE calls[i]]
  /\ uncounted' = [i \in Items |-> IF StartsAgain(c, i) THEN 0 ELSE uncounted[i]]

(* No other step makes an attempt, starts one or forgets one.               *)
UncountedStep ==
  \/ \E w \in Workers :
       \/ SelectDue(w) \/ SleepUntilPoll(w) \/ ClaimNothing(w) \/ CheckPublished(w)
       \/ Preflight(w) \/ RecordAttempt(w) \/ LoadItem(w) \/ CommitItem(w) \/ WorkerFault(w)
  \/ \E c \in Clients : LoadForRequest(c) \/ LoadForResume(c) \/ AbortRequest(c) \/ PauseJob(c)
  \/ \E i \in Items : TimePasses(i)

CountedNext ==
  \/ \E w \in Workers : CountedCall(w) \/ CountedClaim(w)
  \/ \E c \in Clients : CountedRequest(c)
  \/ UncountedStep /\ UNCHANGED history

CountedSpec == CountedInit /\ [][CountedNext]_countedVars

-----------------------------------------------------------------------------
(* Properties *)

(* The count of a row that is to be tried again leaves an attempt.          *)
AttemptIsLeft(i) == row[i].status = "RETRYING" => row[i].attempt_count < MaxAttempts

(* The count of a row at rest is short of the attempts made only by those   *)
(* that a worker with an old copy of the row left out; when a worker dies   *)
(* or a database call fails, the attempt may not be counted either.         *)
AttemptsAreCounted(i) ==
  (i \notin stranded /\ spent.db = 0 /\ \A w \in Workers : ~ Holding(w, i)) =>
    calls[i] <= row[i].attempt_count + uncounted[i]

(* A row waits for another attempt only while fewer than MAX_PUBLISH_ATTEMPTS*)
(* have really been made, those aside that a claim on an old copy of the row*)
(* left out of the count: no overlap of two workers' commits, of a retry,   *)
(* publish_now, pause or resume with either of them, and no result that is  *)
(* no attempt loses one more (worker.py:119, _handle_failure, retry_item).  *)
RetryBudget ==
  \A i \in Items : reopened[i] = 0 => AttemptIsLeft(i) /\ AttemptsAreCounted(i)
=============================================================================
