---------------------------- MODULE QueueCreation ----------------------------
(***************************************************************************)
(* create_queue_from_job of publishing/queue_manager.py: one row per clip  *)
(* and platform, inserted one by one in a session that is committed at its *)
(* end.  Calls overlap: a second submission of the same video and clips    *)
(* reuses the job, and its watcher calls the function for the same job.    *)
(*                                                                         *)
(* SQLite has one writer at a time: the first INSERT of a transaction takes*)
(* the write lock, a commit or a rollback releases it, and a call that     *)
(* waits too long for it raises.                                           *)
(***************************************************************************)
EXTENDS PublishSchedule, Sequences

CONSTANTS
  Callers,          \* calls of create_queue_from_job for this job
  PlatformChoices,  \* the values of enabled_platforms: sequences of platforms
  Intervals,        \* the values of interval_minutes
  BlockWarnings,    \* BLOCK_WARNINGS
  Flagged,          \* clips with a copyright_warning
  None,
  MaxTime           \* bound: the clock

ASSUME CallsAssumption ==
  /\ Intervals \subseteq Nat /\ MaxTime \in Nat
  /\ BlockWarnings \in BOOLEAN /\ Flagged \subseteq Clips
  /\ \A p \in PlatformChoices : p \in Seq(STRING)
  /\ None \notin Callers

VARIABLES
  completed,  \* the clips of the job that are COMPLETED
  table,      \* the committed rows: [clip, platform, scheduled_at, by]
  lock,       \* the call that holds SQLite's write lock
  call,       \* the local variables of each call
  now

vars == <<completed, table, lock, call, now>>

NewCall == [pc |-> "new", platforms |-> << >>, start_at |-> 0, interval |-> 0,
            done |-> 0, pending |-> {}, created_count |-> 0, queued |-> {}]

Init ==
  /\ completed \in SUBSET Clips
  /\ table = {}
  /\ lock = None
  /\ call = [c \in Callers |-> NewCall]
  /\ now = 0

Eligible ==
  {k \in completed : ~ (BlockWarnings /\ k \in Flagged)}

Key(r) == <<r.clip, r.platform>>
Keys(rows) == {Key(r) : r \in rows}

(* The keys of the rows that the call is to create, in the order in which   *)
(* it inserts them: platforms within clips.                                 *)
Total(c) == Cardinality(Eligible) * Len(call[c].platforms)
KeyAt(c, n) ==
  LET P == Len(call[c].platforms)
  IN  <<OrderClips(Eligible)[(n \div P) + 1], call[c].platforms[(n % P) + 1]>>
Wanted(c) == {KeyAt(c, n) : n \in 0 .. Total(c) - 1}

Call(c) ==
  /\ call[c].pc = "new"
  /\ \E platforms \in PlatformChoices, interval \in Intervals :
       call' = [call EXCEPT ![c].pc = "insert",
                            ![c].platforms = platforms,
                            ![c].start_at = now,
                            ![c].interval = interval]
  /\ UNCHANGED <<completed, table, lock, now>>

RowAt(c, n) ==
  LET slots == AssignSlots(Eligible, call[c].start_at, call[c].interval)
  IN  [clip |-> KeyAt(c, n)[1], platform |-> KeyAt(c, n)[2],
       scheduled_at |-> slots[KeyAt(c, n)[1]], by |-> c]

(* A call waits while another one's transaction holds the write lock.       *)
Inserting(c) ==
  /\ call[c].pc = "insert"
  /\ call[c].done < Total(c)
  /\ lock \in {None, c}

(* Mutant: the table has no unique constraint.                              *)
InsertRowUnchecked(c) ==
  /\ Inserting(c)
  /\ LET n == call[c].done IN
       call' = [call EXCEPT ![c].done = n + 1,
                            ![c].pending = @ \cup {RowAt(c, n)},
                            ![c].created_count = @ + 1,
                            ![c].queued = @ \cup {KeyAt(c, n)[1]}]
  /\ lock' = c
  /\ UNCHANGED <<completed, table, now>>

(* Mutant: a session per row.                                               *)
InsertRowAndCommit(c) ==
  /\ Inserting(c)
  /\ LET n == call[c].done IN
       /\ KeyAt(c, n) \notin Keys(table)
       /\ table' = table \cup {RowAt(c, n)}
       /\ call' = [call EXCEPT ![c].done = n + 1, ![c].created_count = @ + 1,
                               ![c].queued = @ \cup {KeyAt(c, n)[1]}]
  /\ UNCHANGED <<completed, lock, now>>

(* flush succeeds: the row is in the session's transaction.                 *)
InsertRow(c) ==
  /\ Inserting(c)
  /\ LET n == call[c].done IN
       /\ KeyAt(c, n) \notin Keys(table) \cup Keys(call[c].pending)
       /\ call' = [call EXCEPT ![c].done = n + 1,
                               ![c].pending = @ \cup {RowAt(c, n)},
                               ![c].created_count = @ + 1,
                               ![c].queued = @ \cup {KeyAt(c, n)[1]}]
  /\ lock' = c
  /\ UNCHANGED <<completed, table, now>>

(* flush raises IntegrityError: session.rollback() undoes the whole         *)
(* transaction, with the rows flushed before.                               *)
RowExists(c) ==
  /\ Inserting(c)
  /\ KeyAt(c, call[c].done) \in Keys(table) \cup Keys(call[c].pending)
  /\ call' = [call EXCEPT ![c].done = @ + 1, ![c].pending = {}]
  /\ lock' = None
  /\ UNCHANGED <<completed, table, now>>

Commit(c) ==
  /\ call[c].pc = "insert"
  /\ call[c].done = Total(c)
  /\ table' = table \cup call[c].pending
  /\ call' = [call EXCEPT ![c].pc = "done", ![c].pending = {}]
  /\ lock' = IF lock = c THEN None ELSE lock
  /\ UNCHANGED <<completed, now>>

(* Mutant: session_scope swallows the error.                                *)
FailUnnoticed(c) ==
  /\ call[c].pc = "insert"
  /\ call' = [call EXCEPT ![c].pc = "done", ![c].pending = {}]
  /\ lock' = IF lock = c THEN None ELSE lock
  /\ UNCHANGED <<completed, table, now>>

(* A database error (the lock was not free in time) or the end of the       *)
(* process: session_scope rolls back.                                       *)
Fail(c) ==
  /\ call[c].pc = "insert"
  /\ call' = [call EXCEPT ![c].pc = "failed", ![c].pending = {}]
  /\ lock' = IF lock = c THEN None ELSE lock
  /\ UNCHANGED <<completed, table, now>>

Tick ==
  /\ now < MaxTime
  /\ now' = now + 1
  /\ UNCHANGED <<completed, table, lock, call>>

Next ==
  \/ Tick
  \/ \E c \in Callers : Call(c) \/ InsertRow(c) \/ RowExists(c) \/ Commit(c) \/ Fail(c)

Spec == Init /\ [][Next]_vars

-----------------------------------------------------------------------------
(* Properties *)

RowType == [clip : Clips, platform : STRING, scheduled_at : Nat, by : Callers]

CallState ==
  [pc : {"new", "insert", "done", "failed"}, platforms : PlatformChoices \cup {<< >>},
   start_at : Nat, interval : Nat, done : Nat,
   pending : SUBSET RowType,
   created_count : Nat, queued : SUBSET Clips]

(* The values the variables take, and: only the call that holds the write   *)
(* lock has rows in its transaction.                                        *)
TypeOK ==
  /\ completed \subseteq Clips
  /\ table \subseteq RowType
  /\ lock \in Callers \cup {None}
  /\ call \in [Callers -> CallState]
  /\ now \in 0 .. MaxTime
  /\ \A c \in Callers : call[c].pending # {} => lock = c /\ call[c].pc = "insert"

(* The database never holds two rows for one clip and platform, although    *)
(* overlapping calls insert the same keys: the constraint is checked        *)
(* against what is committed and against the call's own transaction.        *)
OneRowPerKey ==
  /\ \A r, s \in table : Key(r) = Key(s) => r = s
  /\ \A c \in Callers : Keys(table) \cap Keys(call[c].pending) = {}

(* A call adds all the rows it is asked for and that are missing, or none,  *)
(* however calls overlap and wherever they fail.  Holds for calls whose     *)
(* platform lists are equal or disjoint.                                    *)
BatchesAreWhole ==
  [][table' # table =>
       \E c \in Callers : Keys(table') = Keys(table) \cup Wanted(c)]_table

(* The docstring of create_queue_from_job: it builds "rows for every        *)
(* COMPLETED clip" and calling it again is harmless.                        *)
EveryClipIsQueued ==
  \A c \in Callers : call[c].pc = "done" => Wanted(c) \subseteq Keys(table)

(* The summary counts rows that exist.                                      *)
SummaryIsTrue ==
  \A c \in Callers : call[c].pc = "done" =>
    /\ call[c].created_count = Cardinality({r \in table : r.by = c})
    /\ call[c].queued = {r.clip : r \in {s \in table : s.by = c}}

(* The rows of a call: every platform of a clip has the clip's slot, no two *)
(* clips share one, and a clip of a better rank, or of the same rank and a  *)
(* higher score, comes at least an interval earlier.                        *)
SlotsFollowRank ==
  \A r, s \in table : r.by = s.by =>
    /\ r.clip = s.clip => r.scheduled_at = s.scheduled_at
    /\ (\/ Rank[r.clip] < Rank[s.clip]
        \/ Rank[r.clip] = Rank[s.clip] /\ ViralScore[r.clip] > ViralScore[s.clip])
       => r.scheduled_at + call[r.by].interval <= s.scheduled_at
=============================================================================
