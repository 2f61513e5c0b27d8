------------------------- MODULE PublishQueueProofs -------------------------
(***************************************************************************)
(* Proofs about PublishQueue, for every set of items, workers and clients  *)
(* and every value of the bounds: who holds a row, what a row that says    *)
(* PUBLISHED stands for, what a retry may rely on, and that the queue      *)
(* implements PublishLedger.                                               *)
(***************************************************************************)
EXTENDS PublishCalls, FiniteSetTheorems, TLAPS

-----------------------------------------------------------------------------
(* The operators the actions are built from. *)

(* Whatever a handler loaded, its flush leaves a row of publish_queue.      *)
LEMMA FlushRow ==
  ASSUME NEW cur \in Row, NEW ld, NEW new,
         new.status \in QueueStatus, new.attempt_count \in Nat,
         new.scheduled \in {"past", "future", "keep"}, new.external_post_id \in Nat
  PROVE  Flush(cur, ld, new) \in Row
BY DEF Flush, Row

(* Every outcome of an attempt has a status, and it is never PUBLISHING,    *)
(* WAITING or PAUSED.                                                       *)
LEMMA StatusAfterRange ==
  ASSUME NEW r, NEW n
  PROVE  /\ StatusAfter(r, n) \in QueueStatus \ {"PUBLISHING", "WAITING", "PAUSED"}
         /\ StatusAfter(r, n) = "PUBLISHED" <=> r = "SUCCESS"
BY DEF StatusAfter, QueueStatus

(* What the worker assigns when it commits.                                 *)
LEMMA OutcomeFields ==
  ASSUME NEW me \in WorkerState, me.loaded \in Row
  PROVE  /\ Outcome(me).status = StatusAfter(me.result, me.attempt)
         /\ Outcome(me).status \in QueueStatus
         /\ Outcome(me).attempt_count \in Nat
         /\ Outcome(me).scheduled \in {"past", "future", "keep"}
         /\ Outcome(me).external_post_id \in Nat
<1>1. StatusAfter(me.result, me.attempt) \in QueueStatus
  BY StatusAfterRange
<1>2. CountToStore(me) \in Nat /\ PostIdToStore(me) \in Nat
  BY DEF CountToStore, PostIdToStore, WorkerState, Row
<1> QED
  BY <1>1, <1>2 DEF Outcome

(* What a handler assigns to a row it loaded.                               *)
LEMMA RequestedFields ==
  ASSUME NEW op, NEW ld \in Row, NEW isFirst \in BOOLEAN
  PROVE  /\ Requested(op, ld, isFirst).status \in {"WAITING", "CANCELLED"}
         /\ Requested(op, ld, isFirst).attempt_count \in Nat
         /\ Requested(op, ld, isFirst).scheduled \in {"past", "future", "keep"}
         /\ Requested(op, ld, isFirst).external_post_id = ld.external_post_id
BY DEF Requested, Row

LEMMA NothingType == Nothing \in [Items -> Row \cup {None}]
BY DEF Nothing

LEMMA IdleWorkerType == IdleWorker \in WorkerState /\ Consistent(IdleWorker)
BY NothingType, ConstantsAssumption DEF IdleWorker, WorkerState, Consistent, PrePost

LEMMA IdleRequestType == IdleRequest \in RequestState
BY NothingType DEF IdleRequest, RequestState

-----------------------------------------------------------------------------
(* Type correctness. *)

(* A step of worker w that leaves it in a consistent state keeps every      *)
(* worker well typed.                                                       *)
LEMMA WorkerUpdate ==
  ASSUME TypeOK, NEW w \in Workers, NEW me \in WorkerState, Consistent(me),
         worker' = [worker EXCEPT ![w] = me]
  PROVE  /\ worker' \in [Workers -> WorkerState]
         /\ \A v \in Workers : Consistent(worker'[v])
BY DEF TypeOK

LEMMA InitType == Init => TypeOK
<1> SUFFICES ASSUME Init PROVE TypeOK
  OBVIOUS
<1>1. row \in [Items -> Row]
  BY DEF Init, Row, QueueStatus
<1>2. /\ worker \in [Workers -> WorkerState]
      /\ \A w \in Workers : Consistent(worker[w])
  BY IdleWorkerType DEF Init
<1>3. request \in [Clients -> RequestState]
  BY IdleRequestType DEF Init
<1> QED
  BY <1>1, <1>2, <1>3 DEF Init, TypeOK

LEMMA WorkerStepType ==
  ASSUME TypeOK, NEW w \in Workers, WorkerStep(w)
  PROVE  TypeOK'
<1> USE DEF TypeOK
<1>0. worker[w] \in WorkerState /\ Consistent(worker[w])
  OBVIOUS
<1> DEFINE item == worker[w].item
<1>a. worker[w].pc \notin {"idle", "claim"} => item \in Items /\ row[item] \in Row
  BY <1>0 DEF WorkerState, Consistent
<1>1. CASE SelectDue(w)
  <2> PICK S \in SUBSET Items :
        worker' = [worker EXCEPT
          ![w].pc = "claim",
          ![w].seen = [i \in Items |-> IF i \in S THEN row[i] ELSE None]]
    BY <1>1 DEF SelectDue
  <2> DEFINE me == [worker[w] EXCEPT
                      !.pc = "claim",
                      !.seen = [i \in Items |-> IF i \in S THEN row[i] ELSE None]]
  <2>1. me \in WorkerState
    BY <1>0 DEF WorkerState
  <2>2. Consistent(me)
    BY <1>0, <1>1 DEF Consistent, SelectDue, WorkerState, PrePost
  <2>3. worker' = [worker EXCEPT ![w] = me]
    BY <1>0
  <2> QED
    BY <1>1, <2>1, <2>2, <2>3, WorkerUpdate DEF SelectDue, table, ghosts
<1>2. CASE SleepUntilPoll(w)
  BY <1>2 DEF SleepUntilPoll, vars
<1>3. CASE ClaimCandidate(w)
  <2>0. PICK i \in Items :
          /\ ClaimMatches(w, i)
          /\ row' = [row EXCEPT ![i].status = "PUBLISHING"]
          /\ worker' = [worker EXCEPT
               ![w].pc = "check",
               ![w].item = i,
               ![w].attempt = worker[w].seen[i].attempt_count + 1,
               ![w].seen = Nothing]
    BY <1>3 DEF ClaimCandidate
  <2> DEFINE me == [worker[w] EXCEPT !.pc = "check", !.item = i,
                                     !.attempt = worker[w].seen[i].attempt_count + 1,
                                     !.seen = Nothing]
  <2>1. me \in WorkerState /\ Consistent(me)
    BY <1>0, <1>3, ConstantsAssumption, NothingType, <2>0
    DEF ClaimCandidate, WorkerState, Consistent, PrePost, Result, ClaimMatches, Row
  <2>2. worker' = [worker EXCEPT ![w] = me]
    BY <1>0, <1>3, <2>0 DEF ClaimCandidate
  <2> QED
    <3>1. row' \in [Items -> Row]
      BY <2>0 DEF Row, QueueStatus
    <3> QED
      BY <1>3, <2>1, <2>2, <3>1, WorkerUpdate DEF ClaimCandidate, ghosts
<1>4. CASE ClaimNothing(w)
  BY <1>4, IdleWorkerType, WorkerUpdate DEF ClaimNothing, table, ghosts
<1>5. CASE CheckPublished(w)
  <2> DEFINE me == [worker[w] EXCEPT
        !.pc = IF AlreadyPublished(w) THEN "load" ELSE "validate",
        !.result = IF AlreadyPublished(w) THEN "ALREADY_PUBLISHED" ELSE None]
  <2>1. me \in WorkerState /\ Consistent(me)
    BY <1>0, <1>5, ConstantsAssumption
    DEF CheckPublished, WorkerState, Consistent, PrePost, Result
  <2>2. worker' = [worker EXCEPT ![w] = me]
    BY <1>0, <1>5 DEF CheckPublished
  <2> QED
    BY <1>5, <2>1, <2>2, WorkerUpdate DEF CheckPublished, table, ghosts
<1>6. CASE Preflight(w)
  <2> PICK me \in WorkerState : worker' = [worker EXCEPT ![w] = me] /\ Consistent(me)
    <3>1. CASE worker' = [worker EXCEPT ![w].pc = "publish"]
      <4> DEFINE me == [worker[w] EXCEPT !.pc = "publish"]
      <4>1. me \in WorkerState /\ Consistent(me)
        BY <1>0, <1>6 DEF Preflight, WorkerState, Consistent, PrePost
      <4> QED
        BY <1>0, <3>1, <4>1
    <3>2. ASSUME NEW r \in {"INVALID_MEDIA", "NO_ACCOUNT"},
                 worker' = [worker EXCEPT ![w].pc = "load", ![w].result = r]
          PROVE  \E me \in WorkerState :
                   worker' = [worker EXCEPT ![w] = me] /\ Consistent(me)
      <4> DEFINE me == [worker[w] EXCEPT !.pc = "load", !.result = r]
      <4>1. me \in WorkerState /\ Consistent(me)
        BY <1>0, <1>6, ConstantsAssumption
        DEF Preflight, WorkerState, Consistent, PrePost, Result
      <4> QED
        BY <1>0, <3>2, <4>1
    <3> QED
      BY <1>6, <3>1, <3>2 DEF Preflight
  <2> QED
    BY <1>6, WorkerUpdate DEF Preflight, table, ghosts
<1>7. CASE PublishSucceeds(w)
  <2> DEFINE me == [worker[w] EXCEPT !.pc = "record", !.result = "SUCCESS",
                                     !.post_id = posts[worker[w].item] + 1]
  <2>1. me \in WorkerState /\ Consistent(me)
    BY <1>0, <1>7, ConstantsAssumption
    DEF PublishSucceeds, WorkerState, Consistent, PrePost, Result, ProviderResult
  <2>2. worker' = [worker EXCEPT ![w] = me]
    BY <1>0, <1>7 DEF PublishSucceeds
  <2> QED
    <3>1. posts' \in [Items -> Nat]
      BY <1>7, <1>a DEF PublishSucceeds
    <3> QED
      BY <1>7, <2>1, <2>2, <3>1, WorkerUpdate DEF PublishSucceeds, table
<1>8. CASE PublishFails(w)
  <2>0. PICK e \in ErrorClass :
          worker' = [worker EXCEPT ![w].pc = "record", ![w].result = e]
    BY <1>8 DEF PublishFails
  <2> DEFINE me == [worker[w] EXCEPT !.pc = "record", !.result = e]
  <2>1. me \in WorkerState /\ Consistent(me)
    BY <1>0, <1>8, ConstantsAssumption, <2>0
    DEF PublishFails, WorkerState, Consistent, PrePost, Result, ProviderResult
  <2>2. worker' = [worker EXCEPT ![w] = me]
    BY <1>0, <1>8, <2>0 DEF PublishFails
  <2> QED
    <3>1. spent' \in [requests : Nat, quota : Nat, crashes : Nat, db : Nat]
      BY <1>8 DEF PublishFails
    <3> QED
      BY <1>8, <2>1, <2>2, <3>1, WorkerUpdate DEF PublishFails, table, ghosts
<1>9. CASE PublishUnacknowledged(w)
  <2>0. PICK e \in {"TRANSIENT", "PERMANENT"} :
          worker' = [worker EXCEPT ![w].pc = "record", ![w].result = e]
    BY <1>9 DEF PublishUnacknowledged
  <2> DEFINE me == [worker[w] EXCEPT !.pc = "record", !.result = e]
  <2>1. me \in WorkerState /\ Consistent(me)
    BY <1>0, <1>9, ConstantsAssumption, <2>0
    DEF PublishUnacknowledged, WorkerState, Consistent, PrePost, Result, ProviderResult, ErrorClass
  <2>2. worker' = [worker EXCEPT ![w] = me]
    BY <1>0, <1>9, <2>0 DEF PublishUnacknowledged
  <2> QED
    <3>1. posts' \in [Items -> Nat] /\ unknown' \in [Items -> Nat]
      BY <1>9, <1>a DEF PublishUnacknowledged
    <3> QED
      BY <1>9, <2>1, <2>2, <3>1, WorkerUpdate DEF PublishUnacknowledged, table
<1>10. CASE RecordAttempt(w)
  <2> DEFINE me == [worker[w] EXCEPT !.pc = "load"]
  <2>1. me \in WorkerState /\ Consistent(me)
    BY <1>0, <1>10, ConstantsAssumption
    DEF RecordAttempt, WorkerState, Consistent, PrePost, Result
  <2>2. worker' = [worker EXCEPT ![w] = me]
    BY <1>0, <1>10 DEF RecordAttempt
  <2> QED
    BY <1>10, <2>1, <2>2, WorkerUpdate DEF RecordAttempt, table, ghosts
<1>11. CASE LoadItem(w)
  <2> DEFINE me == [worker[w] EXCEPT !.pc = "commit", !.loaded = row[worker[w].item]]
  <2>1. me \in WorkerState /\ Consistent(me)
    <3>1. row[item] \in Row /\ row[item] # None /\ worker[w].pc = "load"
      BY <1>a, <1>11, ConstantsAssumption DEF LoadItem
    <3> QED
      BY <1>0, <3>1 DEF WorkerState, Consistent, PrePost
  <2>2. worker' = [worker EXCEPT ![w] = me]
    BY <1>0, <1>11 DEF LoadItem
  <2> QED
    BY <1>11, <2>1, <2>2, WorkerUpdate DEF LoadItem, table, ghosts
<1>12. CASE CommitItem(w)
  <2> DEFINE i == worker[w].item
  <2>1. i \in Items /\ worker[w].loaded \in Row
    BY <1>0, <1>12 DEF CommitItem, WorkerState, Consistent
  <2>2. Flush(row[i], worker[w].loaded, Outcome(worker[w])) \in Row
    BY <1>0, <2>1, OutcomeFields, FlushRow
  <2>3. row' \in [Items -> Row]
    BY <1>12, <2>1, <2>2 DEF CommitItem
  <2> QED
    BY <1>12, <2>3, IdleWorkerType, WorkerUpdate DEF CommitItem, ghosts
<1> QED
  BY <1>1, <1>2, <1>3, <1>4, <1>5, <1>6, <1>7, <1>8, <1>9, <1>10, <1>11, <1>12
  DEF WorkerStep

LEMMA WorkerFaultType ==
  ASSUME TypeOK, NEW w \in Workers, WorkerFault(w)
  PROVE  TypeOK'
<1> USE DEF TypeOK
<1>0. worker[w] \in WorkerState /\ Consistent(worker[w])
  OBVIOUS
<1>1. CASE WorkerDbError(w)
  <2>0. spent' \in [requests : Nat, quota : Nat, crashes : Nat, db : Nat]
    BY <1>1 DEF WorkerDbError
  <2>1. CASE worker' = [worker EXCEPT ![w] = IdleWorker]
    <3>1. stranded' \subseteq Items
      BY <1>0, <1>1, ConstantsAssumption
      DEF WorkerDbError, WorkerState, Consistent, Result, PrePost
    <3> QED
      BY <1>1, <2>0, <2>1, <3>1, IdleWorkerType, WorkerUpdate DEF WorkerDbError, table
  <2>2. CASE worker' # [worker EXCEPT ![w] = IdleWorker]
    <3> DEFINE me == [worker[w] EXCEPT !.pc = "load", !.result = "INTERNAL", !.loaded = None]
    <3>1. /\ worker[w].pc \notin {"idle", "claim"}
          /\ worker' = [worker EXCEPT ![w] = me]
          /\ UNCHANGED stranded
      BY <1>0, <1>1, <2>2 DEF WorkerDbError
    <3>2. me \in WorkerState /\ Consistent(me)
      BY <1>0, <3>1, ConstantsAssumption DEF WorkerState, Consistent, PrePost, Result
    <3> QED
      BY <1>1, <2>0, <3>1, <3>2, WorkerUpdate DEF WorkerDbError, table
  <2> QED
    BY <2>1, <2>2
<1>2. CASE WorkerCrash(w)
  <2>1. /\ spent' \in [requests : Nat, quota : Nat, crashes : Nat, db : Nat]
        /\ stranded' \subseteq Items
    BY <1>0, <1>2 DEF WorkerCrash, WorkerState
  <2> QED
    BY <1>2, <2>1, IdleWorkerType, WorkerUpdate DEF WorkerCrash, table
<1> QED
  BY <1>1, <1>2 DEF WorkerFault

LEMMA RequestStepType ==
  ASSUME TypeOK, NEW c \in Clients, RequestStep(c)
  PROVE  TypeOK'
<1> USE DEF TypeOK
<1>0. StartRequest(c) => spent' \in [requests : Nat, quota : Nat, crashes : Nat, db : Nat]
  BY DEF StartRequest
<1>1. CASE LoadForRequest(c)
  <2>1. PICK op \in Ops, i \in Items :
          request' = [request EXCEPT ![c] =
            [op |-> op, loaded |-> [Nothing EXCEPT ![i] = row[i]]]]
    BY <1>1 DEF LoadForRequest
  <2>2. [op |-> op, loaded |-> [Nothing EXCEPT ![i] = row[i]]] \in RequestState
    BY NothingType, ConstantsAssumption DEF RequestState
  <2> QED
    BY <1>0, <1>1, <2>1, <2>2 DEF LoadForRequest, table, ghosts
<1>2. CASE LoadForResume(c)
  <2>1. PICK job :
          request' = [request EXCEPT ![c] =
            [op |-> "resume",
             loaded |-> [i \in Items |-> IF i \in PausedOf(job) THEN row[i] ELSE None]]]
    BY <1>2 DEF LoadForResume
  <2>2. [op |-> "resume",
         loaded |-> [i \in Items |-> IF i \in PausedOf(job) THEN row[i] ELSE None]]
          \in RequestState
    BY DEF RequestState, AllOps
  <2> QED
    BY <1>0, <1>2, <2>1, <2>2 DEF LoadForResume, table, ghosts
<1>3. CASE CommitRequest(c)
  <2> DEFINE op == request[c].op
             touched == {i \in Items : request[c].loaded[i] # None}
  <2>1. PICK first \in Earliest(request[c].loaded, touched) :
          row' = [i \in Items |->
             IF i \in touched
               THEN LET ld == request[c].loaded[i]
                    IN  Flush(row[i], ld, Requested(op, ld, i.clip = first.clip))
               ELSE row[i]]
    BY <1>3 DEF CommitRequest
  <2>2. ASSUME NEW i \in touched
        PROVE  Flush(row[i], request[c].loaded[i],
                 Requested(op, request[c].loaded[i], i.clip = first.clip)) \in Row
    <3>1. request[c].loaded[i] \in Row /\ row[i] \in Row
      BY DEF RequestState
    <3> DEFINE isFirst == i.clip = first.clip
               new == Requested(op, request[c].loaded[i], isFirst)
    <3>2. /\ new.status \in QueueStatus
          /\ new.attempt_count \in Nat
          /\ new.scheduled \in {"past", "future", "keep"}
          /\ new.external_post_id \in Nat
      <4>1. isFirst \in BOOLEAN
        OBVIOUS
      <4> HIDE DEF isFirst
      <4>2. /\ new.status \in {"WAITING", "CANCELLED"}
            /\ new.attempt_count \in Nat
            /\ new.scheduled \in {"past", "future", "keep"}
            /\ new.external_post_id = request[c].loaded[i].external_post_id
        BY <3>1, <4>1, RequestedFields
      <4> QED
        BY <3>1, <4>2 DEF Row, QueueStatus
    <3> HIDE DEF new
    <3>3. Flush(row[i], request[c].loaded[i], new) \in Row
      BY <3>1, <3>2, FlushRow
    <3> QED
      BY <3>3 DEF new
  <2>3. row' \in [Items -> Row]
    BY <2>1, <2>2
  <2>4. reopened' \in [Items -> Nat]
    BY <1>3 DEF CommitRequest
  <2>5. request' \in [Clients -> RequestState]
    BY <1>3, IdleRequestType DEF CommitRequest
  <2> QED
    BY <1>3, <2>3, <2>4, <2>5 DEF CommitRequest
<1>4. CASE AbortRequest(c)
  BY <1>4, IdleRequestType DEF AbortRequest, table, ghosts
<1>5. CASE PauseJob(c)
  <2>1. row' \in [Items -> Row]
    BY <1>5 DEF PauseJob, Row, QueueStatus
  <2> QED
    BY <1>0, <1>5, <2>1 DEF PauseJob, ghosts
<1> QED
  BY <1>1, <1>2, <1>3, <1>4, <1>5 DEF RequestStep

LEMMA TimePassesType ==
  ASSUME TypeOK, NEW i \in Items, TimePasses(i)
  PROVE  TypeOK'
<1>1. row' \in [Items -> Row]
  BY DEF TypeOK, TimePasses, Row
<1> QED
  BY <1>1 DEF TypeOK, TimePasses, ghosts

LEMMA NextType == TypeOK /\ [Next]_vars => TypeOK'
<1> SUFFICES ASSUME TypeOK, [Next]_vars PROVE TypeOK'
  OBVIOUS
<1>1. CASE UNCHANGED vars
  BY <1>1 DEF vars, TypeOK
<1> QED
  BY <1>1, WorkerStepType, WorkerFaultType, RequestStepType, TimePassesType DEF Next

(* Every reachable state is well typed, and a worker's local variables      *)
(* agree with the point of the code it has reached.                         *)
THEOREM TypeCorrect == Spec => []TypeOK
BY InitType, NextType, PTL DEF Spec

-----------------------------------------------------------------------------
(* What each kind of step does to the rows. *)

(* A commit of a handler leaves a status it wrote, WAITING or CANCELLED, on *)
(* a row it loaded, or the status that was there; and it keeps the post id. *)
LEMMA CommitRequestRows ==
  ASSUME TypeOK, NEW c \in Clients, CommitRequest(c), NEW i \in Items
  PROVE  /\ row'[i].external_post_id = row[i].external_post_id
         /\ \/ row'[i].status = row[i].status
            \/ /\ request[c].loaded[i] # None
               /\ row'[i].status \in {"WAITING", "CANCELLED"}
<1> DEFINE op == request[c].op
           touched == {j \in Items : request[c].loaded[j] # None}
<1>1. PICK first \in Earliest(request[c].loaded, touched) :
        row' = [j \in Items |->
           IF j \in touched
             THEN LET ld == request[c].loaded[j]
                  IN  Flush(row[j], ld, Requested(op, ld, j.clip = first.clip))
             ELSE row[j]]
  BY DEF CommitRequest
<1>2. CASE i \notin touched
  BY <1>1, <1>2
<1>3. CASE i \in touched
  <2> DEFINE isFirst == i.clip = first.clip
             ld == request[c].loaded[i]
             new == Requested(op, ld, isFirst)
  <2>1. ld \in Row
    BY <1>3 DEF TypeOK, RequestState
  <2>2. isFirst \in BOOLEAN
    OBVIOUS
  <2>3. row'[i] = Flush(row[i], ld, new)
    BY <1>1, <1>3
  <2> HIDE DEF isFirst
  <2>4. /\ new.status \in {"WAITING", "CANCELLED"}
        /\ new.external_post_id = ld.external_post_id
    BY <2>1, <2>2, RequestedFields
  <2> HIDE DEF new, ld
  <2> QED
    BY <1>3, <2>3, <2>4 DEF Flush
<1> QED
  BY <1>2, <1>3

(* A worker's commit writes its own item only: the status of the outcome or *)
(* the one that was there, the latter when it loaded that very outcome.     *)
LEMMA CommitItemRows ==
  ASSUME TypeOK, NEW w \in Workers, CommitItem(w), NEW i \in Items
  PROVE  LET me == worker[w]
             status == StatusAfter(me.result, me.attempt)
         IN  /\ me.item # i => row'[i] = row[i]
             /\ me.item = i =>
                  /\ \/ row'[i].status = row[i].status /\ status = me.loaded.status
                     \/ row'[i].status = status /\ status # me.loaded.status
                  /\ row'[i].external_post_id =
                       IF PostIdToStore(me) = me.loaded.external_post_id
                         THEN row[i].external_post_id ELSE PostIdToStore(me)
<1>1. row' = [row EXCEPT ![worker[w].item] =
                Flush(@, worker[w].loaded, Outcome(worker[w]))]
  BY DEF CommitItem
<1>2. /\ Outcome(worker[w]).status = StatusAfter(worker[w].result, worker[w].attempt)
      /\ Outcome(worker[w]).external_post_id = PostIdToStore(worker[w])
  BY DEF Outcome
<1> QED
  BY <1>1, <1>2 DEF Flush, TypeOK

(* A claim takes one row, which was in a status the worker selected.        *)
LEMMA ClaimEffect ==
  ASSUME TypeOK, NEW w \in Workers, ClaimCandidate(w)
  PROVE  \E j \in Items :
           /\ ClaimMatches(w, j)
           /\ row' = [row EXCEPT ![j].status = "PUBLISHING"]
           /\ worker'[w].item = j /\ worker'[w].pc = "check"
           /\ worker'[w].result = None /\ worker'[w].seen = Nothing
           /\ \A v \in Workers \ {w} : worker'[v] = worker[v]
<1>1. PICK j \in Items :
        /\ ClaimMatches(w, j)
        /\ row' = [row EXCEPT ![j].status = "PUBLISHING"]
        /\ worker' = [worker EXCEPT
             ![w].pc = "check",
             ![w].item = j,
             ![w].attempt = worker[w].seen[j].attempt_count + 1,
             ![w].seen = Nothing]
  BY DEF ClaimCandidate
<1>2. worker[w].result = None
  BY DEF ClaimCandidate, TypeOK, Consistent
<1>3. worker' = [worker EXCEPT ![w] =
        [worker[w] EXCEPT !.pc = "check", !.item = j,
                          !.attempt = worker[w].seen[j].attempt_count + 1,
                          !.seen = Nothing]]
  BY <1>1 DEF TypeOK
<1>4. /\ worker'[w].item = j /\ worker'[w].pc = "check"
      /\ worker'[w].result = None /\ worker'[w].seen = Nothing
      /\ \A v \in Workers \ {w} : worker'[v] = worker[v]
  BY <1>2, <1>3 DEF TypeOK, WorkerState
<1> QED
  BY <1>1, <1>4

-----------------------------------------------------------------------------
(* No row is stuck in PUBLISHING.                                           *)

(* Some worker holds the row and will write it: if that worker has loaded   *)
(* the row already, it has loaded the PUBLISHING it wrote, so its commit    *)
(* changes the status.                                                      *)
WillWrite(w, i) ==
  Holding(w, i) /\ (worker[w].pc = "commit" => worker[w].loaded.status = "PUBLISHING")

ClaimerHolds ==
  \A i \in Items \ stranded : row[i].status = "PUBLISHING" =>
    \E w \in Workers : WillWrite(w, i)

LEMMA ClaimerHoldsStep == TypeOK /\ ClaimerHolds /\ [Next]_vars => ClaimerHolds'
<1> SUFFICES ASSUME TypeOK, ClaimerHolds, [Next]_vars,
                    NEW i \in Items, i \notin stranded', row'[i].status = "PUBLISHING"
             PROVE  \E v \in Workers : WillWrite(v, i)'
  BY DEF ClaimerHolds
<1>0. ASSUME stranded \subseteq stranded', row[i].status = "PUBLISHING"
      PROVE  \E v \in Workers : WillWrite(v, i)
  BY <1>0 DEF ClaimerHolds
<1>1. ASSUME NEW w \in Workers, WorkerStep(w)
      PROVE  \E v \in Workers : WillWrite(v, i)'
  <2>0. stranded' = stranded
    BY <1>1 DEF WorkerStep, SelectDue, SleepUntilPoll, ClaimCandidate, ClaimNothing,
                CheckPublished, Preflight, PublishSucceeds, PublishFails,
                PublishUnacknowledged, RecordAttempt, LoadItem, CommitItem, vars, ghosts
  <2>1. CASE ClaimCandidate(w)
    <3>1. PICK j \in Items :
            /\ row' = [row EXCEPT ![j].status = "PUBLISHING"]
            /\ worker'[w].item = j /\ worker'[w].pc = "check"
            /\ \A v \in Workers \ {w} : worker'[v] = worker[v]
      BY <2>1, ClaimEffect
    <3>2. CASE i = j
      BY <3>1, <3>2 DEF WillWrite, Holding
    <3>3. CASE i # j
      <4>1. PICK v \in Workers : WillWrite(v, i)
        BY <1>0, <2>0, <3>1, <3>3 DEF TypeOK
      <4>2. v # w
        BY <2>1, <4>1, ConstantsAssumption
        DEF WillWrite, Holding, ClaimCandidate, TypeOK, Consistent
      <4> QED
        BY <3>1, <4>1, <4>2 DEF WillWrite, Holding
    <3> QED
      BY <3>2, <3>3
  <2>2. CASE LoadItem(w)
    <3>1. row' = row
      BY <2>2 DEF LoadItem, table
    <3>2. PICK v \in Workers : WillWrite(v, i)
      BY <1>0, <2>0, <3>1
    <3>3. CASE v = w
      BY <2>2, <3>1, <3>2, <3>3 DEF LoadItem, WillWrite, Holding, TypeOK, WorkerState
    <3>4. CASE v # w
      BY <2>2, <3>2, <3>4 DEF LoadItem, WillWrite, Holding, TypeOK
    <3> QED
      BY <3>3, <3>4
  <2>3. CASE CommitItem(w)
    <3> DEFINE me == worker[w]
    <3>1. StatusAfter(me.result, me.attempt) # "PUBLISHING"
      BY StatusAfterRange
    <3>2. row[i].status = "PUBLISHING" /\ ~ WillWrite(w, i)
      BY <2>3, <3>1, CommitItemRows DEF WillWrite, Holding, CommitItem
    <3>3. PICK v \in Workers : WillWrite(v, i) /\ v # w
      BY <1>0, <2>0, <3>2
    <3> QED
      BY <2>3, <3>3 DEF CommitItem, WillWrite, Holding, TypeOK
  <2>4. CASE SelectDue(w) \/ SleepUntilPoll(w) \/ ClaimNothing(w)
    <3>1. row' = row /\ worker[w].pc \in {"idle", "claim"}
      BY <2>4 DEF SelectDue, SleepUntilPoll, ClaimNothing, table, vars
    <3>2. PICK v \in Workers : WillWrite(v, i)
      BY <1>0, <2>0, <3>1
    <3>3. v # w
      BY <3>1, <3>2, ConstantsAssumption DEF WillWrite, Holding, TypeOK, Consistent
    <3> QED
      BY <2>4, <3>2, <3>3
      DEF SelectDue, SleepUntilPoll, ClaimNothing, WillWrite, Holding, TypeOK, vars
  <2>5. CASE CheckPublished(w) \/ Preflight(w) \/ PublishSucceeds(w) \/ PublishFails(w)
             \/ PublishUnacknowledged(w) \/ RecordAttempt(w)
    <3>1. row' = row
      BY <2>5 DEF CheckPublished, Preflight, PublishSucceeds, PublishFails,
                  PublishUnacknowledged, RecordAttempt, table
    <3>2. /\ worker'[w].item = worker[w].item /\ worker'[w].pc # "commit"
          /\ \A v \in Workers \ {w} : worker'[v] = worker[v]
      BY <2>5 DEF CheckPublished, Preflight, PublishSucceeds, PublishFails,
                  PublishUnacknowledged, RecordAttempt, TypeOK, WorkerState
    <3> QED
      BY <1>0, <2>0, <3>1, <3>2 DEF WillWrite, Holding
  <2> QED
    BY <1>1, <2>1, <2>2, <2>3, <2>4, <2>5 DEF WorkerStep
<1>2. ASSUME NEW w \in Workers, WorkerFault(w)
      PROVE  \E v \in Workers : WillWrite(v, i)'
  <2>1. row' = row /\ stranded \subseteq stranded'
    BY <1>2 DEF WorkerFault, WorkerDbError, WorkerCrash, table
  <2>2. PICK v \in Workers : WillWrite(v, i)
    BY <1>0, <2>1
  <2>3. CASE v # w
    BY <1>2, <2>2, <2>3
    DEF WorkerFault, WorkerDbError, WorkerCrash, WillWrite, Holding, TypeOK
  <2>4. CASE v = w
    <3>1. worker[w].item = i /\ worker[w].pc # "claim"
      BY <2>2, <2>4, ConstantsAssumption DEF WillWrite, Holding, TypeOK, Consistent
    <3>2. WorkerDbError(w) /\ worker[w].result # "INTERNAL"
      BY <1>2, <3>1, ConstantsAssumption DEF WorkerFault, WorkerDbError, WorkerCrash
    <3> QED
      BY <3>1, <3>2 DEF WorkerDbError, WillWrite, Holding, TypeOK, WorkerState
  <2> QED
    BY <2>3, <2>4
<1>3. ASSUME worker' = worker, stranded' = stranded, row[i].status = "PUBLISHING"
      PROVE  \E v \in Workers : WillWrite(v, i)'
  BY <1>0, <1>3 DEF WillWrite, Holding
<1>4. ASSUME NEW c \in Clients, RequestStep(c)
      PROVE  row[i].status = "PUBLISHING" /\ worker' = worker /\ stranded' = stranded
  <2>1. CASE CommitRequest(c)
    BY <2>1, CommitRequestRows DEF CommitRequest
  <2>2. CASE ~ CommitRequest(c)
    BY <1>4, <2>2
    DEF RequestStep, LoadForRequest, LoadForResume, AbortRequest, PauseJob, table, ghosts, TypeOK, Row
  <2> QED
    BY <2>1, <2>2
<1>5. ASSUME NEW j \in Items, TimePasses(j)
      PROVE  row[i].status = "PUBLISHING" /\ worker' = worker /\ stranded' = stranded
  BY <1>5 DEF TimePasses, ghosts, TypeOK, Row
<1>6. CASE UNCHANGED vars
  BY <1>3, <1>6 DEF vars
<1> QED
  BY <1>1, <1>2, <1>3, <1>4, <1>5, <1>6 DEF Next

(* Only a crash or a failing write strands a row in PUBLISHING: whatever    *)
(* requests and workers write over each other, somebody holds the row.      *)
THEOREM InFlight == Spec => []InFlightIsHeld
<1>1. Init => ClaimerHolds
  BY DEF Init, ClaimerHolds
<1>2. ClaimerHolds => InFlightIsHeld
  BY DEF ClaimerHolds, InFlightIsHeld, WillWrite
<1> QED
  BY <1>1, <1>2, TypeCorrect, ClaimerHoldsStep, PTL DEF Spec

-----------------------------------------------------------------------------
(* A resting row is only woken by somebody entitled to. *)

(* A worker's steps other than claim and commit are local: they change      *)
(* neither a row nor who holds what.                                        *)
LEMMA LocalSteps ==
  ASSUME TypeOK, NEW w \in Workers, WorkerStep(w), ~ ClaimCandidate(w), ~ CommitItem(w)
  PROVE  /\ row' = row /\ reopened' = reopened
         /\ worker'[w].item = worker[w].item
         /\ \A v \in Workers \ {w} : worker'[v] = worker[v]
<1>1. CASE SelectDue(w) \/ SleepUntilPoll(w) \/ ClaimNothing(w)
  BY <1>1 DEF SelectDue, SleepUntilPoll, ClaimNothing, IdleWorker, table, ghosts, vars,
              TypeOK, WorkerState, Consistent
<1>2. CASE ~ (SelectDue(w) \/ SleepUntilPoll(w) \/ ClaimNothing(w))
  BY <1>2 DEF WorkerStep, CheckPublished, Preflight, PublishSucceeds, PublishFails,
              PublishUnacknowledged, RecordAttempt, LoadItem, table, ghosts,
              TypeOK, WorkerState
<1> QED
  BY <1>1, <1>2

(* A worker that fails changes no row and at most lets its item go.         *)
LEMMA FaultEffect ==
  ASSUME TypeOK, NEW w \in Workers, WorkerFault(w)
  PROVE  /\ row' = row /\ reopened' = reopened
         /\ worker'[w].item \in {worker[w].item, None}
         /\ \A v \in Workers \ {w} : worker'[v] = worker[v]
BY DEF WorkerFault, WorkerDbError, WorkerCrash, IdleWorker, table, TypeOK, WorkerState

(* Every candidate of a worker was in a due status when it was selected.    *)
Selected ==
  \A w \in Workers, i \in Items :
    worker[w].seen[i] # None => worker[w].seen[i].status \in DueStatuses

LEMMA SelectedStep == TypeOK /\ Selected /\ [Next]_vars => Selected'
<1> SUFFICES ASSUME TypeOK, Selected, [Next]_vars, NEW v \in Workers, NEW i \in Items,
                    worker'[v].seen[i] # None
             PROVE  worker'[v].seen[i].status \in DueStatuses
  BY DEF Selected
<1>0. IdleWorker.seen = Nothing
  BY DEF IdleWorker
<1>1. ASSUME worker'[v].seen = worker[v].seen \/ worker'[v].seen = Nothing
      PROVE  worker'[v].seen[i].status \in DueStatuses
  BY <1>1 DEF Selected, Nothing
<1>2. ASSUME NEW w \in Workers, WorkerStep(w), ~ SelectDue(w)
      PROVE  worker'[v].seen = worker[v].seen \/ worker'[v].seen = Nothing
  <2>1. CASE ClaimCandidate(w)
    BY <2>1, ClaimEffect
  <2>2. CASE ClaimNothing(w) \/ CommitItem(w)
    BY <1>0, <2>2 DEF ClaimNothing, CommitItem, TypeOK
  <2>3. CASE SleepUntilPoll(w)
    BY <2>3 DEF SleepUntilPoll, vars
  <2>4. CASE CheckPublished(w) \/ Preflight(w) \/ PublishSucceeds(w) \/ PublishFails(w)
             \/ PublishUnacknowledged(w) \/ RecordAttempt(w) \/ LoadItem(w)
    <3>1. worker'[w].seen = worker[w].seen
      BY <2>4 DEF CheckPublished, Preflight, PublishSucceeds, PublishFails,
                  PublishUnacknowledged, RecordAttempt, LoadItem, TypeOK, WorkerState
    <3>2. v # w => worker'[v] = worker[v]
      BY <1>2, <2>4, LocalSteps DEF CheckPublished, Preflight, PublishSucceeds,
         PublishFails, PublishUnacknowledged, RecordAttempt, LoadItem, ClaimCandidate, CommitItem
    <3> QED
      BY <3>1, <3>2
  <2> QED
    BY <1>2, <2>1, <2>2, <2>3, <2>4 DEF WorkerStep
<1>3. ASSUME NEW w \in Workers, SelectDue(w)
      PROVE  worker'[v].seen[i].status \in DueStatuses
  <2>1. PICK S \in SUBSET {j \in Items : IsDue(j)} :
          worker' = [worker EXCEPT
            ![w].pc = "claim",
            ![w].seen = [j \in Items |-> IF j \in S THEN row[j] ELSE None]]
    BY <1>3 DEF SelectDue
  <2>2. CASE v # w
    BY <1>1, <2>1, <2>2 DEF TypeOK
  <2>3. CASE v = w
    <3>1. worker'[v].seen = [j \in Items |-> IF j \in S THEN row[j] ELSE None]
      BY <2>1, <2>3 DEF TypeOK, WorkerState
    <3>2. i \in S /\ worker'[v].seen[i] = row[i]
      BY <3>1
    <3> QED
      BY <3>2 DEF IsDue
  <2> QED
    BY <2>2, <2>3
<1>4. ASSUME NEW w \in Workers, WorkerFault(w)
      PROVE  worker'[v].seen = worker[v].seen \/ worker'[v].seen = Nothing
  <2>1. CASE worker' = [worker EXCEPT ![w] = IdleWorker]
    BY <1>0, <2>1 DEF TypeOK
  <2>2. CASE worker' # [worker EXCEPT ![w] = IdleWorker]
    BY <1>4, <2>2 DEF WorkerFault, WorkerDbError, WorkerCrash, TypeOK, WorkerState
  <2> QED
    BY <2>1, <2>2
<1>5. ASSUME \/ \E c \in Clients : RequestStep(c)
             \/ \E j \in Items : TimePasses(j)
             \/ UNCHANGED vars
      PROVE  worker'[v].seen = worker[v].seen
  BY <1>5 DEF RequestStep, LoadForRequest, LoadForResume, CommitRequest, AbortRequest,
              PauseJob, TimePasses, vars
<1> QED
  BY <1>1, <1>2, <1>3, <1>4, <1>5 DEF Next

(* One step, seen from a row that is at rest before it.                     *)
LEMMA RestStep ==
  ASSUME TypeOK, Selected, [Next]_vars, NEW i \in Items,
         row[i].status \notin DueStatuses \cup {"PUBLISHING"},
         row'[i].status # row[i].status
  PROVE  \/ \E c \in Clients : request[c].loaded[i] # None /\ request'[c].op = None
         \/ \E w \in Workers : Holding(w, i) /\ worker'[w].pc = "idle"
<1>1. ASSUME NEW w \in Workers, WorkerStep(w)
      PROVE  \E v \in Workers : Holding(v, i) /\ worker'[v].pc = "idle"
  <2>1. CASE ClaimCandidate(w)
    <3>1. PICK j \in Items : /\ ClaimMatches(w, j)
                             /\ row' = [row EXCEPT ![j].status = "PUBLISHING"]
      BY <2>1, ClaimEffect
    <3>2. i = j
      BY <3>1 DEF TypeOK
    <3> QED
      BY <3>1, <3>2 DEF ClaimMatches, Selected
  <2>2. CASE CommitItem(w)
    <3>1. worker[w].item = i
      BY <2>2, CommitItemRows
    <3> QED
      BY <2>2, <3>1 DEF CommitItem, IdleWorker, Holding, TypeOK
  <2>3. CASE ~ ClaimCandidate(w) /\ ~ CommitItem(w)
    BY <1>1, <2>3, LocalSteps
  <2> QED
    BY <2>1, <2>2, <2>3
<1>2. ASSUME NEW w \in Workers, WorkerFault(w) PROVE FALSE
  BY <1>2, FaultEffect
<1>3. ASSUME NEW c \in Clients, RequestStep(c)
      PROVE  request[c].loaded[i] # None /\ request'[c].op = None
  <2>1. CASE CommitRequest(c)
    BY <2>1, CommitRequestRows DEF CommitRequest, IdleRequest, TypeOK
  <2>2. CASE PauseJob(c)
    BY <2>2 DEF PauseJob
  <2>3. CASE ~ CommitRequest(c) /\ ~ PauseJob(c)
    BY <1>3, <2>3 DEF RequestStep, LoadForRequest, LoadForResume, AbortRequest, table
  <2> QED
    BY <2>1, <2>2, <2>3
<1>4. ASSUME NEW j \in Items, TimePasses(j) PROVE FALSE
  BY <1>4 DEF TimePasses, TypeOK, Row
<1>5. ~ UNCHANGED vars
  BY DEF vars
<1> QED
  BY <1>1, <1>2, <1>3, <1>4, <1>5 DEF Next

(* A pause, a cancellation or an outcome stands until a request that loaded *)
(* the row, or a worker already holding it, writes: stale candidates of any *)
(* worker are refused by the claim.                                         *)
THEOREM RestsUntilAskedHolds == Spec => RestsUntilAsked
<1>1. Init => Selected
  BY DEF Init, Selected, IdleWorker, Nothing
<1>2. TypeOK /\ Selected /\ [Next]_vars =>
        [\A i \in Items :
           (row[i].status \notin DueStatuses \cup {"PUBLISHING"} /\ row'[i].status # row[i].status)
           => \/ \E c \in Clients : request[c].loaded[i] # None /\ request'[c].op = None
              \/ \E w \in Workers : Holding(w, i) /\ worker'[w].pc = "idle"]_vars
  BY RestStep
<1> QED
  BY <1>1, <1>2, TypeCorrect, SelectedStep, PTL DEF Spec, RestsUntilAsked

-----------------------------------------------------------------------------
(* One holder, unless a request reopened the item. *)

(* An item nobody reopened is either claimable or held, never both, and     *)
(* never held twice.                                                        *)
OneToken ==
  \A i \in Items : reopened[i] = 0 =>
    /\ \A v, w \in Workers : Holding(v, i) /\ Holding(w, i) => v = w
    /\ row[i].status \in Claimable => \A w \in Workers : ~ Holding(w, i)

LEMMA OneTokenStep == TypeOK /\ Selected /\ OneToken /\ [Next]_vars => OneToken'
<1> SUFFICES ASSUME TypeOK, Selected, OneToken, [Next]_vars,
                    NEW i \in Items, reopened'[i] = 0
             PROVE  /\ \A u, v \in Workers :
                         worker'[u].item = i /\ worker'[v].item = i => u = v
                    /\ row'[i].status \in Claimable =>
                         \A v \in Workers : worker'[v].item # i
  BY DEF OneToken, Holding
<1>0. ASSUME reopened[i] = 0
      PROVE  /\ \A u, v \in Workers : worker[u].item = i /\ worker[v].item = i => u = v
             /\ row[i].status \in Claimable => \A v \in Workers : worker[v].item # i
  BY <1>0 DEF OneToken, Holding
<1>1. ASSUME NEW w \in Workers, WorkerStep(w)
      PROVE  /\ \A u, v \in Workers :
                  worker'[u].item = i /\ worker'[v].item = i => u = v
             /\ row'[i].status \in Claimable => \A v \in Workers : worker'[v].item # i
  <2>1. CASE ClaimCandidate(w)
    <3>1. PICK j \in Items :
            /\ ClaimMatches(w, j)
            /\ row' = [row EXCEPT ![j].status = "PUBLISHING"]
            /\ worker'[w].item = j
            /\ \A v \in Workers \ {w} : worker'[v] = worker[v]
      BY <2>1, ClaimEffect
    <3>2. reopened[i] = 0
      BY <2>1 DEF ClaimCandidate, ghosts
    <3>3. row[j].status \in Claimable
      BY <3>1 DEF ClaimMatches, Selected, Claimable
    <3>4. row'[j].status \notin Claimable /\ (i # j => row'[i] = row[i])
      BY <3>1 DEF Claimable, DueStatuses, TypeOK, Row
    <3> QED
      BY <1>0, <3>1, <3>2, <3>3, <3>4
  <2>2. CASE CommitItem(w)
    <3>1. reopened[i] = 0 /\ worker'[w].item = None
      BY <2>2 DEF CommitItem, IdleWorker, ghosts, TypeOK
    <3>2. \A v \in Workers \ {w} : worker'[v] = worker[v]
      BY <2>2 DEF CommitItem
    <3>3. worker[w].item # i => row'[i] = row[i]
      BY <2>2, CommitItemRows
    <3>4. None # i
      BY ConstantsAssumption
    <3> QED
      BY <1>0, <3>1, <3>2, <3>3, <3>4
  <2>3. CASE ~ ClaimCandidate(w) /\ ~ CommitItem(w)
    BY <1>0, <1>1, <2>3, LocalSteps
  <2> QED
    BY <2>1, <2>2, <2>3
<1>2. ASSUME NEW w \in Workers, WorkerFault(w)
      PROVE  /\ \A u, v \in Workers :
                  worker'[u].item = i /\ worker'[v].item = i => u = v
             /\ row'[i].status \in Claimable => \A v \in Workers : worker'[v].item # i
  BY <1>0, <1>2, FaultEffect, ConstantsAssumption
<1>3. ASSUME NEW c \in Clients, CommitRequest(c)
      PROVE  /\ \A u, v \in Workers :
                  worker'[u].item = i /\ worker'[v].item = i => u = v
             /\ row'[i].status \in Claimable => \A v \in Workers : worker'[v].item # i
  <2>1. /\ worker' = worker
        /\ reopened'[i] = IF row'[i].status = "WAITING" /\ Reopens(i)
                            THEN reopened[i] + 1 ELSE reopened[i]
    BY <1>3 DEF CommitRequest
  <2>2. reopened[i] = 0 /\ ~ (row'[i].status = "WAITING" /\ Reopens(i))
    BY <2>1 DEF TypeOK
  <2>3. row'[i].status \in Claimable /\ row[i].status \notin Claimable =>
          row'[i].status = "WAITING"
    BY <1>3, CommitRequestRows DEF Claimable, DueStatuses
  <2> QED
    BY <1>0, <2>1, <2>2, <2>3 DEF Reopens, Holding
<1>4. ASSUME NEW c \in Clients, RequestStep(c), ~ CommitRequest(c)
      PROVE  /\ worker' = worker /\ reopened' = reopened
             /\ row'[i].status \in Claimable => row[i].status \in Claimable
  BY <1>4 DEF RequestStep, LoadForRequest, LoadForResume, AbortRequest, PauseJob,
              Claimable, table, ghosts
<1>5. ASSUME NEW j \in Items, TimePasses(j)
      PROVE  /\ worker' = worker /\ reopened' = reopened
             /\ row'[i].status = row[i].status
  BY <1>5 DEF TimePasses, ghosts, TypeOK, Row
<1>6. CASE UNCHANGED vars
  BY <1>0, <1>6 DEF vars
<1> QED
  BY <1>0, <1>1, <1>2, <1>3, <1>4, <1>5, <1>6 DEF Next

(* The claim hands an item to one worker at a time, unless a request wrote  *)
(* WAITING over a row that was posted or in a worker's hands.               *)
THEOREM OneHolderHolds == Spec => []OneHolder
<1>1. Init => OneToken /\ Selected
  BY ConstantsAssumption
  DEF Init, OneToken, Selected, IdleWorker, Nothing, Holding
<1>2. OneToken => OneHolder
  BY DEF OneToken, OneHolder
<1> QED
  BY <1>1, <1>2, TypeCorrect, SelectedStep, OneTokenStep, PTL DEF Spec

-----------------------------------------------------------------------------
(* PUBLISHED is backed by a post. *)

(* What the worker knows of the post it made.  The last conjunct is about   *)
(* the lost update: a commit that finds its own post id in the row it loaded*)
(* does not write it again, and may rely on an id being there.              *)
Knows(w, i) ==
  /\ worker[w].result = "SUCCESS" => worker[w].post_id \in 1 .. posts[i]
  /\ worker[w].result = "SUCCESS" /\ worker[w].pc \in {"load", "commit"} =>
       "SUCCESS" \in attempts[i]
  /\ worker[w].pc = "commit" /\ worker[w].loaded.external_post_id > 0 =>
       row[i].external_post_id > 0

Evidence ==
  \A i \in Items :
    /\ row[i].external_post_id <= posts[i]
    /\ row[i].status = "PUBLISHED" =>
         "SUCCESS" \in attempts[i] /\ row[i].external_post_id > 0
    /\ \A w \in Workers : Holding(w, i) => Knows(w, i)

(* A worker step that does not commit only adds evidence, and does not      *)
(* change a row other than by a claim.                                      *)
LEMMA EvidenceGrows ==
  ASSUME TypeOK, NEW w \in Workers, WorkerStep(w), ~ CommitItem(w), NEW i \in Items
  PROVE  /\ posts[i] <= posts'[i] /\ attempts[i] \subseteq attempts'[i]
         /\ row'[i].external_post_id = row[i].external_post_id
         /\ row'[i].status \in {row[i].status, "PUBLISHING"}
<1>1. CASE ClaimCandidate(w)
  <2>1. PICK j \in Items : row' = [row EXCEPT ![j].status = "PUBLISHING"]
    BY <1>1, ClaimEffect
  <2> QED
    BY <1>1, <2>1 DEF ClaimCandidate, ghosts, TypeOK, Row
<1>2. CASE ~ ClaimCandidate(w)
  <2>1. row' = row
    BY <1>2, LocalSteps
  <2>2. posts[i] <= posts'[i] /\ attempts[i] \subseteq attempts'[i]
    BY <1>2 DEF WorkerStep, SelectDue, SleepUntilPoll, ClaimNothing, CheckPublished,
       Preflight, PublishSucceeds, PublishFails, PublishUnacknowledged, RecordAttempt,
       LoadItem, table, ghosts, vars, TypeOK
  <2> QED
    BY <2>1, <2>2
<1> QED
  BY <1>1, <1>2

LEMMA EvidenceStep == TypeOK /\ Evidence /\ [Next]_vars => Evidence'
<1> SUFFICES ASSUME TypeOK, TypeOK', Evidence, [Next]_vars, NEW i \in Items
             PROVE  /\ row'[i].external_post_id <= posts'[i]
                    /\ row'[i].status = "PUBLISHED" =>
                         "SUCCESS" \in attempts'[i] /\ row'[i].external_post_id > 0
                    /\ \A v \in Workers : worker'[v].item = i => Knows(v, i)'
  BY NextType DEF Evidence, Holding
<1> DEFINE Shown == /\ row'[i].external_post_id <= posts'[i]
                    /\ row'[i].status = "PUBLISHED" =>
                         "SUCCESS" \in attempts'[i] /\ row'[i].external_post_id > 0
<1>0. /\ row[i].external_post_id <= posts[i]
      /\ row[i].status = "PUBLISHED" =>
           "SUCCESS" \in attempts[i] /\ row[i].external_post_id > 0
      /\ \A v \in Workers : worker[v].item = i => Knows(v, i)
      /\ posts[i] \in Nat /\ posts'[i] \in Nat
      /\ row[i].external_post_id \in Nat
  BY DEF Evidence, Holding, TypeOK, Row
<1>a. ASSUME posts[i] <= posts'[i], attempts[i] \subseteq attempts'[i],
             row[i].external_post_id > 0 => row'[i].external_post_id > 0,
             NEW v \in Workers, worker'[v] = worker[v], worker'[v].item = i
      PROVE  Knows(v, i)'
  <2>1. worker[v].post_id \in Nat
    BY DEF TypeOK, WorkerState
  <2> QED
    BY <1>0, <1>a, <2>1 DEF Knows
<1>1. ASSUME NEW w \in Workers, WorkerStep(w), ~ CommitItem(w)
      PROVE  Shown /\ \A v \in Workers : worker'[v].item = i => Knows(v, i)'
  <2>1. /\ posts[i] <= posts'[i] /\ attempts[i] \subseteq attempts'[i]
        /\ row'[i].external_post_id = row[i].external_post_id
        /\ row'[i].status \in {row[i].status, "PUBLISHING"}
    BY <1>1, EvidenceGrows
  <2>2. Shown
    BY <1>0, <2>1
  <2>3. \A v \in Workers \ {w} : worker'[v] = worker[v]
    BY <1>1, ClaimEffect, LocalSteps
  <2>4. worker'[w].item = i => Knows(w, i)'
    <3> SUFFICES ASSUME worker'[w].item = i PROVE Knows(w, i)'
      OBVIOUS
    <3>1. CASE ClaimCandidate(w)
      <4>1. worker'[w].result = None /\ worker'[w].pc = "check"
        BY <3>1, ClaimEffect
      <4> QED
        BY <4>1, ConstantsAssumption DEF Knows, Result, ProviderResult
    <3>2. CASE SelectDue(w) \/ SleepUntilPoll(w) \/ ClaimNothing(w)
      <4>1. worker[w].item = i
        BY <1>1, <3>2, LocalSteps DEF SelectDue, SleepUntilPoll, ClaimNothing,
           ClaimCandidate, CommitItem
      <4> QED
        BY <3>2, <4>1, ConstantsAssumption
        DEF SelectDue, SleepUntilPoll, ClaimNothing, TypeOK, Consistent
    <3>3. CASE CheckPublished(w) \/ Preflight(w)
      <4>1. worker'[w].pc \in {"load", "validate", "publish"} /\ worker'[w].result # "SUCCESS"
        BY <3>3, ConstantsAssumption
        DEF CheckPublished, Preflight, TypeOK, WorkerState, Consistent, PrePost,
            Result, ProviderResult
      <4> QED
        BY <4>1 DEF Knows
    <3>4. CASE PublishSucceeds(w)
      <4>1. /\ worker[w].item = i /\ worker'[w].pc = "record"
            /\ worker'[w].post_id = posts[i] + 1
            /\ posts' = [posts EXCEPT ![i] = @ + 1]
        BY <3>4 DEF PublishSucceeds, TypeOK, WorkerState
      <4> QED
        BY <1>0, <4>1 DEF Knows, TypeOK
    <3>5. CASE PublishFails(w) \/ PublishUnacknowledged(w)
      <4>1. worker'[w].pc = "record" /\ worker'[w].result # "SUCCESS"
        BY <3>5 DEF PublishFails, PublishUnacknowledged, ErrorClass, TypeOK, WorkerState
      <4> QED
        BY <4>1 DEF Knows
    <3>6. CASE RecordAttempt(w)
      <4>1. /\ worker[w].item = i /\ worker'[w].pc = "load"
            /\ worker'[w].result = worker[w].result
            /\ worker'[w].post_id = worker[w].post_id
            /\ posts'[i] = posts[i]
            /\ worker[w].result = "SUCCESS" => "SUCCESS" \in attempts'[i]
        BY <3>6 DEF RecordAttempt, ghosts, TypeOK, WorkerState
      <4> QED
        BY <1>0, <4>1 DEF Knows
    <3>7. CASE LoadItem(w)
      <4>1. /\ worker[w].item = i /\ worker[w].pc = "load"
            /\ worker'[w].result = worker[w].result
            /\ worker'[w].post_id = worker[w].post_id
            /\ worker'[w].loaded = row[i]
            /\ posts'[i] = posts[i] /\ attempts'[i] = attempts[i]
        BY <3>7 DEF LoadItem, table, ghosts, TypeOK, WorkerState
      <4> QED
        BY <1>0, <2>1, <4>1 DEF Knows
    <3> QED
      BY <1>1, <3>1, <3>2, <3>3, <3>4, <3>5, <3>6, <3>7 DEF WorkerStep
  <2> QED
    BY <1>a, <2>1, <2>2, <2>3, <2>4
<1>2. ASSUME NEW w \in Workers, CommitItem(w)
      PROVE  Shown /\ \A v \in Workers : worker'[v].item = i => Knows(v, i)'
  <2> DEFINE me == worker[w]
             status == StatusAfter(me.result, me.attempt)
  <2>1. /\ posts' = posts /\ attempts' = attempts
        /\ worker'[w].item = None
        /\ \A v \in Workers \ {w} : worker'[v] = worker[v]
    BY <1>2 DEF CommitItem, ghosts, IdleWorker, TypeOK
  <2>2. CASE me.item # i
    <3>1. row'[i] = row[i]
      BY <1>2, <2>2, CommitItemRows
    <3> QED
      BY <1>0, <1>a, <2>1, <3>1, ConstantsAssumption
  <2>3. CASE me.item = i
    <3>1. /\ \/ row'[i].status = row[i].status
             \/ row'[i].status = status
          /\ row'[i].external_post_id =
               IF PostIdToStore(me) = me.loaded.external_post_id
                 THEN row[i].external_post_id ELSE PostIdToStore(me)
      BY <1>2, <2>3, CommitItemRows
    <3>2. Knows(w, i) /\ me.pc = "commit" /\ me.loaded.external_post_id \in Nat
      BY <1>0, <1>2, <2>3 DEF CommitItem, TypeOK, WorkerState, Consistent, Row
    <3>3. CASE me.result = "SUCCESS"
      <4>1. PostIdToStore(me) = me.post_id /\ me.post_id \in 1 .. posts[i]
        BY <3>2, <3>3 DEF Knows, PostIdToStore
      <4>2. row'[i].external_post_id \in 1 .. posts[i] /\ "SUCCESS" \in attempts[i]
        BY <1>0, <3>1, <3>2, <3>3, <4>1 DEF Knows
      <4> QED
        BY <1>0, <1>a, <2>1, <4>2, ConstantsAssumption
    <3>4. CASE me.result # "SUCCESS"
      <4>1. row'[i].external_post_id = row[i].external_post_id
        BY <3>1, <3>4 DEF PostIdToStore
      <4>2. status # "PUBLISHED"
        BY <3>4, StatusAfterRange
      <4> QED
        BY <1>0, <1>a, <2>1, <3>1, <4>1, <4>2, ConstantsAssumption
    <3> QED
      BY <3>3, <3>4
  <2> QED
    BY <2>2, <2>3
<1>3. ASSUME NEW w \in Workers, WorkerFault(w)
      PROVE  Shown /\ \A v \in Workers : worker'[v].item = i => Knows(v, i)'
  <2>1. /\ row' = row /\ posts' = posts /\ attempts' = attempts
        /\ \A v \in Workers \ {w} : worker'[v] = worker[v]
    BY <1>3, FaultEffect DEF WorkerFault, WorkerDbError, WorkerCrash, table
  <2>2. worker'[w].item = None \/ (worker'[w].pc = "load" /\ worker'[w].result = "INTERNAL")
    BY <1>3 DEF WorkerFault, WorkerDbError, WorkerCrash, IdleWorker, TypeOK, WorkerState
  <2> QED
    BY <1>0, <1>a, <2>1, <2>2, ConstantsAssumption DEF Knows
<1>4. ASSUME /\ worker' = worker /\ posts' = posts /\ attempts' = attempts
             /\ row'[i].external_post_id = row[i].external_post_id
             /\ row'[i].status = "PUBLISHED" => row[i].status = "PUBLISHED"
      PROVE  Shown /\ \A v \in Workers : worker'[v].item = i => Knows(v, i)'
  BY <1>0, <1>4, <1>a
<1>5. ASSUME NEW c \in Clients, RequestStep(c)
      PROVE  /\ worker' = worker /\ posts' = posts /\ attempts' = attempts
             /\ row'[i].external_post_id = row[i].external_post_id
             /\ row'[i].status = "PUBLISHED" => row[i].status = "PUBLISHED"
  <2>1. CASE CommitRequest(c)
    BY <2>1, CommitRequestRows DEF CommitRequest
  <2>2. CASE ~ CommitRequest(c)
    BY <1>5, <2>2 DEF RequestStep, LoadForRequest, LoadForResume, AbortRequest, PauseJob,
                      table, ghosts, TypeOK, Row
  <2> QED
    BY <2>1, <2>2
<1>6. ASSUME NEW j \in Items, TimePasses(j)
      PROVE  /\ worker' = worker /\ posts' = posts /\ attempts' = attempts
             /\ row'[i].external_post_id = row[i].external_post_id
             /\ row'[i].status = "PUBLISHED" => row[i].status = "PUBLISHED"
  BY <1>6 DEF TimePasses, ghosts, TypeOK, Row
<1>7. CASE UNCHANGED vars
  BY <1>4, <1>7 DEF vars
<1> QED
  BY <1>1, <1>2, <1>3, <1>4, <1>5, <1>6, <1>7 DEF Next

(* A row says PUBLISHED only of an item that is live on its platform under  *)
(* the id the row carries, with a successful attempt on record.             *)
THEOREM PublishedPosted == Spec => []PublishedWasPosted
<1>1. Init => Evidence
  <2> SUFFICES ASSUME Init, NEW i \in Items
               PROVE  /\ row[i].external_post_id = 0 /\ posts[i] = 0
                      /\ row[i].status # "PUBLISHED"
                      /\ \A w \in Workers : ~ Holding(w, i)
    BY DEF Evidence
  <2> QED
    BY ConstantsAssumption DEF Init, IdleWorker, Holding
<1>2. TypeOK /\ Evidence => PublishedWasPosted
  BY DEF TypeOK, Row, Evidence, PublishedWasPosted
<1> QED
  BY <1>1, <1>2, TypeCorrect, EvidenceStep, PTL DEF Spec

-----------------------------------------------------------------------------
(* What a retry may rely on: the attempts of an item are counted, and an    *)
(* item at rest that retry_item accepts is not live on its platform.  Both  *)
(* rest on what can become of a row while its only holder works on it       *)
(* (Held): it says PUBLISHING, or a request wrote CANCELLED over that, so   *)
(* that the commit of the holder is a change of status.                     *)
InHand == {"PUBLISHING", "CANCELLED"}

Held ==
  \A i \in Items, w \in Workers : reopened[i] = 0 /\ Holding(w, i) =>
    /\ row[i].status \in InHand
    /\ worker[w].pc = "commit" =>
         /\ worker[w].loaded.status \in InHand
         /\ row[i].attempt_count \in {worker[w].loaded.attempt_count, 0}

(* Nothing was lost that could tell the database of a post of the item.     *)
Told(i) == reopened[i] = 0 /\ unknown[i] = 0 /\ i \notin stranded /\ spent.db = 0

Announced ==
  \A i \in Items : Told(i) /\ posts[i] > 0 =>
    /\ \A w \in Workers : Holding(w, i) => worker[w].result = "SUCCESS"
    /\ (\A w \in Workers : ~ Holding(w, i)) => row[i].status \in {"PUBLISHED", "CANCELLED"}

-----------------------------------------------------------------------------
(* What each kind of step does. *)

(* Requests and the clock leave the workers alone.  They cancel a row, or   *)
(* move it between the statuses it is claimed from, or wake one that no     *)
(* worker has and that was not posted, unless they reopen it; and the only  *)
(* count a request writes is 0.                                             *)
Outside(i) ==
  /\ worker' = worker /\ posts' = posts /\ unknown' = unknown /\ stranded' = stranded
  /\ reopened[i] = 0 /\ (spent'.db = 0 => spent.db = 0)
  /\ row'[i].attempt_count \in {row[i].attempt_count, 0}
  /\ \/ row'[i].status \in {row[i].status, "CANCELLED"}
     \/ /\ row'[i].status \in {"WAITING", "PAUSED"}
        /\ row[i].status \in Claimable \/ (posts[i] = 0 /\ \A w \in Workers : ~ Holding(w, i))

LEMMA CommitRequestCounts ==
  ASSUME TypeOK, NEW c \in Clients, CommitRequest(c), NEW i \in Items
  PROVE  row'[i].attempt_count \in {row[i].attempt_count, 0}
<1> DEFINE op == request[c].op
           touched == {j \in Items : request[c].loaded[j] # None}
<1>1. PICK first \in Earliest(request[c].loaded, touched) :
        row' = [j \in Items |->
           IF j \in touched
             THEN LET ld == request[c].loaded[j]
                  IN  Flush(row[j], ld, Requested(op, ld, j.clip = first.clip))
             ELSE row[j]]
  BY DEF CommitRequest
<1>2. CASE i \notin touched
  BY <1>1, <1>2
<1>3. CASE i \in touched
  <2> DEFINE isFirst == i.clip = first.clip
             ld == request[c].loaded[i]
             new == Requested(op, ld, isFirst)
  <2>1. ld \in Row
    BY <1>3 DEF TypeOK, RequestState
  <2>2. row'[i] = Flush(row[i], ld, new)
    BY <1>1, <1>3
  <2>3. new.attempt_count \in {ld.attempt_count, 0}
    BY <2>1 DEF Requested, Row
  <2> HIDE DEF new, ld
  <2> QED
    BY <2>2, <2>3 DEF Flush
<1> QED
  BY <1>2, <1>3

LEMMA RequestIsOutside ==
  ASSUME TypeOK, NEW c \in Clients, RequestStep(c), NEW i \in Items, reopened'[i] = 0
  PROVE  Outside(i)
<1>0. reopened[i] \in Nat /\ spent.db \in Nat /\ row[i] \in Row
  BY DEF TypeOK
<1>1. CASE CommitRequest(c)
  <2>1. /\ worker' = worker /\ posts' = posts /\ unknown' = unknown
        /\ stranded' = stranded /\ spent' = spent
        /\ reopened'[i] = IF row'[i].status = "WAITING" /\ Reopens(i)
                            THEN reopened[i] + 1 ELSE reopened[i]
    BY <1>1 DEF CommitRequest
  <2>2. reopened[i] = 0 /\ ~ (row'[i].status = "WAITING" /\ Reopens(i))
    BY <1>0, <2>1
  <2>3. posts[i] \in Nat
    BY DEF TypeOK
  <2>4. row'[i].status \in {row[i].status, "WAITING", "CANCELLED"}
    BY <1>1, CommitRequestRows
  <2>5. row'[i].attempt_count \in {row[i].attempt_count, 0}
    BY <1>1, CommitRequestCounts
  <2> QED
    BY <2>1, <2>2, <2>3, <2>4, <2>5 DEF Outside, Reopens
<1>2. CASE PauseJob(c)
  <2>1. /\ worker' = worker /\ posts' = posts /\ unknown' = unknown
        /\ stranded' = stranded /\ reopened' = reopened /\ spent'.db = spent.db
    BY <1>2 DEF PauseJob, StartRequest, ghosts, TypeOK
  <2>2. \/ row'[i] = row[i]
        \/ row[i].status \in DueStatuses /\ row'[i] = [row[i] EXCEPT !.status = "PAUSED"]
    BY <1>2 DEF PauseJob
  <2> QED
    BY <1>0, <2>1, <2>2 DEF Outside, Claimable, Row
<1>3. CASE LoadForRequest(c) \/ LoadForResume(c) \/ AbortRequest(c)
  BY <1>0, <1>3 DEF LoadForRequest, LoadForResume, AbortRequest, StartRequest, table, ghosts,
     TypeOK, Outside
<1> QED
  BY <1>1, <1>2, <1>3 DEF RequestStep

LEMMA TimeIsOutside ==
  ASSUME TypeOK, NEW j \in Items, TimePasses(j), NEW i \in Items, reopened'[i] = 0
  PROVE  Outside(i)
BY DEF TimePasses, ghosts, TypeOK, Row, Outside

LEMMA StutterIsOutside ==
  ASSUME UNCHANGED vars, NEW i \in Items, reopened'[i] = 0
  PROVE  Outside(i)
BY DEF vars, Outside

(* Whatever is no step of a worker is outside.                              *)
LEMMA OtherStepsAreOutside ==
  ASSUME TypeOK, [Next]_vars, NEW i \in Items, reopened'[i] = 0,
         \A w \in Workers : ~ WorkerStep(w) /\ ~ WorkerFault(w)
  PROVE  Outside(i)
BY RequestIsOutside, TimeIsOutside, StutterIsOutside DEF Next

LEMMA CommitItemCounts ==
  ASSUME TypeOK, NEW w \in Workers, CommitItem(w)
  PROVE  LET me == worker[w]
         IN  row'[me.item].attempt_count =
               IF CountToStore(me) = me.loaded.attempt_count
                 THEN row[me.item].attempt_count ELSE CountToStore(me)
<1>1. row' = [row EXCEPT ![worker[w].item] =
                Flush(@, worker[w].loaded, Outcome(worker[w]))]
  BY DEF CommitItem
<1>2. Outcome(worker[w]).attempt_count = CountToStore(worker[w])
  BY DEF Outcome
<1>3. worker[w].item \in Items
  BY DEF CommitItem, TypeOK, WorkerState, Consistent
<1> QED
  BY <1>1, <1>2, <1>3 DEF Flush, TypeOK

(* A commit lets the item go.                                               *)
LEMMA CommitItemLetsGo ==
  ASSUME TypeOK, NEW w \in Workers, CommitItem(w)
  PROVE  /\ worker'[w].item = None /\ reopened' = reopened
         /\ posts' = posts /\ unknown' = unknown /\ stranded' = stranded /\ spent' = spent
         /\ worker[w].item \in Items /\ worker[w].pc = "commit" /\ worker[w].loaded \in Row
         /\ \A v \in Workers \ {w} : worker'[v] = worker[v]
BY DEF CommitItem, IdleWorker, ghosts, TypeOK, WorkerState, Consistent

-----------------------------------------------------------------------------
(* The row of an item that a worker has. *)

(* What Held says of one worker and one item.                               *)
HeldBy(w, i) ==
  /\ row[i].status \in InHand
  /\ worker[w].pc = "commit" =>
       /\ worker[w].loaded.status \in InHand
       /\ row[i].attempt_count \in {worker[w].loaded.attempt_count, 0}

LEMMA HeldStep == TypeOK /\ Selected /\ OneToken /\ Held /\ [Next]_vars => Held'
<1> SUFFICES ASSUME TypeOK, TypeOK', Selected, OneToken, OneToken', Held, [Next]_vars,
                    NEW i \in Items, NEW v \in Workers, reopened'[i] = 0, worker'[v].item = i
             PROVE  HeldBy(v, i)'
  BY NextType, OneTokenStep DEF Held, HeldBy, Holding
<1>0. /\ reopened[i] = 0 /\ worker[v].item = i => HeldBy(v, i)
      /\ None # i /\ row[i] \in Row /\ worker[v] \in WorkerState
  BY ConstantsAssumption DEF Held, HeldBy, Holding, TypeOK
<1>a. ASSUME reopened[i] = 0, worker[v].item = i, row'[i] = row[i],
             worker'[v].pc # "commit" \/ worker'[v] = worker[v]
      PROVE  HeldBy(v, i)'
  BY <1>0, <1>a DEF HeldBy
<1>1. ASSUME NEW w \in Workers, ClaimCandidate(w)
      PROVE  HeldBy(v, i)'
  <2>1. PICK j \in Items :
          /\ row' = [row EXCEPT ![j].status = "PUBLISHING"]
          /\ worker'[w].item = j /\ worker'[w].pc = "check"
          /\ \A u \in Workers \ {w} : worker'[u] = worker[u]
    BY <1>1, ClaimEffect
  <2>2. reopened[i] = 0
    BY <1>1 DEF ClaimCandidate, ghosts
  <2>3. CASE j = i
    <3>1. v = w
      BY <2>1, <2>3 DEF OneToken, Holding
    <3> QED
      BY <1>0, <2>1, <2>3, <3>1 DEF HeldBy, InHand, TypeOK, Row
  <2>4. CASE j # i
    <3>1. v # w /\ row'[i] = row[i] /\ worker'[v] = worker[v]
      BY <2>1, <2>4
    <3> QED
      BY <1>a, <2>2, <3>1
  <2> QED
    BY <2>3, <2>4
<1>2. ASSUME NEW w \in Workers, CommitItem(w)
      PROVE  HeldBy(v, i)'
  <2>1. /\ v # w /\ worker'[v] = worker[v] /\ reopened[i] = 0
        /\ worker[w].item \in Items
    BY <1>0, <1>2, CommitItemLetsGo
  <2>2. worker[w].item # i
    BY <2>1 DEF OneToken, Holding
  <2>3. row'[i] = row[i]
    BY <1>2, <2>2, CommitItemRows
  <2> QED
    BY <1>a, <2>1, <2>3
<1>3. ASSUME NEW w \in Workers, LoadItem(w)
      PROVE  HeldBy(v, i)'
  <2>1. /\ row' = row /\ reopened' = reopened
        /\ \A u \in Workers \ {w} : worker'[u] = worker[u]
        /\ worker'[w].item = worker[w].item
        /\ worker'[w].loaded = row[worker[w].item]
    BY <1>3 DEF LoadItem, table, ghosts, TypeOK, WorkerState
  <2>2. CASE v = w
    BY <1>0, <2>1, <2>2 DEF HeldBy
  <2>3. CASE v # w
    BY <1>a, <2>1, <2>3
  <2> QED
    BY <2>2, <2>3
<1>4. ASSUME NEW w \in Workers, WorkerStep(w),
             ~ ClaimCandidate(w), ~ CommitItem(w), ~ LoadItem(w)
      PROVE  HeldBy(v, i)'
  <2>1. /\ row' = row /\ reopened' = reopened
        /\ worker'[w].item = worker[w].item
        /\ \A u \in Workers \ {w} : worker'[u] = worker[u]
    BY <1>4, LocalSteps
  <2>2. v = w => worker'[v].pc # "commit" \/ worker'[v] = worker[v]
    BY <1>4 DEF WorkerStep, SelectDue, SleepUntilPoll, ClaimNothing, CheckPublished,
       Preflight, PublishSucceeds, PublishFails, PublishUnacknowledged, RecordAttempt,
       IdleWorker, vars, TypeOK, WorkerState
  <2> QED
    BY <1>a, <2>1, <2>2
<1>5. ASSUME NEW w \in Workers, WorkerFault(w)
      PROVE  HeldBy(v, i)'
  <2>1. /\ row' = row /\ reopened' = reopened
        /\ worker'[w].item \in {worker[w].item, None}
        /\ \A u \in Workers \ {w} : worker'[u] = worker[u]
    BY <1>5, FaultEffect
  <2>2. worker'[w].pc # "commit"
    BY <1>5 DEF WorkerFault, WorkerDbError, WorkerCrash, IdleWorker, TypeOK, WorkerState
  <2> QED
    BY <1>0, <1>a, <2>1, <2>2
<1>6. CASE \A w \in Workers : ~ WorkerStep(w) /\ ~ WorkerFault(w)
  <2>1. Outside(i)
    BY <1>6, OtherStepsAreOutside
  <2>2. HeldBy(v, i) /\ worker'[v] = worker[v]
    BY <1>0, <2>1 DEF Outside
  <2>3. row'[i].status \in InHand
    BY <2>1, <2>2 DEF Outside, HeldBy, InHand, Claimable, DueStatuses, Holding
  <2> QED
    BY <2>1, <2>2, <2>3 DEF Outside, HeldBy
<1> QED
  BY <1>1, <1>2, <1>3, <1>4, <1>5, <1>6

-----------------------------------------------------------------------------
(* The attempts of an item: first what its count says. *)
AttemptsLeftOver == \A i \in Items : reopened[i] = 0 => AttemptIsLeft(i)

LEMMA AttemptsLeftOverStep ==
  TypeOK /\ Selected /\ OneToken /\ Held /\ AttemptsLeftOver /\ [Next]_vars => AttemptsLeftOver'
<1> SUFFICES ASSUME TypeOK, TypeOK', Held, AttemptsLeftOver, [Next]_vars,
                    NEW i \in Items, row'[i].status = "RETRYING", reopened'[i] = 0
             PROVE  row'[i].attempt_count < MaxAttempts
  BY NextType DEF AttemptsLeftOver, AttemptIsLeft
<1>0. row[i] \in Row /\ row'[i] \in Row /\ None # i
  BY ConstantsAssumption DEF TypeOK
<1>a. ASSUME row'[i].status = row[i].status, reopened[i] = 0,
             row'[i].attempt_count \in {row[i].attempt_count, 0}
      PROVE  row'[i].attempt_count < MaxAttempts
  BY <1>a, ConstantsAssumption DEF AttemptsLeftOver, AttemptIsLeft
<1>1. ASSUME NEW w \in Workers, ClaimCandidate(w)
      PROVE  row'[i].attempt_count < MaxAttempts
  <2>1. PICK j \in Items : row' = [row EXCEPT ![j].status = "PUBLISHING"]
    BY <1>1, ClaimEffect
  <2>2. row'[i] = row[i] /\ reopened' = reopened
    BY <1>1, <2>1 DEF ClaimCandidate, ghosts, TypeOK, Row
  <2> QED
    BY <1>a, <2>2
<1>2. ASSUME NEW w \in Workers, CommitItem(w)
      PROVE  row'[i].attempt_count < MaxAttempts
  <2> DEFINE me == worker[w]
  <2>1. /\ reopened' = reopened /\ me.item \in Items /\ me.pc = "commit"
        /\ me \in WorkerState /\ me.loaded \in Row
    BY <1>2, CommitItemLetsGo DEF TypeOK
  <2>2. CASE me.item # i
    <3>1. row'[i] = row[i]
      BY <1>2, <2>2, CommitItemRows
    <3> QED
      BY <1>a, <2>1, <3>1
  <2>3. CASE me.item = i
    <3>1. /\ row[i].status \in InHand
          /\ row[i].attempt_count \in {me.loaded.attempt_count, 0}
      BY <2>1, <2>3 DEF Held, Holding
    <3>2. StatusAfter(me.result, me.attempt) = "RETRYING"
      BY <1>2, <2>3, <3>1, CommitItemRows DEF InHand
    <3>3. me.result = "TRANSIENT" /\ me.attempt < MaxAttempts
      BY <3>2 DEF StatusAfter, AttemptsLeft
    <3>4. CountToStore(me) = me.attempt
      BY <3>3 DEF CountToStore, ProviderResult, ErrorClass
    <3>5. row'[i].attempt_count \in {row[i].attempt_count, me.attempt}
          /\ (me.attempt = me.loaded.attempt_count \/ row'[i].attempt_count = me.attempt)
      BY <1>2, <2>3, <3>4, CommitItemCounts
    <3> QED
      BY <2>1, <3>1, <3>3, <3>5, ConstantsAssumption
  <2> QED
    BY <2>2, <2>3
<1>3. ASSUME NEW w \in Workers, WorkerStep(w), ~ ClaimCandidate(w), ~ CommitItem(w)
      PROVE  row'[i].attempt_count < MaxAttempts
  BY <1>a, <1>3, LocalSteps
<1>4. ASSUME NEW w \in Workers, WorkerFault(w)
      PROVE  row'[i].attempt_count < MaxAttempts
  BY <1>a, <1>4, FaultEffect
<1>5. CASE \A w \in Workers : ~ WorkerStep(w) /\ ~ WorkerFault(w)
  <2>1. Outside(i)
    BY <1>5, OtherStepsAreOutside
  <2> QED
    BY <1>a, <2>1 DEF Outside
<1> QED
  BY <1>1, <1>2, <1>3, <1>4, <1>5

(* The initial states.                                                      *)
LEMMA InitHeld == Init => OneToken /\ Selected /\ Held /\ AttemptsLeftOver /\ Announced
<1> SUFFICES ASSUME Init PROVE OneToken /\ Selected /\ Held /\ AttemptsLeftOver /\ Announced
  OBVIOUS
<1>1. \A w \in Workers, i \in Items : ~ Holding(w, i) /\ worker[w].seen[i] = None
  BY ConstantsAssumption DEF Init, Holding, IdleWorker, Nothing
<1>2. \A i \in Items : row[i].status = "WAITING" /\ posts[i] = 0
  BY DEF Init
<1> QED
  BY <1>1, <1>2 DEF OneToken, Selected, Held, AttemptsLeftOver, AttemptIsLeft, Announced

(* The attempts that were made, counted or left out: by an item nobody has, *)
(* and by what a worker that has it is going to write.                      *)
Spared(i) == reopened[i] = 0 /\ i \notin stranded /\ spent.db = 0
Resting(i) == \A w \in Workers : ~ Holding(w, i)
WithinCount(i) == calls[i] <= row[i].attempt_count + uncounted[i]

Counting(w, i) ==
  /\ worker[w].attempt # 0
  /\ worker[w].pc \in PrePost => calls[i] < worker[w].attempt + uncounted[i]
  /\ worker[w].result \in ProviderResult =>
       /\ calls[i] <= worker[w].attempt + uncounted[i]
       /\ worker[w].pc = "commit" /\ worker[w].loaded.attempt_count = worker[w].attempt =>
            WithinCount(i)
  /\ worker[w].result \notin ProviderResult => WithinCount(i)

InBudget(i) ==
  /\ Resting(i) => WithinCount(i)
  /\ \A w \in Workers : Holding(w, i) => Counting(w, i)

HistoryType == calls \in [Items -> Nat] /\ uncounted \in [Items -> Nat]
AllInBudget == \A i \in Items : Spared(i) => InBudget(i)

(* A worker moves on without calling the provider, and the item keeps what  *)
(* it has.                                                                  *)
SameCount(i) ==
  row'[i].attempt_count = row[i].attempt_count /\ calls'[i] = calls[i] /\ uncounted'[i] = uncounted[i]

LEMMA ItemUntouched ==
  ASSUME NEW i \in Items, InBudget(i), SameCount(i),
         \A v \in Workers : worker'[v] = worker[v] \/ (worker[v].item # i /\ worker'[v].item # i)
  PROVE  InBudget(i)'
<1>1. \A v \in Workers : Holding(v, i)' <=> Holding(v, i)
  BY DEF Holding
<1>2. WithinCount(i)' <=> WithinCount(i)
  BY DEF SameCount, WithinCount
<1>3. ASSUME NEW v \in Workers, Holding(v, i)' PROVE Counting(v, i)'
  <2>1. worker'[v] = worker[v] /\ Counting(v, i)
    BY <1>1, <1>3 DEF Holding, InBudget
  <2> QED
    BY <1>2, <2>1 DEF Counting, SameCount
<1> QED
  BY <1>1, <1>2, <1>3 DEF InBudget, Resting

LEMMA HolderMoves ==
  ASSUME NEW i \in Items, InBudget(i), SameCount(i), NEW w \in Workers, Holding(w, i),
         \A v \in Workers \ {w} : worker'[v] = worker[v], Holding(w, i)',
         Counting(w, i) => Counting(w, i)'
  PROVE  InBudget(i)'
<1>1. ~ Resting(i)'
  BY DEF Resting
<1>2. WithinCount(i)' <=> WithinCount(i)
  BY DEF SameCount, WithinCount
<1>3. ASSUME NEW v \in Workers, Holding(v, i)' PROVE Counting(v, i)'
  <2>1. CASE v = w
    BY <2>1 DEF InBudget
  <2>2. CASE v # w
    <3>1. worker'[v] = worker[v] /\ Counting(v, i)
      BY <1>3, <2>2 DEF Holding, InBudget
    <3> QED
      BY <1>2, <3>1 DEF Counting, SameCount
  <2> QED
    BY <2>1, <2>2
<1> QED
  BY <1>1, <1>3 DEF InBudget

(* The steps of a worker between its claim and its commit, but for the call.*)
LEMMA LocalKeepsBudget ==
  ASSUME TypeOK, NEW w \in Workers, NEW i \in Items, InBudget(i), UNCHANGED <<row, history>>,
         SelectDue(w) \/ SleepUntilPoll(w) \/ ClaimNothing(w) \/ CheckPublished(w)
           \/ Preflight(w) \/ RecordAttempt(w) \/ LoadItem(w)
  PROVE  InBudget(i)'
<1>1. SameCount(i) /\ (\A v \in Workers \ {w} : worker'[v] = worker[v])
  BY DEF SameCount, history, SelectDue, SleepUntilPoll, ClaimNothing, CheckPublished, Preflight,
     RecordAttempt, LoadItem, vars, TypeOK
<1>2. worker'[w].item = worker[w].item
  BY DEF SelectDue, SleepUntilPoll, ClaimNothing, CheckPublished, Preflight,
     RecordAttempt, LoadItem, IdleWorker, vars, TypeOK, WorkerState, Consistent
<1>3. CASE worker[w].item # i
  BY <1>1, <1>2, <1>3, ItemUntouched
<1>4. CASE worker[w].item = i
  <2>1. worker[w].pc \notin {"idle", "claim"}
    BY <1>4, ConstantsAssumption DEF TypeOK, Consistent
  <2>2. WithinCount(i)' <=> WithinCount(i)
    BY <1>1 DEF SameCount, WithinCount
  <2>3. worker[w].result = None <=> worker[w].pc \in PrePost
    BY <2>1 DEF TypeOK, Consistent
  <2>4. None \notin ProviderResult
    BY ConstantsAssumption DEF Result
  <2>5. CASE SleepUntilPoll(w)
    BY <1>1, <2>1, <2>5 DEF SleepUntilPoll
  <2>6. CASE CheckPublished(w) \/ Preflight(w)
    <3>1. /\ worker[w].pc \in PrePost /\ worker'[w].attempt = worker[w].attempt
          /\ worker'[w].result \notin ProviderResult
      BY <2>3, <2>4, <2>6 DEF CheckPublished, Preflight, PrePost, ProviderResult, ErrorClass, TypeOK,
         WorkerState
    <3>2. Counting(w, i) => Counting(w, i)'
      BY <1>1, <2>2, <2>3, <2>4, <3>1 DEF Counting, SameCount
    <3> QED
      BY <1>1, <1>2, <1>4, <3>2, HolderMoves DEF Holding
  <2>7. CASE RecordAttempt(w)
    <3>1. /\ worker[w].pc = "record" /\ worker'[w].pc = "load"
          /\ worker'[w].attempt = worker[w].attempt /\ worker'[w].result = worker[w].result
      BY <2>7 DEF RecordAttempt, TypeOK, WorkerState
    <3>2. Counting(w, i) => Counting(w, i)'
      BY <1>1, <2>2, <3>1 DEF Counting, SameCount, PrePost
    <3> QED
      BY <1>1, <1>2, <1>4, <3>2, HolderMoves DEF Holding
  <2>8. CASE LoadItem(w)
    <3>1. /\ worker'[w].pc = "commit" /\ worker'[w].loaded = row[i]
          /\ worker'[w].attempt = worker[w].attempt /\ worker'[w].result = worker[w].result
      BY <1>4, <2>8 DEF LoadItem, TypeOK, WorkerState
    <3>2. Counting(w, i) => Counting(w, i)'
      BY <1>1, <2>2, <3>1 DEF Counting, SameCount, PrePost, WithinCount
    <3> QED
      BY <1>1, <1>2, <1>4, <3>2, HolderMoves DEF Holding
  <2> QED
    BY <2>1, <2>5, <2>6, <2>7, <2>8 DEF SelectDue, ClaimNothing
<1> QED
  BY <1>3, <1>4

OneHas(i) == \A v, w \in Workers : Holding(v, i) /\ Holding(w, i) => v = w

LEMMA CallKeepsBudget ==
  ASSUME TypeOK, HistoryType, NEW w \in Workers, CountedCall(w), NEW i \in Items, OneHas(i),
         InBudget(i)
  PROVE  InBudget(i)'
<1>1. PICK r \in ProviderResult :
        /\ worker'[w].pc = "record" /\ worker'[w].result = r
        /\ worker'[w].item = worker[w].item /\ worker'[w].attempt = worker[w].attempt
  BY DEF CountedCall, PublishSucceeds, PublishFails, PublishUnacknowledged, ProviderResult,
     ErrorClass, TypeOK, WorkerState
<1>2. /\ row' = row /\ worker[w].pc = "publish" /\ uncounted' = uncounted
      /\ calls' = [calls EXCEPT ![worker[w].item] = @ + 1]
      /\ \A v \in Workers \ {w} : worker'[v] = worker[v]
  BY DEF CountedCall, PublishSucceeds, PublishFails, PublishUnacknowledged, table, TypeOK
<1>3. CASE worker[w].item # i
  BY <1>1, <1>2, <1>3, ItemUntouched DEF SameCount, HistoryType
<1>4. CASE worker[w].item = i
  <2>1. calls[i] < worker[w].attempt + uncounted[i] /\ worker[w].attempt # 0
    BY <1>2, <1>4 DEF InBudget, Holding, Counting, PrePost
  <2>2. calls'[i] = calls[i] + 1 /\ calls[i] \in Nat /\ uncounted[i] \in Nat
        /\ worker[w].attempt \in Nat
    BY <1>2, <1>4 DEF HistoryType, TypeOK, WorkerState
  <2>3. calls'[i] <= worker'[w].attempt + uncounted'[i]
    BY <1>1, <1>2, <2>1, <2>2
  <2>4. Counting(w, i)'
    BY <1>1, <2>1, <2>3 DEF Counting, PrePost
  <2>5. \A v \in Workers : Holding(v, i)' => v = w
    BY <1>2, <1>4 DEF OneHas, Holding
  <2>6. ~ Resting(i)'
    BY <1>1, <1>4 DEF Resting, Holding
  <2> QED
    BY <2>4, <2>5, <2>6 DEF InBudget
<1> QED
  BY <1>3, <1>4

LEMMA ClaimKeepsBudget ==
  ASSUME TypeOK, Selected, HistoryType, NEW w \in Workers, CountedClaim(w), NEW i \in Items,
         row[i].status \in Claimable => Resting(i), InBudget(i)
  PROVE  InBudget(i)'
<1>1. PICK j \in Items :
        /\ ClaimMatches(w, j)
        /\ row' = [row EXCEPT ![j].status = "PUBLISHING"]
        /\ worker' = [worker EXCEPT ![w].pc = "check", ![w].item = j,
                        ![w].attempt = worker[w].seen[j].attempt_count + 1, ![w].seen = Nothing]
  BY DEF CountedClaim, ClaimCandidate
<1>2. /\ worker'[w].pc = "check" /\ worker'[w].item = j /\ worker'[w].result = worker[w].result
      /\ worker'[w].attempt = worker[w].seen[j].attempt_count + 1
      /\ \A v \in Workers \ {w} : worker'[v] = worker[v]
  BY <1>1 DEF TypeOK, WorkerState
<1>3. worker[w].pc = "claim" /\ worker[w].item = None /\ worker[w].result = None /\ calls' = calls
  BY DEF CountedClaim, ClaimCandidate, TypeOK, Consistent
<1>4. uncounted'[i] = IF j = i THEN uncounted[i] + MadeSinceSelected(w, i) ELSE uncounted[i]
  BY <1>2 DEF CountedClaim
<1>5. row'[i].attempt_count = row[i].attempt_count
  BY <1>1 DEF TypeOK, Row
<1>6. CASE j # i
  BY <1>2, <1>3, <1>4, <1>5, <1>6, ItemUntouched, ConstantsAssumption DEF SameCount
<1>7. CASE j = i
  <2>1. Resting(i)
    BY <1>1, <1>7 DEF ClaimMatches, Selected, Claimable
  <2>2. calls[i] <= row[i].attempt_count + uncounted[i]
    BY <2>1 DEF InBudget, WithinCount
  <2> DEFINE n == row[i].attempt_count
             m == worker[w].seen[i].attempt_count
  <2>3. n \in Nat /\ m \in Nat /\ calls[i] \in Nat /\ uncounted[i] \in Nat
    BY <1>1, <1>7 DEF TypeOK, Row, WorkerState, HistoryType, ClaimMatches
  <2>4. uncounted'[i] = uncounted[i] + (IF n > m THEN n - m ELSE 0)
    BY <1>4, <1>7 DEF MadeSinceSelected
  <2>5. worker'[w].attempt = m + 1
    BY <1>2, <1>7
  <2> HIDE DEF n, m
  <2>6. calls[i] < m + 1 + uncounted'[i] /\ calls[i] <= n + uncounted'[i] /\ m + 1 # 0
    BY <2>2, <2>3, <2>4 DEF n
  <2>7. Counting(w, i)'
    BY <1>2, <1>3, <1>5, <2>5, <2>6, ConstantsAssumption
       DEF Counting, WithinCount, Result, PrePost, n
  <2>8. \A v \in Workers : Holding(v, i)' => v = w
    BY <1>2, <2>1 DEF Resting, Holding
  <2>9. ~ Resting(i)'
    BY <1>2, <1>7 DEF Resting, Holding
  <2> QED
    BY <2>7, <2>8, <2>9 DEF InBudget
<1> QED
  BY <1>6, <1>7

LEMMA CommitKeepsBudget ==
  ASSUME TypeOK, NEW w \in Workers, CommitItem(w), UNCHANGED history, NEW i \in Items, OneHas(i),
         InBudget(i)
  PROVE  InBudget(i)'
<1> DEFINE me == worker[w]
<1>1. /\ worker'[w].item = None /\ me.item \in Items /\ me.pc = "commit"
      /\ \A v \in Workers \ {w} : worker'[v] = worker[v]
  BY CommitItemLetsGo
<1>2. calls' = calls /\ uncounted' = uncounted /\ None # i
  BY ConstantsAssumption DEF history
<1>3. CASE me.item # i
  <2>1. row'[i] = row[i]
    BY <1>3, CommitItemRows
  <2> QED
    BY <1>1, <1>2, <1>3, <2>1, ItemUntouched DEF SameCount
<1>4. CASE me.item = i
  <2>1. Counting(w, i)
    BY <1>4 DEF InBudget, Holding
  <2>2. row'[i].attempt_count = IF CountToStore(me) = me.loaded.attempt_count
                                  THEN row[i].attempt_count ELSE CountToStore(me)
    BY <1>4, CommitItemCounts
  <2>3. WithinCount(i)'
    BY <1>1, <1>2, <2>1, <2>2 DEF Counting, CountToStore, WithinCount
  <2>4. \A v \in Workers : ~ Holding(v, i)'
    BY <1>1, <1>2, <1>4 DEF OneHas, Holding
  <2> QED
    BY <2>3, <2>4 DEF InBudget
<1> QED
  BY <1>3, <1>4

(* A request starts the item again, or leaves its count alone.              *)
LEMMA RequestCounts ==
  ASSUME TypeOK, NEW c \in Clients, CommitRequest(c), NEW i \in Items, ~ StartsAgain(c, i)
  PROVE  row'[i].attempt_count = row[i].attempt_count
<1> DEFINE op == request[c].op
           touched == {j \in Items : request[c].loaded[j] # None}
<1>1. PICK first \in Earliest(request[c].loaded, touched) :
        row' = [j \in Items |->
           IF j \in touched
             THEN LET ld == request[c].loaded[j]
                  IN  Flush(row[j], ld, Requested(op, ld, j.clip = first.clip))
             ELSE row[j]]
  BY DEF CommitRequest
<1>2. CASE i \notin touched
  BY <1>1, <1>2
<1>3. CASE i \in touched
  <2> DEFINE isFirst == i.clip = first.clip
             ld == request[c].loaded[i]
             new == Requested(op, ld, isFirst)
  <2>1. ld \in Row
    BY <1>3 DEF TypeOK, RequestState
  <2>2. row'[i] = Flush(row[i], ld, new)
    BY <1>1, <1>3
  <2>3. new.attempt_count = ld.attempt_count
    BY <1>3, <2>1 DEF Requested, Row, StartsAgain
  <2> HIDE DEF new, ld
  <2> QED
    BY <2>2, <2>3 DEF Flush
<1> QED
  BY <1>2, <1>3

LEMMA RequestKeepsBudget ==
  ASSUME TypeOK, HistoryType, NEW c \in Clients, CountedRequest(c), TypeOK', NEW i \in Items,
         InBudget(i)
  PROVE  InBudget(i)'
<1>1. /\ worker' = worker /\ CommitRequest(c)
      /\ calls'[i] = IF StartsAgain(c, i) THEN 0 ELSE calls[i]
      /\ uncounted'[i] = IF StartsAgain(c, i) THEN 0 ELSE uncounted[i]
  BY DEF CountedRequest, CommitRequest
<1>2. CASE ~ StartsAgain(c, i)
  <2>1. SameCount(i)
    BY <1>1, <1>2, RequestCounts DEF SameCount
  <2> QED
    BY <1>1, <2>1, ItemUntouched
<1>3. CASE StartsAgain(c, i)
  <2>1. row'[i].attempt_count \in Nat
    BY DEF TypeOK, Row
  <2>2. WithinCount(i)' /\ calls'[i] = 0 /\ uncounted'[i] = 0
    BY <1>1, <1>3, <2>1 DEF WithinCount
  <2>3. ASSUME NEW v \in Workers, Holding(v, i)' PROVE Counting(v, i)'
    <3>1. worker'[v] = worker[v] /\ worker[v].attempt \in Nat /\ Counting(v, i)
      BY <1>1, <2>3 DEF TypeOK, WorkerState, Holding, InBudget
    <3>2. worker[v].attempt # 0
      BY <3>1 DEF Counting
    <3>3. 0 < worker[v].attempt + 0 /\ 0 <= worker[v].attempt + 0
      BY <3>1, <3>2
    <3> QED
      BY <2>2, <3>1, <3>2, <3>3 DEF Counting
  <2> QED
    BY <2>2, <2>3 DEF InBudget
<1> QED
  BY <1>2, <1>3

(* What none of the workers does. *)
LEMMA OutsideKeepsBudget ==
  ASSUME TypeOK, UNCHANGED history, NEW i \in Items, InBudget(i),
         \/ \E c \in Clients : LoadForRequest(c) \/ LoadForResume(c) \/ AbortRequest(c) \/ PauseJob(c)
         \/ \E j \in Items : TimePasses(j)
  PROVE  InBudget(i)'
<1>1. worker' = worker /\ row'[i].attempt_count = row[i].attempt_count
  BY DEF LoadForRequest, LoadForResume, AbortRequest, PauseJob, TimePasses, table, TypeOK, Row
<1>2. SameCount(i)
  BY <1>1 DEF SameCount, history
<1> QED
  BY <1>1, <1>2, ItemUntouched

(* A worker that fails takes the item with it, or lets it go as it is.      *)
LEMMA FaultKeepsBudget ==
  ASSUME TypeOK, UNCHANGED history, NEW w \in Workers, WorkerFault(w), NEW i \in Items,
         Spared(i)', InBudget(i)
  PROVE  InBudget(i)'
<1>1. WorkerCrash(w) /\ i # None
  BY ConstantsAssumption DEF WorkerFault, WorkerDbError, Spared, TypeOK
<1>2. row' = row /\ worker[w].item # i /\ worker'[w].item # i
      /\ \A v \in Workers \ {w} : worker'[v] = worker[v]
  BY <1>1 DEF WorkerCrash, Spared, IdleWorker, table, TypeOK
<1> QED
  BY <1>2, ItemUntouched DEF SameCount, history

(* The history does not get in the way of the queue.                        *)
LEMMA CountedIsQueue == [CountedNext]_countedVars => [Next]_vars
<1>1. ASSUME NEW w \in Workers, CountedCall(w) \/ CountedClaim(w) PROVE Next
  BY <1>1 DEF CountedCall, CountedClaim, Next, WorkerStep
<1>2. ASSUME NEW c \in Clients, CountedRequest(c) PROVE Next
  BY <1>2 DEF CountedRequest, Next, RequestStep
<1>3. UncountedStep => Next
  BY DEF UncountedStep, Next, WorkerStep, RequestStep
<1> QED
  BY <1>1, <1>2, <1>3 DEF CountedNext, countedVars

(* Nothing that could make an attempt go uncounted is ever taken back.      *)
LEMMA SparedBefore ==
  ASSUME TypeOK, [Next]_vars, NEW i \in Items, Spared(i)'
  PROVE  Spared(i)
<1>0. reopened[i] \in Nat /\ spent.db \in Nat
  BY DEF TypeOK
<1>1. ASSUME NEW w \in Workers, WorkerStep(w) PROVE Spared(i)
  BY <1>1 DEF WorkerStep, SelectDue, SleepUntilPoll, ClaimCandidate, ClaimNothing, CheckPublished,
     Preflight, PublishSucceeds, PublishFails, PublishUnacknowledged, RecordAttempt, LoadItem,
     CommitItem, ghosts, vars, Spared, TypeOK
<1>2. ASSUME NEW w \in Workers, WorkerFault(w) PROVE Spared(i)
  BY <1>0, <1>2 DEF WorkerFault, WorkerDbError, WorkerCrash, Spared, TypeOK
<1>3. CASE \A w \in Workers : ~ WorkerStep(w) /\ ~ WorkerFault(w)
  <2>1. reopened'[i] = 0
    BY DEF Spared
  <2>2. Outside(i)
    BY <1>3, <2>1, OtherStepsAreOutside
  <2> QED
    BY <2>2 DEF Outside, Spared
<1> QED
  BY <1>1, <1>2, <1>3

LEMMA HistoryStep == TypeOK /\ HistoryType /\ [CountedNext]_countedVars => HistoryType'
<1> SUFFICES ASSUME TypeOK, HistoryType, [CountedNext]_countedVars PROVE HistoryType'
  OBVIOUS
<1>1. ASSUME NEW w \in Workers, CountedCall(w) PROVE HistoryType'
  <2>0. worker[w].item \in Items
    BY <1>1 DEF CountedCall, PublishSucceeds, PublishFails, PublishUnacknowledged, TypeOK,
       WorkerState, Consistent, PrePost
  <2>1. PICK i \in Items : calls' = [calls EXCEPT ![i] = calls[i] + 1] /\ uncounted' = uncounted
    BY <1>1, <2>0 DEF CountedCall
  <2>2. calls \in [Items -> Nat] /\ uncounted \in [Items -> Nat]
    BY DEF HistoryType
  <2>3. calls' \in [Items -> Nat]
    BY <2>1, <2>2
  <2> QED
    BY <2>1, <2>2, <2>3 DEF HistoryType
<1>2. ASSUME NEW w \in Workers, CountedClaim(w) PROVE HistoryType'
  <2>1. \A i \in Items : worker'[w].item = i => worker[w].seen[i] # None
    BY <1>2, ClaimEffect DEF CountedClaim, ClaimMatches
  <2>2. \A i \in Items : worker'[w].item = i => MadeSinceSelected(w, i) \in Nat
    BY <2>1 DEF MadeSinceSelected, TypeOK, WorkerState, Row
  <2> QED
    BY <1>2, <2>2 DEF CountedClaim, HistoryType
<1>3. ASSUME NEW c \in Clients, CountedRequest(c) PROVE HistoryType'
  BY <1>3 DEF CountedRequest, HistoryType
<1> QED
  BY <1>1, <1>2, <1>3 DEF CountedNext, countedVars, history, HistoryType

LEMMA AllInBudgetStep ==
  TypeOK /\ Selected /\ OneToken /\ HistoryType /\ AllInBudget /\ [CountedNext]_countedVars
    => AllInBudget'
<1> SUFFICES ASSUME TypeOK, Selected, OneToken, HistoryType, AllInBudget,
                    [CountedNext]_countedVars, NEW i \in Items, Spared(i)'
             PROVE  InBudget(i)'
  BY DEF AllInBudget
<1>1. [Next]_vars /\ TypeOK'
  BY CountedIsQueue, NextType
<1>2. Spared(i) /\ InBudget(i)
  BY <1>1, SparedBefore DEF AllInBudget
<1>3. OneHas(i) /\ (row[i].status \in Claimable => Resting(i))
  BY <1>2 DEF OneToken, OneHas, Resting, Spared
<1>4. ASSUME NEW w \in Workers, CountedCall(w) PROVE InBudget(i)'
  BY <1>2, <1>3, <1>4, CallKeepsBudget
<1>5. ASSUME NEW w \in Workers, CountedClaim(w) PROVE InBudget(i)'
  BY <1>2, <1>3, <1>5, ClaimKeepsBudget
<1>6. ASSUME NEW c \in Clients, CountedRequest(c) PROVE InBudget(i)'
  BY <1>1, <1>2, <1>6, RequestKeepsBudget
<1>7. CASE UncountedStep /\ UNCHANGED history
  <2>1. ASSUME NEW w \in Workers,
               SelectDue(w) \/ SleepUntilPoll(w) \/ ClaimNothing(w) \/ CheckPublished(w)
                 \/ Preflight(w) \/ RecordAttempt(w) \/ LoadItem(w)
        PROVE  InBudget(i)'
    <3>1. row' = row
      BY <2>1 DEF SelectDue, SleepUntilPoll, ClaimNothing, CheckPublished, Preflight,
         RecordAttempt, LoadItem, table, vars
    <3> QED
      BY <1>2, <1>7, <2>1, <3>1, LocalKeepsBudget
  <2>2. ASSUME NEW w \in Workers, CommitItem(w) PROVE InBudget(i)'
    BY <1>2, <1>3, <1>7, <2>2, CommitKeepsBudget
  <2>3. ASSUME NEW w \in Workers, WorkerFault(w) PROVE InBudget(i)'
    BY <1>2, <1>7, <2>3, FaultKeepsBudget
  <2>4. CASE \/ \E c \in Clients :
                  LoadForRequest(c) \/ LoadForResume(c) \/ AbortRequest(c) \/ PauseJob(c)
             \/ \E j \in Items : TimePasses(j)
    BY <1>2, <1>7, <2>4, OutsideKeepsBudget
  <2> QED
    BY <1>7, <2>1, <2>2, <2>3, <2>4 DEF UncountedStep
<1>8. CASE UNCHANGED countedVars
  BY <1>2, <1>8, ItemUntouched DEF countedVars, vars, history, SameCount
<1> QED
  BY <1>4, <1>5, <1>6, <1>7, <1>8 DEF CountedNext

(* However requests and workers overwrite each other, a row waits for       *)
(* another attempt only while fewer than MAX_PUBLISH_ATTEMPTS have been     *)
(* made, those aside that a worker left out because it had selected the row *)
(* before they were made.                                                   *)
THEOREM RetryBudgetHolds == CountedSpec => []RetryBudget
<1> DEFINE I == TypeOK /\ Selected /\ OneToken /\ Held /\ AttemptsLeftOver /\ HistoryType
                  /\ AllInBudget
<1>1. CountedInit => I
  <2> SUFFICES ASSUME CountedInit PROVE I
    OBVIOUS
  <2>1. TypeOK /\ OneToken /\ Selected /\ Held /\ AttemptsLeftOver
    BY InitType, InitHeld DEF CountedInit
  <2>2. HistoryType
    BY DEF CountedInit, HistoryType
  <2>3. \A i \in Items : WithinCount(i)
    BY DEF CountedInit, Init, WithinCount
  <2>4. \A w \in Workers, i \in Items : ~ Holding(w, i)
    BY ConstantsAssumption DEF CountedInit, Init, IdleWorker, Holding
  <2> QED
    BY <2>1, <2>2, <2>3, <2>4 DEF AllInBudget, InBudget
<1>2. I /\ [CountedNext]_countedVars => I'
  BY CountedIsQueue, NextType, SelectedStep, OneTokenStep, HeldStep, AttemptsLeftOverStep,
     HistoryStep, AllInBudgetStep
<1>3. I => RetryBudget
  BY DEF RetryBudget, AttemptsLeftOver, AllInBudget, InBudget, WithinCount, Resting, Spared,
     AttemptsAreCounted
<1> QED
  BY <1>1, <1>2, <1>3, PTL DEF CountedSpec

-----------------------------------------------------------------------------
(* What a retry finds. *)
LEMMA AnnouncedStep ==
  TypeOK /\ Selected /\ OneToken /\ Held /\ Announced /\ [Next]_vars => Announced'
<1> SUFFICES ASSUME TypeOK, TypeOK', Selected, OneToken, OneToken', Held, Announced,
                    [Next]_vars, NEW i \in Items, Told(i)', posts'[i] > 0
             PROVE  /\ \A v \in Workers : worker'[v].item = i => worker'[v].result = "SUCCESS"
                    /\ (\A v \in Workers : worker'[v].item # i) =>
                         row'[i].status \in {"PUBLISHED", "CANCELLED"}
  BY NextType, OneTokenStep DEF Announced, Holding
<1> DEFINE Goal == /\ \A v \in Workers : worker'[v].item = i => worker'[v].result = "SUCCESS"
                   /\ (\A v \in Workers : worker'[v].item # i) =>
                        row'[i].status \in {"PUBLISHED", "CANCELLED"}
<1>0. /\ None # i /\ row[i] \in Row /\ posts[i] \in Nat /\ reopened[i] \in Nat
      /\ unknown[i] \in Nat /\ spent.db \in Nat
      /\ reopened'[i] = 0
  BY ConstantsAssumption DEF TypeOK, Told
<1>1. ASSUME Told(i), posts[i] > 0
      PROVE  /\ \A v \in Workers : worker[v].item = i => worker[v].result = "SUCCESS"
             /\ (\A v \in Workers : worker[v].item # i) =>
                  row[i].status \in {"PUBLISHED", "CANCELLED"}
  BY <1>1 DEF Announced, Holding
<1>2. ASSUME NEW w \in Workers, ClaimCandidate(w)
      PROVE  Goal
  <2>1. PICK j \in Items :
          /\ ClaimMatches(w, j)
          /\ row' = [row EXCEPT ![j].status = "PUBLISHING"]
          /\ worker'[w].item = j
          /\ \A u \in Workers \ {w} : worker'[u] = worker[u]
    BY <1>2, ClaimEffect
  <2>2. Told(i) /\ posts[i] > 0 /\ reopened[i] = 0
    BY <1>2 DEF ClaimCandidate, ghosts, Told
  <2>3. row[j].status \in DueStatuses
    BY <2>1 DEF ClaimMatches, Selected
  <2>4. j # i
    BY <1>1, <2>2, <2>3 DEF OneToken, Holding, Claimable, DueStatuses
  <2>5. worker[w].item = None
    BY <1>2 DEF ClaimCandidate, TypeOK, Consistent
  <2> QED
    BY <1>0, <1>1, <2>1, <2>2, <2>4, <2>5
<1>3. ASSUME NEW w \in Workers, CommitItem(w)
      PROVE  Goal
  <2>1. /\ worker'[w].item = None /\ Told(i) /\ posts[i] > 0 /\ reopened[i] = 0
        /\ worker[w].pc = "commit" /\ worker[w].loaded \in Row
        /\ \A u \in Workers \ {w} : worker'[u] = worker[u]
    BY <1>3, CommitItemLetsGo DEF Told
  <2>2. CASE worker[w].item # i
    <3>1. row'[i] = row[i]
      BY <1>3, <2>2, CommitItemRows
    <3> QED
      BY <1>0, <1>1, <2>1, <2>2, <3>1
  <2>3. CASE worker[w].item = i
    <3>1. worker[w].result = "SUCCESS" /\ worker[w].loaded.status \in InHand
      BY <1>1, <2>1, <2>3 DEF Held, Holding
    <3>2. row'[i].status = "PUBLISHED"
      BY <1>3, <2>3, <3>1, CommitItemRows, StatusAfterRange DEF InHand
    <3> QED
      BY <1>0, <1>1, <2>1, <3>2
  <2> QED
    BY <2>2, <2>3
<1>4. ASSUME NEW w \in Workers, PublishSucceeds(w)
      PROVE  Goal
  <2>1. /\ row' = row /\ worker'[w].item = worker[w].item /\ worker'[w].result = "SUCCESS"
        /\ \A u \in Workers \ {w} : worker'[u] = worker[u]
        /\ Told(i) /\ worker[w].item \in Items
        /\ worker[w].item # i => posts'[i] = posts[i]
    BY <1>4 DEF PublishSucceeds, table, ghosts, Told, TypeOK, WorkerState, Consistent, PrePost
  <2>2. CASE worker[w].item = i
    <3>1. \A u \in Workers : worker'[u].item = i => u = w
      BY <1>0, <2>1, <2>2 DEF OneToken, Holding
    <3> QED
      BY <2>1, <2>2, <3>1
  <2>3. CASE worker[w].item # i
    BY <1>1, <2>1, <2>3
  <2> QED
    BY <2>2, <2>3
<1>5. ASSUME NEW w \in Workers, PublishUnacknowledged(w)
      PROVE  Goal
  <2>1. /\ row' = row /\ worker'[w].item = worker[w].item
        /\ \A u \in Workers \ {w} : worker'[u] = worker[u]
        /\ reopened' = reopened /\ stranded' = stranded /\ spent' = spent
        /\ worker[w].item \in Items
        /\ unknown' = [unknown EXCEPT ![worker[w].item] = @ + 1]
        /\ posts' = [posts EXCEPT ![worker[w].item] = @ + 1]
    BY <1>5 DEF PublishUnacknowledged, table, TypeOK, WorkerState, Consistent, PrePost
  <2>2. worker[w].item # i
    BY <1>0, <2>1 DEF Told, TypeOK
  <2>3. Told(i) /\ posts[i] > 0
    BY <2>1, <2>2 DEF Told, TypeOK
  <2> QED
    BY <1>1, <2>1, <2>2, <2>3
<1>6. ASSUME NEW w \in Workers, WorkerStep(w), ~ ClaimCandidate(w), ~ CommitItem(w),
             ~ PublishSucceeds(w), ~ PublishUnacknowledged(w)
      PROVE  Goal
  <2>1. /\ row' = row /\ worker'[w].item = worker[w].item
        /\ \A u \in Workers \ {w} : worker'[u] = worker[u]
    BY <1>6, LocalSteps
  <2>2. Told(i) /\ posts[i] > 0
    BY <1>6 DEF WorkerStep, SelectDue, SleepUntilPoll, ClaimNothing, CheckPublished, Preflight,
       PublishFails, RecordAttempt, LoadItem, table, ghosts, vars, Told, TypeOK
  <2>3. worker[w].item = i => worker[w].result = "SUCCESS"
    BY <1>1, <2>2
  <2>4. worker[w].item = i => worker'[w].result = "SUCCESS"
    <3> SUFFICES ASSUME worker[w].item = i PROVE worker'[w].result = "SUCCESS"
      OBVIOUS
    <3>1. worker[w].pc \in {"record", "load", "commit"}
      BY <1>0, <2>3, ConstantsAssumption
      DEF TypeOK, Consistent, WorkerState, PrePost, Result, ProviderResult
    <3> QED
      BY <1>6, <2>3, <3>1 DEF WorkerStep, SelectDue, SleepUntilPoll, ClaimNothing,
         CheckPublished, Preflight, PublishFails, RecordAttempt, LoadItem, TypeOK, WorkerState
  <2> QED
    BY <1>1, <2>1, <2>2, <2>4
<1>7. ASSUME NEW w \in Workers, WorkerFault(w)
      PROVE  Goal
  <2>1. /\ row' = row /\ posts' = posts /\ reopened' = reopened /\ unknown' = unknown
        /\ stranded \subseteq stranded'
        /\ \A u \in Workers \ {w} : worker'[u] = worker[u]
    BY <1>7, FaultEffect DEF WorkerFault, WorkerDbError, WorkerCrash
  <2>2. WorkerCrash(w) /\ spent'.db = spent.db
    BY <1>0, <1>7 DEF WorkerFault, WorkerDbError, WorkerCrash, Told, TypeOK
  <2>3. Told(i) /\ posts[i] > 0
    BY <2>1, <2>2 DEF Told
  <2>4. worker[w].item # i /\ worker'[w].item = None
    BY <1>0, <2>2 DEF WorkerCrash, Told, IdleWorker, TypeOK
  <2> QED
    BY <1>0, <1>1, <2>1, <2>3, <2>4
<1>8. CASE \A w \in Workers : ~ WorkerStep(w) /\ ~ WorkerFault(w)
  <2>1. Outside(i)
    BY <1>0, <1>8, OtherStepsAreOutside
  <2>2. Told(i) /\ posts[i] > 0 /\ worker' = worker
    BY <2>1 DEF Outside, Told
  <2>3. (\A v \in Workers : worker[v].item # i) => row'[i].status \in {"PUBLISHED", "CANCELLED"}
    BY <1>0, <1>1, <2>1, <2>2 DEF Outside, Claimable, DueStatuses
  <2> QED
    BY <1>1, <2>2, <2>3
<1> QED
  BY <1>2, <1>3, <1>4, <1>5, <1>6, <1>7, <1>8

(* An item that retry_item accepts, that is not cancelled and that no       *)
(* worker has is not live on its platform, unless somebody reopened it or   *)
(* the news of its post was lost.                                           *)
THEOREM RetryIsSafeHolds == Spec => []RetryIsSafe
<1>1. TypeOK /\ Announced => RetryIsSafe
  <2> SUFFICES ASSUME TypeOK, Announced, NEW i \in Items,
                      Accepts("retry", row[i].status), row[i].status # "CANCELLED",
                      \A w \in Workers : ~ Holding(w, i), Told(i)
               PROVE  posts[i] = 0
    BY DEF RetryIsSafe, Told
  <2>1. row[i].status # "PUBLISHED"
    BY DEF Accepts
  <2>2. posts[i] \in Nat
    BY DEF TypeOK
  <2> QED
    BY <2>1, <2>2 DEF Announced
<1> QED
  BY <1>1, InitHeld, TypeCorrect, SelectedStep, OneTokenStep, HeldStep, AnnouncedStep, PTL DEF Spec

-----------------------------------------------------------------------------
(* PublishQueue implements PublishLedger: the proof counts, for each item,  *)
(* the ways in which it can still be posted.                                *)

(* The workers that hold the item and may still post it, or put it back for *)
(* another attempt.                                                         *)
Retryable == {"TRANSIENT", "QUOTA"}
Live(i) == {w \in Workers : /\ worker[w].item = i
                            /\ worker[w].pc \in PrePost \/ worker[w].result \in Retryable}

(* A claimable row is worth one post, and so is each live worker.           *)
Waiting(i) == IF row[i].status \in Claimable THEN 1 ELSE 0
Permits(i) == 1 + reopened[i] + unknown[i]
Covered == \A i \in Items : posts[i] + Cardinality(Live(i)) + Waiting(i) <= Permits(i)

LEMMA LiveFinite ==
  ASSUME NEW i PROVE IsFiniteSet(Live(i)) /\ Cardinality(Live(i)) \in Nat
BY ConstantsAssumption, FS_Subset, FS_CardinalityType DEF Live

(* Workers only become live by a claim, and each step concerns one worker.  *)
LEMMA LiveShrinks ==
  ASSUME NEW i, Live(i)' \subseteq Live(i)
  PROVE  Cardinality(Live(i)') \in Nat /\ Cardinality(Live(i)') <= Cardinality(Live(i))
BY LiveFinite, FS_Subset, FS_CardinalityType

LEMMA LiveLoses ==
  ASSUME NEW i, NEW w \in Live(i), Live(i)' \subseteq Live(i) \ {w}
  PROVE  Cardinality(Live(i)') \in Nat /\ Cardinality(Live(i)') + 1 <= Cardinality(Live(i))
<1>1. /\ Cardinality(Live(i) \ {w}) = Cardinality(Live(i)) - 1
      /\ IsFiniteSet(Live(i) \ {w})
  BY LiveFinite, FS_RemoveElement
<1>2. /\ IsFiniteSet(Live(i)') /\ Cardinality(Live(i)') <= Cardinality(Live(i) \ {w})
  BY <1>1, FS_Subset
<1> QED
  BY <1>1, <1>2, LiveFinite, FS_CardinalityType

LEMMA LiveGains ==
  ASSUME NEW i, NEW w, Live(i)' \subseteq Live(i) \cup {w}
  PROVE  Cardinality(Live(i)') \in Nat /\ Cardinality(Live(i)') <= Cardinality(Live(i)) + 1
<1>1. /\ Cardinality(Live(i) \cup {w}) <= Cardinality(Live(i)) + 1
      /\ IsFiniteSet(Live(i) \cup {w})
  BY LiveFinite, FS_AddElement
<1>2. IsFiniteSet(Live(i)') /\ Cardinality(Live(i)') <= Cardinality(Live(i) \cup {w})
  BY <1>1, FS_Subset
<1> QED
  BY <1>1, <1>2, LiveFinite, FS_CardinalityType

(* A worker that is at a publish call is live.                              *)
LEMMA PublisherIsLive ==
  ASSUME TypeOK, NEW w \in Workers, worker[w].pc \in PrePost
  PROVE  worker[w].item \in Items /\ w \in Live(worker[w].item)
BY DEF Live, PrePost, TypeOK, Consistent, WorkerState

LEMMA CoveredStep == TypeOK /\ Selected /\ Covered /\ [Next]_vars => Covered'
<1> SUFFICES ASSUME TypeOK, TypeOK', Selected, Covered, [Next]_vars, NEW i \in Items
             PROVE  posts'[i] + Cardinality(Live(i)') + Waiting(i)' <= Permits(i)'
  BY NextType DEF Covered
<1>0. /\ posts[i] \in Nat /\ reopened[i] \in Nat /\ unknown[i] \in Nat
      /\ posts[i] + Cardinality(Live(i)) + Waiting(i) <= Permits(i)
      /\ Waiting(i) \in {0, 1} /\ Waiting(i)' \in {0, 1}
      /\ Cardinality(Live(i)) \in Nat
  BY LiveFinite DEF Covered, TypeOK, Waiting
<1>a. ASSUME /\ posts'[i] = posts[i] /\ reopened'[i] = reopened[i] /\ unknown'[i] = unknown[i]
             /\ Waiting(i)' <= Waiting(i)
             /\ Live(i)' \subseteq Live(i)
      PROVE  posts'[i] + Cardinality(Live(i)') + Waiting(i)' <= Permits(i)'
  BY <1>0, <1>a, LiveShrinks DEF Permits
<1>1. ASSUME NEW w \in Workers, ClaimCandidate(w)
      PROVE  posts'[i] + Cardinality(Live(i)') + Waiting(i)' <= Permits(i)'
  <2>1. PICK j \in Items :
          /\ ClaimMatches(w, j)
          /\ row' = [row EXCEPT ![j].status = "PUBLISHING"]
          /\ worker'[w].item = j
          /\ \A v \in Workers \ {w} : worker'[v] = worker[v]
    BY <1>1, ClaimEffect
  <2>2. posts' = posts /\ reopened' = reopened /\ unknown' = unknown
    BY <1>1 DEF ClaimCandidate, ghosts
  <2>3. CASE i = j
    <3>1. Waiting(i) = 1
      <4>1. row[i].status \in DueStatuses
        BY <2>1, <2>3 DEF ClaimMatches, Selected
      <4> QED
        BY <4>1 DEF Claimable, Waiting
    <3>2. Waiting(i)' = 0
      BY <2>1, <2>3 DEF Waiting, Claimable, DueStatuses, TypeOK, Row
    <3>3. Live(i)' \subseteq Live(i) \cup {w}
      BY <2>1 DEF Live
    <3> QED
      <4>1. Cardinality(Live(i)') \in Nat /\ Cardinality(Live(i)') <= Cardinality(Live(i)) + 1
        BY <3>3, LiveGains
      <4> QED
        BY <1>0, <2>2, <3>1, <3>2, <4>1 DEF Permits
  <2>4. CASE i # j
    <3>1. Live(i)' \subseteq Live(i)
      BY <2>1, <2>4 DEF Live
    <3>2. Waiting(i)' = Waiting(i)
      BY <2>1, <2>4 DEF Waiting, TypeOK
    <3> QED
      BY <1>a, <1>0, <2>2, <3>1, <3>2
  <2> QED
    BY <2>3, <2>4
<1>2. ASSUME NEW w \in Workers, CommitItem(w)
      PROVE  posts'[i] + Cardinality(Live(i)') + Waiting(i)' <= Permits(i)'
  <2> DEFINE me == worker[w]
             status == StatusAfter(me.result, me.attempt)
  <2>1. /\ posts' = posts /\ reopened' = reopened /\ unknown' = unknown
        /\ worker'[w].item = None /\ \A v \in Workers \ {w} : worker'[v] = worker[v]
    BY <1>2 DEF CommitItem, ghosts, IdleWorker, TypeOK
  <2>2. Live(i)' \subseteq Live(i) \ {w}
    BY <2>1, ConstantsAssumption DEF Live
  <2>3. CASE Waiting(i)' <= Waiting(i)
    BY <1>a, <2>1, <2>2, <2>3
  <2>4. CASE ~ (Waiting(i)' <= Waiting(i))
    <3>1. row'[i].status \in Claimable /\ row[i].status \notin Claimable
      BY <2>4 DEF Waiting
    <3>2. me.item = i /\ row'[i].status = status
      BY <1>2, <3>1, CommitItemRows
    <3>3. me.result \in Retryable
      BY <3>1, <3>2 DEF StatusAfter, Claimable, DueStatuses, Retryable
    <3>4. w \in Live(i)
      BY <3>2, <3>3 DEF Live
    <3> QED
      BY <1>0, <2>1, <2>2, <3>4, LiveLoses DEF Permits
  <2> QED
    BY <2>3, <2>4
<1>3. ASSUME NEW w \in Workers, PublishSucceeds(w)
      PROVE  posts'[i] + Cardinality(Live(i)') + Waiting(i)' <= Permits(i)'
  <2>1. /\ row' = row /\ reopened' = reopened /\ unknown' = unknown
        /\ posts' = [posts EXCEPT ![worker[w].item] = @ + 1]
        /\ worker'[w].item = worker[w].item /\ worker'[w].pc = "record"
        /\ worker'[w].result = "SUCCESS"
        /\ \A v \in Workers \ {w} : worker'[v] = worker[v]
    BY <1>3 DEF PublishSucceeds, table, TypeOK, WorkerState
  <2>2. Live(i)' \subseteq Live(i) \ {w}
    BY <2>1 DEF Live, PrePost, Retryable
  <2>3. Waiting(i)' = Waiting(i)
    BY <2>1 DEF Waiting
  <2>4. CASE worker[w].item = i
    <3>1. w \in Live(i)
      BY <1>3, <2>4, PublisherIsLive DEF PublishSucceeds, PrePost
    <3>2. posts'[i] = posts[i] + 1
      BY <2>1, <2>4 DEF TypeOK
    <3> QED
      BY <1>0, <2>1, <2>2, <2>3, <3>1, <3>2, LiveLoses DEF Permits
  <2>5. CASE worker[w].item # i
    <3>1. posts'[i] = posts[i]
      BY <2>1, <2>5 DEF TypeOK
    <3> QED
      BY <1>0, <1>a, <2>1, <2>2, <2>3, <3>1
  <2> QED
    BY <2>4, <2>5
<1>4. ASSUME NEW w \in Workers, PublishUnacknowledged(w)
      PROVE  posts'[i] + Cardinality(Live(i)') + Waiting(i)' <= Permits(i)'
  <2>1. /\ row' = row /\ reopened' = reopened
        /\ posts' = [posts EXCEPT ![worker[w].item] = @ + 1]
        /\ unknown' = [unknown EXCEPT ![worker[w].item] = @ + 1]
        /\ worker'[w].item = worker[w].item
        /\ \A v \in Workers \ {w} : worker'[v] = worker[v]
    BY <1>4 DEF PublishUnacknowledged, table, TypeOK, WorkerState
  <2>2. Live(i)' \subseteq Live(i)
    BY <1>4, <2>1 DEF PublishUnacknowledged, Live, PrePost
  <2>3. /\ Waiting(i)' = Waiting(i)
        /\ posts'[i] - posts[i] = unknown'[i] - unknown[i]
        /\ posts'[i] \in Nat /\ unknown'[i] \in Nat
    BY <1>0, <2>1 DEF Waiting, TypeOK
  <2> QED
    BY <1>0, <2>1, <2>2, <2>3, LiveShrinks DEF Permits
<1>5. ASSUME NEW w \in Workers, WorkerStep(w), ~ ClaimCandidate(w), ~ CommitItem(w),
             ~ PublishSucceeds(w), ~ PublishUnacknowledged(w)
      PROVE  posts'[i] + Cardinality(Live(i)') + Waiting(i)' <= Permits(i)'
  <2>1. /\ row' = row /\ reopened' = reopened
        /\ worker'[w].item = worker[w].item
        /\ \A v \in Workers \ {w} : worker'[v] = worker[v]
    BY <1>5, LocalSteps
  <2>2. posts' = posts /\ unknown' = unknown
    BY <1>5 DEF WorkerStep, SelectDue, SleepUntilPoll, ClaimNothing, CheckPublished,
                Preflight, PublishFails, RecordAttempt, LoadItem, ghosts, vars
  <2>3. worker'[w].item # None /\ (worker'[w].pc \in PrePost \/ worker'[w].result \in Retryable)
        => worker[w].pc \in PrePost \/ worker[w].result \in Retryable
    BY <1>5, <2>1, ConstantsAssumption
    DEF WorkerStep, SelectDue, SleepUntilPoll, ClaimNothing, CheckPublished,
        Preflight, PublishFails, RecordAttempt, LoadItem, IdleWorker, vars, PrePost,
        Retryable, TypeOK, WorkerState, Consistent
  <2>4. Live(i)' \subseteq Live(i)
    BY <2>1, <2>3, ConstantsAssumption DEF Live
  <2>5. Waiting(i)' = Waiting(i)
    BY <2>1 DEF Waiting
  <2> QED
    BY <1>0, <1>a, <2>1, <2>2, <2>4, <2>5
<1>6. ASSUME NEW w \in Workers, WorkerFault(w)
      PROVE  posts'[i] + Cardinality(Live(i)') + Waiting(i)' <= Permits(i)'
  <2>1. /\ row' = row /\ reopened' = reopened
        /\ \A v \in Workers \ {w} : worker'[v] = worker[v]
    BY <1>6, FaultEffect
  <2>2. posts' = posts /\ unknown' = unknown
    BY <1>6 DEF WorkerFault, WorkerDbError, WorkerCrash
  <2>3. worker'[w].item = None \/ (worker'[w].pc = "load" /\ worker'[w].result = "INTERNAL")
    BY <1>6 DEF WorkerFault, WorkerDbError, WorkerCrash, IdleWorker, TypeOK, WorkerState
  <2>4. Live(i)' \subseteq Live(i)
    BY <2>1, <2>3, ConstantsAssumption DEF Live, PrePost, Retryable
  <2>5. Waiting(i)' = Waiting(i)
    BY <2>1 DEF Waiting
  <2> QED
    BY <1>0, <1>a, <2>1, <2>2, <2>4, <2>5
<1>7. ASSUME NEW c \in Clients, CommitRequest(c)
      PROVE  posts'[i] + Cardinality(Live(i)') + Waiting(i)' <= Permits(i)'
  <2>1. /\ worker' = worker /\ posts' = posts /\ unknown' = unknown
        /\ reopened'[i] = IF row'[i].status = "WAITING" /\ Reopens(i)
                            THEN reopened[i] + 1 ELSE reopened[i]
    BY <1>7 DEF CommitRequest
  <2>2. Live(i)' = Live(i)
    BY <2>1 DEF Live
  <2>3. CASE Waiting(i)' <= Waiting(i)
    BY <1>0, <2>1, <2>2, <2>3 DEF Permits
  <2>4. CASE ~ (Waiting(i)' <= Waiting(i))
    <3>1. row'[i].status = "WAITING" /\ row[i].status \notin Claimable
      BY <1>7, <2>4, CommitRequestRows DEF Waiting, Claimable, DueStatuses
    <3>2. CASE Reopens(i)
      BY <1>0, <2>1, <2>2, <3>1, <3>2 DEF Permits
    <3>3. CASE ~ Reopens(i)
      <4>1. posts[i] = 0 /\ \A w \in Workers : worker[w].item # i
        BY <1>0, <3>1, <3>3 DEF Reopens, Holding
      <4>2. Cardinality(Live(i)) = 0
        BY <4>1, FS_EmptySet DEF Live
      <4> QED
        BY <1>0, <2>1, <2>2, <3>3, <4>1, <4>2 DEF Permits
    <3> QED
      BY <3>2, <3>3
  <2> QED
    BY <2>3, <2>4
<1>8. ASSUME /\ worker' = worker /\ posts' = posts /\ reopened' = reopened /\ unknown' = unknown
             /\ row'[i].status \in Claimable => row[i].status \in Claimable
      PROVE  posts'[i] + Cardinality(Live(i)') + Waiting(i)' <= Permits(i)'
  <2>1. Live(i)' = Live(i) /\ Waiting(i)' <= Waiting(i)
    BY <1>8 DEF Live, Waiting
  <2> QED
    BY <1>8, <1>a, <2>1
<1>9. ASSUME NEW c \in Clients, RequestStep(c), ~ CommitRequest(c)
      PROVE  posts'[i] + Cardinality(Live(i)') + Waiting(i)' <= Permits(i)'
  BY <1>8, <1>9
  DEF RequestStep, LoadForRequest, LoadForResume, AbortRequest, PauseJob, Claimable,
      table, ghosts
<1>10. ASSUME NEW j \in Items, TimePasses(j)
       PROVE  posts'[i] + Cardinality(Live(i)') + Waiting(i)' <= Permits(i)'
  BY <1>8, <1>10 DEF TimePasses, ghosts, TypeOK, Row
<1>11. CASE UNCHANGED vars
  BY <1>8, <1>11 DEF vars
<1> QED
  BY <1>1, <1>2, <1>3, <1>4, <1>5, <1>6, <1>7, <1>9, <1>10, <1>11 DEF Next

LEMMA InitCovered == Init => Covered
<1> SUFFICES ASSUME Init, NEW i \in Items
             PROVE  posts[i] + Cardinality(Live(i)) + Waiting(i) <= Permits(i)
  BY DEF Covered
<1>1. Live(i) = {}
  BY ConstantsAssumption DEF Init, IdleWorker, Live
<1>2. Cardinality(Live(i)) = 0
  BY <1>1, FS_EmptySet
<1> QED
  BY <1>2 DEF Init, Waiting, Permits

-----------------------------------------------------------------------------
(* The refinement. *)

permitsOf == [i \in Items |-> 1 + reopened[i] + unknown[i]]

LEMMA InitRefines == Init => Ledger!Init
BY DEF Init, Ledger!Init

(* A post is made by a live worker, so a permit is left for it.             *)
LEMMA PostHasPermit ==
  ASSUME TypeOK, Covered, NEW w \in Workers, worker[w].pc = "publish"
  PROVE  /\ worker[w].item \in Items
         /\ posts[worker[w].item] < permitsOf[worker[w].item]
<1> DEFINE i == worker[w].item
<1>1. i \in Items /\ w \in Live(i)
  BY PublisherIsLive DEF PrePost
<1>2. Cardinality(Live(i)) >= 1
  BY <1>1, LiveFinite, FS_EmptySet
<1>3. /\ posts[i] \in Nat /\ reopened[i] \in Nat /\ unknown[i] \in Nat
      /\ Waiting(i) \in {0, 1} /\ Cardinality(Live(i)) \in Nat
      /\ posts[i] + Cardinality(Live(i)) + Waiting(i) <= Permits(i)
  BY <1>1, LiveFinite DEF TypeOK, Waiting, Covered
<1> QED
  BY <1>1, <1>2, <1>3 DEF Permits, permitsOf

LEMMA StepRefines ==
  TypeOK /\ Covered /\ [Next]_vars => [Ledger!Next]_<<posts, permitsOf>>
<1> SUFFICES ASSUME TypeOK, Covered, [Next]_vars
             PROVE  Ledger!Next \/ UNCHANGED <<posts, permitsOf>>
  OBVIOUS
<1>0. ASSUME UNCHANGED <<posts, reopened, unknown>>
      PROVE  UNCHANGED <<posts, permitsOf>>
  BY <1>0 DEF permitsOf
<1>1. ASSUME NEW w \in Workers, PublishSucceeds(w)
      PROVE  Ledger!Post(worker[w].item) /\ worker[w].item \in Items
  <2>1. /\ posts' = [posts EXCEPT ![worker[w].item] = @ + 1]
        /\ UNCHANGED <<reopened, unknown>> /\ worker[w].pc = "publish"
    BY <1>1 DEF PublishSucceeds
  <2> QED
    BY <2>1, PostHasPermit DEF Ledger!Post, permitsOf
<1>2. ASSUME NEW w \in Workers, PublishUnacknowledged(w)
      PROVE  Ledger!PostUnacknowledged(worker[w].item) /\ worker[w].item \in Items
  <2> DEFINE i == worker[w].item
  <2>1. /\ posts' = [posts EXCEPT ![i] = @ + 1]
        /\ unknown' = [unknown EXCEPT ![i] = @ + 1]
        /\ reopened' = reopened /\ worker[w].pc = "publish"
    BY <1>2 DEF PublishUnacknowledged
  <2>2. i \in Items /\ posts[i] < permitsOf[i]
    BY <2>1, PostHasPermit
  <2>3. permitsOf' = [permitsOf EXCEPT ![i] = @ + 1]
    BY <2>1, <2>2 DEF permitsOf, TypeOK
  <2> QED
    BY <2>1, <2>2, <2>3 DEF Ledger!PostUnacknowledged, permitsOf
<1>3. ASSUME NEW c \in Clients, CommitRequest(c)
      PROVE  Ledger!Reopen
  <2> DEFINE S == {i \in Items : row'[i].status = "WAITING" /\ Reopens(i)}
  <2>1. /\ posts' = posts /\ unknown' = unknown
        /\ reopened' = [i \in Items |-> IF i \in S THEN reopened[i] + 1 ELSE reopened[i]]
    BY <1>3 DEF CommitRequest
  <2>2. permitsOf' = [i \in Items |-> IF i \in S THEN permitsOf[i] + 1 ELSE permitsOf[i]]
    BY <2>1 DEF permitsOf, TypeOK
  <2> QED
    BY <2>1, <2>2 DEF Ledger!Reopen, permitsOf
<1>4. ASSUME NEW w \in Workers, WorkerStep(w), ~ PublishSucceeds(w), ~ PublishUnacknowledged(w)
      PROVE  UNCHANGED <<posts, reopened, unknown>>
  BY <1>4 DEF WorkerStep, SelectDue, SleepUntilPoll, ClaimCandidate, ClaimNothing,
     CheckPublished, Preflight, PublishFails, RecordAttempt, LoadItem, CommitItem, ghosts, vars
<1>5. ASSUME NEW w \in Workers, WorkerFault(w)
      PROVE  UNCHANGED <<posts, reopened, unknown>>
  BY <1>5 DEF WorkerFault, WorkerDbError, WorkerCrash
<1>6. ASSUME NEW c \in Clients, RequestStep(c), ~ CommitRequest(c)
      PROVE  UNCHANGED <<posts, reopened, unknown>>
  BY <1>6 DEF RequestStep, LoadForRequest, LoadForResume, AbortRequest, PauseJob, ghosts
<1>7. ASSUME NEW i \in Items, TimePasses(i)
      PROVE  UNCHANGED <<posts, reopened, unknown>>
  BY <1>7 DEF TimePasses, ghosts
<1>8. CASE UNCHANGED vars
  BY <1>0, <1>8 DEF vars
<1>9. CASE Next
  <2>1. ASSUME NEW w \in Workers, WorkerStep(w)
        PROVE  Ledger!Next \/ UNCHANGED <<posts, permitsOf>>
    <3>1. CASE PublishSucceeds(w)
      BY <1>1, <3>1 DEF Ledger!Next
    <3>2. CASE PublishUnacknowledged(w)
      <4>1. Ledger!PostUnacknowledged(worker[w].item) /\ worker[w].item \in Items
        BY <1>2, <3>2
      <4>2. \E i \in Items : Ledger!Post(i) \/ Ledger!PostUnacknowledged(i)
        BY <4>1 DEF Ledger!PostUnacknowledged
      <4> QED
        BY <4>2 DEF Ledger!Next
    <3> QED
      BY <1>0, <1>4, <2>1, <3>1, <3>2
  <2>2. ASSUME NEW c \in Clients, RequestStep(c)
        PROVE  Ledger!Next \/ UNCHANGED <<posts, permitsOf>>
    BY <1>0, <1>3, <1>6, <2>2 DEF Ledger!Next
  <2> QED
    BY <1>0, <1>5, <1>7, <1>9, <2>1, <2>2 DEF Next
<1> QED
  BY <1>8, <1>9

(* The queue implements the ledger: whatever the interleaving of workers,   *)
(* requests, crashes and lost writes, every post is covered by the queueing *)
(* of the item, by a request that reopened it while it was posted or held,  *)
(* or by a post that the provider's client did not report.                  *)
THEOREM PermittedPosts == Spec => PostsArePermitted
<1>1. [Ledger!Next]_<<posts, permitsOf>> =>
        [Ledger!Next]_<<posts, [i \in Items |-> 1 + reopened[i] + unknown[i]]>>
  BY DEF permitsOf
<1>2. Init => Selected
  BY DEF Init, Selected, IdleWorker, Nothing
<1> QED
  BY <1>1, <1>2, InitRefines, InitCovered, TypeCorrect, SelectedStep, CoveredStep,
     StepRefines, PTL DEF Spec, PostsArePermitted, Ledger!Spec

(* In terms of states: posts never exceed what accounts for them.           *)
COROLLARY PostsBounded == Spec => []Ledger!WithinPermits
<1>1. TypeOK /\ Covered => Ledger!WithinPermits
  <2> SUFFICES ASSUME TypeOK, Covered, NEW i \in Items
               PROVE  posts[i] <= 1 + reopened[i] + unknown[i]
    BY DEF Ledger!WithinPermits
  <2> QED
    BY LiveFinite DEF TypeOK, Covered, Permits, Waiting
<1>2. Init => Selected
  BY DEF Init, Selected, IdleWorker, Nothing
<1> QED
  BY <1>1, <1>2, InitCovered, TypeCorrect, SelectedStep, CoveredStep, PTL DEF Spec
=============================================================================
