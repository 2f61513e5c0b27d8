--------------------------- MODULE IngestionProofs ---------------------------
(***************************************************************************)
(* Proofs about Ingestion, for every number of transfers, threads, slots   *)
(* and redirects.                                                          *)
(*                                                                         *)
(* The invariant says of each transfer where its job in the executor can   *)
(* be: in the queue while its task waits for it, on a thread also when the *)
(* task of a YouTube download has given up, nowhere once its file is being *)
(* probed or its id has been given to a client.                            *)
(***************************************************************************)
EXTENDS Ingestion, FoldLemmas

USE IngestionAssumption

TaskPlaces == {"none", "queued", "resolve", "respond", "stream", "fetch", "probe", "ended"}
Statuses == {"none", "downloading", "completed", "failed"}
Files == [name : {"none", "source.download", "source"}, size : 0 .. YtMax, whole : BOOLEAN]

Queued(i) == \E n \in DOMAIN pending : pending[n] = i
Injective(s) == \A m, n \in DOMAIN s : s[m] = s[n] => m = n

PoolShape ==
  /\ pending \in Seq(Ids) /\ Injective(pending)
  /\ running \subseteq Ids

Shape ==
  /\ kind \in [Ids -> Kinds \cup {"none"}]
  /\ task \in [Ids -> TaskPlaces]
  /\ status \in [Ids -> Statuses]
  /\ hop \in [Ids -> 0 .. MaxRedirects + 1]
  /\ file \in [Ids -> Files]
  /\ aged \subseteq Ids /\ refused \subseteq Ids
  /\ stale \subseteq Ids /\ told \subseteq Ids /\ swept \subseteq Ids

(* What a transfer is says where its task can be.                           *)
KindFits(i) ==
  /\ task[i] = "none" => kind[i] = "none"
  /\ task[i] = "queued" => kind[i] \in {"direct", "youtube"}
  /\ task[i] \in {"resolve", "respond"} => kind[i] = "direct"
  /\ task[i] = "stream" => kind[i] \in {"direct", "upload"}
  /\ task[i] = "fetch" => kind[i] = "youtube"

JobFits(i) ==
  /\ Queued(i) => task[i] \in {"resolve", "fetch"} /\ i \notin running
  /\ i \in running =>
       \/ task[i] = "resolve"
       \/ kind[i] = "youtube" /\ task[i] \notin {"none", "queued", "probe"}

FileFits(i) ==
  /\ i \in told => task[i] = "ended" /\ i \notin running
  /\ i \in told \ swept => file[i].name = "source" /\ file[i].whole
  /\ task[i] = "probe" /\ file[i].name = "source" => file[i].whole

HopsFit(i) ==
  /\ i \in refused => task[i] = "ended" /\ hop[i] > MaxRedirects
  /\ i \notin refused => hop[i] <= MaxRedirects

Fits(i) == KindFits(i) /\ JobFits(i) /\ FileFits(i) /\ HopsFit(i)

Inv == Shape /\ PoolShape /\ \A i \in Ids : Fits(i)

-----------------------------------------------------------------------------
(* Most steps are about one transfer.                                       *)
Untouched(i) ==
  /\ kind'[i] = kind[i] /\ task'[i] = task[i] /\ hop'[i] = hop[i] /\ file'[i] = file[i]
  /\ Queued(i)' => Queued(i)
  /\ i \in running' => i \in running
  /\ i \in told' <=> i \in told
  /\ i \in swept' <=> i \in swept
  /\ i \in refused' <=> i \in refused

LEMMA OthersFit ==
  ASSUME NEW i \in Ids, Fits(i), Untouched(i)
  PROVE  Fits(i)'
<1>1. KindFits(i)' /\ HopsFit(i)'
  BY DEF Fits, KindFits, HopsFit, Untouched
<1>2. JobFits(i)'
  BY DEF Fits, JobFits, Untouched
<1>3. FileFits(i)'
  BY DEF Fits, FileFits, Untouched
<1> QED
  BY <1>1, <1>2, <1>3 DEF Fits

LEMMA OneTransfer ==
  ASSUME Inv, NEW i \in Ids, Shape', PoolShape', Fits(i)', \A j \in Ids \ {i} : Untouched(j)
  PROVE  Inv'
<1>1. \A j \in Ids : Fits(j)'
  BY OthersFit DEF Inv
<1> QED
  BY <1>1 DEF Inv

LEMMA PoolKept ==
  ASSUME PoolShape, UNCHANGED pending, running' \subseteq running
  PROVE  PoolShape' /\ \A i : Queued(i)' <=> Queued(i)
BY DEF PoolShape, Queued, Injective

(* Error paths: the task has ended and the file is gone.                    *)
LEMMA FailIs ==
  ASSUME Shape, NEW i \in Ids, Fail(i)
  PROVE  /\ task' \in [Ids -> TaskPlaces] /\ task'[i] = "ended"
         /\ file' \in [Ids -> Files] /\ file'[i] = NoFile
         /\ status' \in [Ids -> Statuses]
         /\ \A j \in Ids \ {i} : task'[j] = task[j] /\ file'[j] = file[j]
         /\ stale' \subseteq Ids /\ UNCHANGED <<kind, aged, told, swept>>
<1>1. NoFile \in Files
  BY DEF NoFile, Files
<1>2. task' = [task EXCEPT ![i] = "ended"] /\ file' = [file EXCEPT ![i] = NoFile]
  BY DEF Fail, Goes, Puts
<1>3. status' = IF status[i] = "none" THEN status ELSE [status EXCEPT ![i] = "failed"]
  BY DEF Fail, Record
<1>4. stale' \subseteq Ids /\ UNCHANGED <<kind, aged, told, swept>>
  BY DEF Fail, Puts, Shape
<1>5. status' \in [Ids -> Statuses]
  BY <1>3 DEF Shape, Statuses
<1>6. task' \in [Ids -> TaskPlaces] /\ file' \in [Ids -> Files]
  BY <1>1, <1>2 DEF Shape, TaskPlaces
<1> QED
  BY <1>2, <1>4, <1>5, <1>6 DEF Shape

(* The transfer fails where no job of the executor can be its own.          *)
LEMMA Failed ==
  ASSUME Inv, NEW i \in Ids, Fail(i), task[i] \notin {"none", "queued"},
         PoolShape', ~ Queued(i)', \A j \in Ids \ {i} : Queued(j)' => Queued(j),
         running' \subseteq running, i \in running' => kind[i] = "youtube",
         hop' \in [Ids -> 0 .. MaxRedirects + 1], \A j \in Ids \ {i} : hop'[j] = hop[j],
         refused \subseteq refused', refused' \subseteq refused \cup {i},
         i \in refused' <=> hop'[i] > MaxRedirects,
         task[i] # "ended"
  PROVE  Inv'
<1>1. /\ task' \in [Ids -> TaskPlaces] /\ task'[i] = "ended"
      /\ file' \in [Ids -> Files] /\ file'[i] = NoFile
      /\ status' \in [Ids -> Statuses]
      /\ \A j \in Ids \ {i} : task'[j] = task[j] /\ file'[j] = file[j]
      /\ stale' \subseteq Ids /\ UNCHANGED <<kind, aged, told, swept>>
  BY FailIs DEF Inv
<1>2. Shape'
  BY <1>1 DEF Inv, Shape
<1>3. Fits(i)
  BY DEF Inv
<1>4. KindFits(i)' /\ JobFits(i)'
  BY <1>1, <1>3 DEF Fits, KindFits, JobFits
<1>5. FileFits(i)'
  BY <1>1, <1>3 DEF Fits, FileFits
<1>6. HopsFit(i)'
  BY <1>1, <1>2 DEF HopsFit, Shape
<1>7. \A j \in Ids \ {i} : Untouched(j)
  BY <1>1 DEF Untouched
<1> QED
  BY <1>2, <1>4, <1>5, <1>6, <1>7, OneTransfer DEF Fits

(* The task of a transfer goes on, its file and its count of redirects kept.*)
LEMMA Proceeds ==
  ASSUME Inv, NEW i \in Ids, NEW where \in TaskPlaces, Goes(i, where),
         PoolShape', Fits(i)', \A j \in Ids \ {i} : Queued(j)' => Queued(j),
         running' \subseteq running,
         status' \in [Ids -> Statuses], stale' \subseteq Ids,
         UNCHANGED <<kind, aged, hop, refused, swept>>,
         told \subseteq told', told' \subseteq told \cup {i},
         file' \in [Ids -> Files], \A j \in Ids \ {i} : file'[j] = file[j]
  PROVE  Inv'
<1>1. task' \in [Ids -> TaskPlaces] /\ \A j \in Ids \ {i} : task'[j] = task[j]
  BY DEF Inv, Shape, Goes
<1>2. Shape'
  BY <1>1 DEF Inv, Shape
<1>3. \A j \in Ids \ {i} : Untouched(j)
  BY <1>1 DEF Untouched
<1> QED
  BY <1>2, <1>3, OneTransfer

-----------------------------------------------------------------------------
(* The queue of the executor.                                               *)
LEMMA Submitted ==
  ASSUME PoolShape, NEW i \in Ids, ~ Queued(i), Submit(i), UNCHANGED running
  PROVE  /\ PoolShape' /\ Queued(i)'
         /\ \A j \in Ids \ {i} : Queued(j)' => Queued(j)
<1>1. /\ pending' \in Seq(Ids) /\ Len(pending') = Len(pending) + 1
      /\ pending'[Len(pending) + 1] = i
      /\ \A n \in 1 .. Len(pending) : pending'[n] = pending[n]
  BY DEF PoolShape, Submit
<1>2. DOMAIN pending = 1 .. Len(pending) /\ DOMAIN pending' = 1 .. (Len(pending) + 1)
      /\ Len(pending) \in Nat
  BY <1>1 DEF PoolShape
<1>3. \A n \in 1 .. Len(pending) : pending[n] # i
  BY <1>2 DEF Queued
<1>4. Injective(pending')
  BY <1>1, <1>2, <1>3 DEF PoolShape, Injective
<1>5. Queued(i)' /\ \A j \in Ids \ {i} : Queued(j)' => Queued(j)
  BY <1>1, <1>2 DEF Queued
<1> QED
  BY <1>1, <1>4, <1>5 DEF PoolShape

LEMMA Taken ==
  ASSUME PoolShape, NEW e, pending # <<>>, e = Head(pending), pending' = Tail(pending),
         running' = running \cup {e}
  PROVE  /\ PoolShape' /\ e \in Ids /\ Queued(e)
         /\ ~ Queued(e)' /\ \A j \in Ids : Queued(j)' => Queued(j)
<1>1. /\ e = pending[1] /\ Len(pending) \in Nat \ {0}
      /\ DOMAIN pending = 1 .. Len(pending) /\ pending[1] \in Ids
  BY DEF PoolShape
<1>2. /\ pending' \in Seq(Ids) /\ DOMAIN pending' = 1 .. (Len(pending) - 1)
      /\ \A n \in 1 .. (Len(pending) - 1) : pending'[n] = pending[n + 1]
  BY <1>1 DEF PoolShape
<1>3. Injective(pending')
  BY <1>1, <1>2 DEF PoolShape, Injective
<1>4. \A n \in DOMAIN pending' : n + 1 \in DOMAIN pending /\ n + 1 # 1 /\ 1 \in DOMAIN pending
  BY <1>1, <1>2
<1>5. ~ Queued(e)'
  BY <1>1, <1>2, <1>4 DEF Queued, PoolShape, Injective
<1>6. \A j \in Ids : Queued(j)' => Queued(j)
  BY <1>2, <1>4 DEF Queued
<1>7. Queued(e)
  BY <1>1 DEF Queued
<1> QED
  BY <1>1, <1>2, <1>3, <1>5, <1>6, <1>7 DEF PoolShape

LEMMA Dropped ==
  ASSUME PoolShape, NEW e, NEW n \in DOMAIN pending, pending[n] = e,
         pending' = RemoveAt(pending, n), UNCHANGED running
  PROVE  /\ PoolShape' /\ ~ Queued(e)'
         /\ \A j \in Ids : Queued(j)' => Queued(j)
<1> DEFINE L == Len(pending)
           left == SubSeq(pending, 1, n - 1)
           right == SubSeq(pending, n + 1, L)
<1>1. /\ n \in 1 .. L /\ L \in Nat
      /\ DOMAIN pending = 1 .. L /\ \A m \in 1 .. L : pending[m] \in Ids
  BY DEF PoolShape
<1> HIDE DEF L
<1>2. /\ left \in Seq(Ids) /\ Len(left) = n - 1
      /\ \A m \in 1 .. (n - 1) : left[m] = pending[m]
  <2>1. /\ left \in Seq(Ids) /\ Len(left) = IF 1 <= n - 1 THEN (n - 1) - 1 + 1 ELSE 0
        /\ \A m \in 1 .. (n - 1) - 1 + 1 : left[m] = pending[1 + m - 1]
    BY <1>1, SubSeqProperties
  <2> HIDE DEF left
  <2> QED
    BY <1>1, <2>1
<1>3. /\ right \in Seq(Ids) /\ Len(right) = L - n
      /\ \A m \in 1 .. (L - n) : right[m] = pending[n + m]
  <2>1. /\ right \in Seq(Ids) /\ Len(right) = IF n + 1 <= L THEN L - (n + 1) + 1 ELSE 0
        /\ \A m \in 1 .. L - (n + 1) + 1 : right[m] = pending[(n + 1) + m - 1]
    <3>1. n + 1 \in Int /\ L \in Int /\ \A m \in (n + 1) .. L : pending[m] \in Ids
      BY <1>1
    <3> QED
      BY <3>1, SubSeqProperties
  <2> HIDE DEF right
  <2>2. Len(right) = L - n /\ L - (n + 1) + 1 = L - n
    BY <1>1, <2>1
  <2>3. \A m \in 1 .. (L - n) : (n + 1) + m - 1 = n + m
    BY <1>1
  <2> QED
    BY <2>1, <2>2, <2>3
<1>4. pending' = left \o right
  BY DEF RemoveAt, L
<1> HIDE DEF left, right
<1>5. /\ pending' \in Seq(Ids) /\ Len(pending') = L - 1
      /\ \A m \in 1 .. L - 1 : pending'[m] = IF m < n THEN pending[m] ELSE pending[m + 1]
  <2>1. /\ pending' \in Seq(Ids) /\ Len(pending') = Len(left) + Len(right)
        /\ \A m \in 1 .. Len(left) + Len(right) :
              pending'[m] = IF m <= Len(left) THEN left[m] ELSE right[m - Len(left)]
    <3>1. /\ left \o right \in Seq(Ids) /\ Len(left \o right) = Len(left) + Len(right)
          /\ \A m \in 1 .. Len(left) + Len(right) :
                (left \o right)[m] = IF m <= Len(left) THEN left[m] ELSE right[m - Len(left)]
      BY <1>2, <1>3, ConcatProperties
    <3> QED
      BY <1>4, <3>1
  <2>2. Len(left) + Len(right) = L - 1 /\ Len(left) = n - 1
    BY <1>1, <1>2, <1>3
  <2>3. \A m \in 1 .. L - 1 : pending'[m] = IF m <= n - 1 THEN left[m] ELSE right[m - (n - 1)]
    BY <2>1, <2>2
  <2>4. ASSUME NEW m \in 1 .. L - 1, m < n PROVE pending'[m] = pending[m]
    <3>1. m \in 1 .. (n - 1) /\ m <= n - 1
      BY <1>1, <2>4
    <3> QED
      BY <1>2, <2>3, <3>1
  <2>5. ASSUME NEW m \in 1 .. L - 1, ~ (m < n) PROVE pending'[m] = pending[m + 1]
    <3>1. m - (n - 1) \in 1 .. (L - n) /\ ~ (m <= n - 1)
      BY <1>1, <2>5
    <3>2. right[m - (n - 1)] = pending[n + (m - (n - 1))]
      BY <1>3, <3>1
    <3>3. n + (m - (n - 1)) = m + 1
      BY <1>1
    <3> QED
      BY <2>3, <3>1, <3>2, <3>3
  <2> QED
    BY <2>1, <2>2, <2>4, <2>5
<1>6. DOMAIN pending' = 1 .. L - 1
  BY <1>5
<1> DEFINE from(m) == IF m < n THEN m ELSE m + 1
<1>7. \A m \in DOMAIN pending' : /\ from(m) \in DOMAIN pending /\ from(m) # n
                                 /\ pending'[m] = pending[from(m)]
  BY <1>1, <1>5, <1>6
<1>8. \A l, m \in DOMAIN pending' : from(l) = from(m) => l = m
  BY <1>1, <1>6
<1> HIDE DEF from
<1>9. Injective(pending')
  BY <1>7, <1>8 DEF PoolShape, Injective
<1>10. ~ Queued(e)' /\ \A j \in Ids : Queued(j)' => Queued(j)
  BY <1>7 DEF Queued, PoolShape, Injective
<1> QED
  BY <1>5, <1>9, <1>10 DEF PoolShape

-----------------------------------------------------------------------------
(* Transfers begin.                                                         *)
LEMMA BeginFits ==
  ASSUME Inv, NEW i \in Ids, NEW k \in {"direct", "youtube", "upload"},
         NEW where \in {"queued", "stream"}, Begin(i, k, where),
         where = "queued" <=> k \in {"direct", "youtube"},
         status' \in [Ids -> Statuses], file' \in [Ids -> Files],
         \A j \in Ids \ {i} : file'[j] = file[j],
         stale' \subseteq Ids, UNCHANGED <<aged, hop, refused, pending, running, told, swept>>
  PROVE  Inv'
<1>1. /\ task[i] = "none" /\ k \in Kinds
      /\ kind' = [kind EXCEPT ![i] = k] /\ task' = [task EXCEPT ![i] = where]
  BY DEF Begin, Goes
<1>2. /\ kind' \in [Ids -> Kinds \cup {"none"}] /\ kind'[i] = k
      /\ task' \in [Ids -> TaskPlaces] /\ task'[i] = where
      /\ \A j \in Ids \ {i} : kind'[j] = kind[j] /\ task'[j] = task[j]
  BY <1>1 DEF Inv, Shape, TaskPlaces
<1>3. PoolShape' /\ \A j : Queued(j)' <=> Queued(j)
  BY PoolKept DEF Inv
<1>4. Shape'
  BY <1>2 DEF Inv, Shape
<1>5. Fits(i)
  BY DEF Inv
<1>6. KindFits(i)' /\ JobFits(i)'
  BY <1>1, <1>2, <1>3, <1>5 DEF Fits, KindFits, JobFits
<1>7. FileFits(i)' /\ HopsFit(i)'
  BY <1>1, <1>2, <1>5 DEF Fits, FileFits, HopsFit
<1>8. \A j \in Ids \ {i} : Untouched(j)
  BY <1>2, <1>3 DEF Untouched
<1> QED
  BY <1>3, <1>4, <1>6, <1>7, <1>8, OneTransfer DEF Fits

LEMMA FilePut ==
  ASSUME Shape, NEW i \in Ids, NEW f \in Files, Puts(i, f)
  PROVE  /\ file' \in [Ids -> Files] /\ file'[i] = f
         /\ \A j \in Ids \ {i} : file'[j] = file[j]
         /\ stale' \subseteq Ids
BY DEF Shape, Puts

LEMMA NewFileIsFile == \A name \in {"source.download", "source"} : NewFile(name) \in Files
BY DEF NewFile, Files

LEMMA StartFits ==
  ASSUME Inv, NEW i \in Ids, StartUpload(i) \/ \E k \in Kinds : StartIngest(i, k)
  PROVE  Inv'
<1>1. CASE StartUpload(i)
  <2>1. /\ file' \in [Ids -> Files] /\ \A j \in Ids \ {i} : file'[j] = file[j]
        /\ stale' \subseteq Ids
    BY <1>1, NewFileIsFile, FilePut DEF StartUpload, Inv
  <2>2. Begin(i, "upload", "stream") /\ UNCHANGED <<status, aged, hop, refused, pending, running, told, swept>>
    BY <1>1 DEF StartUpload, poolVars
  <2>3. status' \in [Ids -> Statuses]
    BY <2>2 DEF Inv, Shape
  <2> QED
    BY <2>1, <2>2, <2>3, BeginFits
<1>2. ASSUME NEW k \in Kinds, StartIngest(i, k) PROVE Inv'
  <2>1. /\ k \in {"direct", "youtube"} /\ Begin(i, k, "queued")
        /\ status' = [status EXCEPT ![i] = "downloading"]
        /\ UNCHANGED <<aged, hop, refused, pending, running, file, stale, told, swept>>
    BY <1>2 DEF StartIngest, poolVars, diskVars
  <2>2. status' \in [Ids -> Statuses]
    BY <2>1 DEF Inv, Shape, Statuses
  <2>3. file' \in [Ids -> Files] /\ stale' \subseteq Ids
    BY <2>1 DEF Inv, Shape
  <2> QED
    BY <2>1, <2>2, <2>3, BeginFits
<1> QED
  BY <1>1, <1>2

-----------------------------------------------------------------------------
(* The steps of a download and of an upload.                                *)
LEMMA TransferOf ==
  ASSUME Inv, NEW i \in Ids
  PROVE  /\ Fits(i) /\ file[i] \in Files /\ hop[i] \in 0 .. MaxRedirects + 1
         /\ Queued(i) => task[i] \in {"resolve", "fetch"} /\ i \notin running
         /\ i \in refused <=> hop[i] > MaxRedirects
BY DEF Inv, Shape, Fits, JobFits, HopsFit

LEMMA EnterSlotFits ==
  ASSUME Inv, NEW i \in Ids, EnterSlot(i)
  PROVE  Inv'
<1>1. /\ task[i] = "queued" /\ Submit(i)
      /\ UNCHANGED <<kind, status, aged, hop, refused, running, file, stale, told, swept>>
  BY DEF EnterSlot, At, diskVars
<1>2. PICK where \in {"resolve", "fetch"} :
        Goes(i, where) /\ where = IF kind[i] = "direct" THEN "resolve" ELSE "fetch"
  BY DEF EnterSlot
<1>3. Fits(i) /\ ~ Queued(i) /\ i \notin running
  BY <1>1, TransferOf DEF Fits, JobFits
<1>4. PoolShape' /\ \A j \in Ids \ {i} : Queued(j)' => Queued(j)
  BY <1>1, <1>3, Submitted DEF Inv
<1>5. task'[i] = where
  BY <1>2 DEF Goes, Inv, Shape
<1>6. Fits(i)'
  BY <1>1, <1>2, <1>3, <1>5 DEF Fits, KindFits, JobFits, FileFits, HopsFit
<1>7. status' \in [Ids -> Statuses] /\ file' \in [Ids -> Files] /\ stale' \subseteq Ids
  BY <1>1 DEF Inv, Shape
<1> QED
  BY <1>1, <1>2, <1>4, <1>6, <1>7, Proceeds DEF TaskPlaces

LEMMA ThreadTakesFits ==
  ASSUME Inv, ThreadTakes
  PROVE  Inv'
<1> DEFINE e == Head(pending)
<1>1. /\ pending # <<>> /\ pending' = Tail(pending) /\ running' = running \cup {e}
      /\ UNCHANGED <<kind, task, status, aged, hop, refused, file, stale, told, swept>>
  BY DEF ThreadTakes, taskVars, diskVars
<1>2. PICK i : i = e
  OBVIOUS
<1>3. /\ PoolShape' /\ i \in Ids /\ Queued(i)
      /\ ~ Queued(i)' /\ \A j \in Ids : Queued(j)' => Queued(j)
  BY <1>1, <1>2, Taken DEF Inv
<1>4. running' = running \cup {i}
  BY <1>1, <1>2
<1> HIDE DEF e
<1>5. Shape'
  BY <1>1 DEF Inv, Shape
<1>6. Fits(i) /\ task[i] \in {"resolve", "fetch"}
  BY <1>3, TransferOf
<1>7. Fits(i)'
  BY <1>1, <1>3, <1>6 DEF Fits, KindFits, JobFits, FileFits, HopsFit
<1>8. \A j \in Ids \ {i} : Untouched(j)
  BY <1>1, <1>3, <1>4 DEF Untouched
<1> QED
  BY <1>3, <1>5, <1>7, <1>8, OneTransfer

LEMMA HostIsPublicFits ==
  ASSUME Inv, NEW i \in Ids, HostIsPublic(i)
  PROVE  Inv'
<1>1. /\ task[i] = "resolve" /\ i \in running /\ running' = running \ {i} /\ Goes(i, "respond")
      /\ UNCHANGED <<kind, status, aged, hop, refused, pending, file, stale, told, swept>>
  BY DEF HostIsPublic, At, diskVars
<1>2. PoolShape' /\ \A j : Queued(j)' <=> Queued(j)
  BY <1>1, PoolKept DEF Inv
<1>3. Fits(i) /\ ~ Queued(i) /\ task'[i] = "respond"
  BY <1>1, TransferOf DEF Goes, Inv, Shape
<1>4. Fits(i)'
  BY <1>1, <1>2, <1>3 DEF Fits, KindFits, JobFits, FileFits, HopsFit
<1>5. status' \in [Ids -> Statuses] /\ file' \in [Ids -> Files] /\ stale' \subseteq Ids
  BY <1>1 DEF Inv, Shape
<1> QED
  BY <1>1, <1>2, <1>4, <1>5, Proceeds DEF TaskPlaces

LEMMA HostIsRefusedFits ==
  ASSUME Inv, NEW i \in Ids, HostIsRefused(i)
  PROVE  Inv'
<1>1. /\ task[i] = "resolve" /\ i \in running /\ running' = running \ {i} /\ Fail(i)
      /\ UNCHANGED <<hop, refused, pending>>
  BY DEF HostIsRefused, At
<1>2. PoolShape' /\ \A j : Queued(j)' <=> Queued(j)
  BY <1>1, PoolKept DEF Inv
<1>3. ~ Queued(i) /\ (i \in refused <=> hop[i] > MaxRedirects)
  BY <1>1, TransferOf
<1>4. hop' \in [Ids -> 0 .. MaxRedirects + 1]
  BY <1>1 DEF Inv, Shape
<1> QED
  BY <1>1, <1>2, <1>3, <1>4, Failed

LEMMA RedirectedFits ==
  ASSUME Inv, NEW i \in Ids, Redirected(i)
  PROVE  Inv'
<1>1. /\ task[i] = "respond" /\ hop' = [hop EXCEPT ![i] = @ + 1] /\ UNCHANGED running
      /\ IF AnotherHop(hop'[i])
           THEN /\ Goes(i, "resolve") /\ Submit(i)
                /\ UNCHANGED <<kind, status, aged, refused, file, stale, told, swept>>
           ELSE /\ Fail(i) /\ refused' = refused \cup {i} /\ UNCHANGED pending
  BY DEF Redirected, At, diskVars
<1>2. /\ Fits(i) /\ ~ Queued(i) /\ i \notin running /\ kind[i] = "direct"
      /\ i \notin refused /\ hop[i] \in 0 .. MaxRedirects
  BY <1>1, TransferOf DEF Fits, JobFits, KindFits, HopsFit
<1>3. /\ hop' \in [Ids -> 0 .. MaxRedirects + 1] /\ hop'[i] = hop[i] + 1
      /\ \A j \in Ids \ {i} : hop'[j] = hop[j]
  <2> DEFINE n == hop[i] + 1
  <2>1. n \in 0 .. MaxRedirects + 1 /\ hop' = [hop EXCEPT ![i] = n]
    BY <1>1, <1>2
  <2> HIDE DEF n
  <2>2. /\ hop' \in [Ids -> 0 .. MaxRedirects + 1] /\ hop'[i] = n
        /\ \A j \in Ids \ {i} : hop'[j] = hop[j]
    BY <2>1 DEF Inv, Shape
  <2> QED
    BY <2>2 DEF n
<1>4. CASE AnotherHop(hop'[i])
  <2>1. PoolShape' /\ \A j \in Ids \ {i} : Queued(j)' => Queued(j)
    BY <1>1, <1>2, <1>4, Submitted DEF Inv
  <2>2. /\ task' \in [Ids -> TaskPlaces] /\ task'[i] = "resolve"
        /\ \A j \in Ids \ {i} : task'[j] = task[j]
    BY <1>1, <1>4 DEF Goes, Inv, Shape, TaskPlaces
  <2>3. Shape'
    BY <1>1, <1>3, <1>4, <2>2 DEF Inv, Shape
  <2>4. hop'[i] <= MaxRedirects
    BY <1>2, <1>3, <1>4 DEF AnotherHop
  <2>5. KindFits(i)' /\ JobFits(i)' /\ FileFits(i)' /\ HopsFit(i)'
    BY <1>1, <1>2, <1>4, <2>2, <2>4 DEF Fits, KindFits, JobFits, FileFits, HopsFit
  <2>6. \A j \in Ids \ {i} : Untouched(j)
    BY <1>1, <1>3, <1>4, <2>1, <2>2 DEF Untouched
  <2> QED
    BY <2>1, <2>3, <2>5, <2>6, OneTransfer DEF Fits
<1>5. CASE ~ AnotherHop(hop'[i])
  <2>1. Fail(i) /\ refused' = refused \cup {i} /\ UNCHANGED pending
    BY <1>1, <1>5
  <2>2. PoolShape' /\ \A j : Queued(j)' <=> Queued(j)
    BY <1>1, <2>1, PoolKept DEF Inv
  <2>3. hop'[i] > MaxRedirects
    BY <1>2, <1>3, <1>5 DEF AnotherHop
  <2> QED
    BY <1>1, <1>2, <1>3, <2>1, <2>2, <2>3, Failed
<1> QED
  BY <1>4, <1>5

LEMMA RespondsFits ==
  ASSUME Inv, NEW i \in Ids, Responds(i)
  PROVE  Inv'
<1>1. /\ task[i] = "respond" /\ Goes(i, "stream") /\ Puts(i, NewFile("source.download"))
      /\ UNCHANGED <<kind, status, aged, hop, refused, pending, running, told, swept>>
  BY DEF Responds, At, poolVars
<1>2. /\ file' \in [Ids -> Files] /\ file'[i] = NewFile("source.download")
      /\ \A j \in Ids \ {i} : file'[j] = file[j]
      /\ stale' \subseteq Ids
  BY <1>1, NewFileIsFile, FilePut DEF Inv
<1>3. PoolShape' /\ \A j : Queued(j)' <=> Queued(j)
  BY <1>1, PoolKept DEF Inv
<1>4. Fits(i) /\ task'[i] = "stream"
  BY <1>1 DEF Goes, Inv, Shape
<1>5. Fits(i)'
  BY <1>1, <1>3, <1>4 DEF Fits, KindFits, JobFits, FileFits, HopsFit
<1>6. status' \in [Ids -> Statuses]
  BY <1>1 DEF Inv, Shape
<1> QED
  BY <1>1, <1>2, <1>3, <1>5, <1>6, Proceeds DEF TaskPlaces

(* Bytes arrive: no task moves.                                             *)
LEMMA FileGrows ==
  ASSUME Inv, NEW i \in Ids, NEW f \in Files, file' = [file EXCEPT ![i] = f],
         i \notin told, task[i] # "probe", stale' \subseteq Ids,
         UNCHANGED <<kind, task, status, aged, hop, refused, pending, running, told, swept>>
  PROVE  Inv'
<1>1. PoolShape' /\ \A j : Queued(j)' <=> Queued(j)
  BY PoolKept DEF Inv
<1>2. Shape' /\ \A j \in Ids \ {i} : file'[j] = file[j]
  BY DEF Inv, Shape
<1>3. Fits(i)
  BY DEF Inv
<1>4. Fits(i)'
  BY <1>1, <1>3 DEF Fits, KindFits, JobFits, FileFits, HopsFit
<1>5. \A j \in Ids \ {i} : Untouched(j)
  BY <1>1, <1>2 DEF Untouched
<1> QED
  BY <1>1, <1>2, <1>4, <1>5, OneTransfer

LEMMA ChunkFits ==
  ASSUME Inv, NEW i \in Ids, Chunk(i)
  PROVE  Inv'
<1> DEFINE f == [file[i] EXCEPT !.size = @ + 1]
<1>1. /\ task[i] = "stream" /\ file[i].size < MaxUpload
      /\ file' = [file EXCEPT ![i] = f]
      /\ UNCHANGED <<kind, task, status, aged, hop, refused, pending, running, stale, told, swept>>
  BY DEF Chunk, At, taskVars, poolVars
<1>2. Fits(i) /\ file[i] \in Files
  BY TransferOf
<1>3. f \in Files
  <2>1. file[i].size + 1 \in 0 .. YtMax
    BY <1>1, <1>2 DEF Files
  <2> QED
    BY <1>2, <2>1 DEF Files
<1>4. i \notin told /\ stale' \subseteq Ids
  BY <1>1, <1>2 DEF Fits, FileFits, Inv, Shape
<1> HIDE DEF f
<1> QED
  BY <1>1, <1>3, <1>4, FileGrows

LEMMA StreamEndsFits ==
  ASSUME Inv, NEW i \in Ids, StreamEnds(i)
  PROVE  Inv'
<1> DEFINE f == [file[i] EXCEPT !.name = "source", !.whole = TRUE]
<1>1. /\ task[i] = "stream" /\ Goes(i, "probe") /\ Puts(i, f)
      /\ UNCHANGED <<kind, status, aged, hop, refused, pending, running, told, swept>>
  BY DEF StreamEnds, At, poolVars
<1>2. f \in Files /\ f.whole
  BY TransferOf DEF Files
<1> HIDE DEF f
<1>3. /\ file' \in [Ids -> Files] /\ file'[i] = f
      /\ \A j \in Ids \ {i} : file'[j] = file[j]
      /\ stale' \subseteq Ids
  BY <1>1, <1>2, FilePut DEF Inv
<1>4. PoolShape' /\ \A j : Queued(j)' <=> Queued(j)
  BY <1>1, PoolKept DEF Inv
<1>5. Fits(i) /\ ~ Queued(i) /\ task'[i] = "probe"
  BY <1>1, TransferOf DEF Goes, Inv, Shape
<1>6. Fits(i)'
  BY <1>1, <1>2, <1>3, <1>4, <1>5 DEF Fits, KindFits, JobFits, FileFits, HopsFit
<1>7. status' \in [Ids -> Statuses]
  BY <1>1 DEF Inv, Shape
<1> QED
  BY <1>1, <1>3, <1>4, <1>6, <1>7, Proceeds DEF TaskPlaces

LEMMA TransferFailsFits ==
  ASSUME Inv, NEW i \in Ids, TransferFails(i)
  PROVE  Inv'
<1>1. /\ task[i] \in {"respond", "stream", "probe"} /\ Fail(i)
      /\ UNCHANGED <<hop, refused, pending, running>>
  BY DEF TransferFails, poolVars
<1>2. PoolShape' /\ \A j : Queued(j)' <=> Queued(j)
  BY <1>1, PoolKept DEF Inv
<1>3. /\ ~ Queued(i) /\ (i \in refused <=> hop[i] > MaxRedirects)
      /\ i \in running => kind[i] = "youtube"
  BY <1>1, TransferOf DEF Fits, JobFits
<1>4. hop' \in [Ids -> 0 .. MaxRedirects + 1]
  BY <1>1 DEF Inv, Shape
<1> QED
  BY <1>1, <1>2, <1>3, <1>4, Failed

LEMMA UploadBreaksFits ==
  ASSUME Inv, NEW i \in Ids, UploadBreaks(i)
  PROVE  Inv'
<1>1. /\ task[i] \in {"stream", "probe"} /\ kind[i] = "upload" /\ Goes(i, "ended")
      /\ UNCHANGED <<kind, status, aged, hop, refused, pending, running, file, stale, told, swept>>
  BY DEF UploadBreaks, poolVars, diskVars
<1>2. PoolShape' /\ \A j : Queued(j)' <=> Queued(j)
  BY <1>1, PoolKept DEF Inv
<1>3. Fits(i) /\ task'[i] = "ended"
  BY <1>1 DEF Goes, Inv, Shape
<1>4. Fits(i)'
  BY <1>1, <1>2, <1>3 DEF Fits, KindFits, JobFits, FileFits, HopsFit
<1>5. status' \in [Ids -> Statuses] /\ file' \in [Ids -> Files] /\ stale' \subseteq Ids
  BY <1>1 DEF Inv, Shape
<1> QED
  BY <1>1, <1>2, <1>4, <1>5, Proceeds DEF TaskPlaces

LEMMA RecordIs ==
  ASSUME Shape, NEW i \in Ids, NEW s \in Statuses, Record(i, s)
  PROVE  status' \in [Ids -> Statuses]
BY DEF Record, Shape

LEMMA ProbeDoneFits ==
  ASSUME Inv, NEW i \in Ids, ProbeDone(i)
  PROVE  Inv'
<1>1. /\ task[i] = "probe" /\ file[i].name = "source" /\ Goes(i, "ended")
      /\ Record(i, "completed") /\ told' = told \cup {i}
      /\ UNCHANGED <<kind, aged, hop, refused, pending, running, file, stale, swept>>
  BY DEF ProbeDone, At, poolVars
<1>2. PoolShape' /\ \A j : Queued(j)' <=> Queued(j)
  BY <1>1, PoolKept DEF Inv
<1>3. Fits(i) /\ task'[i] = "ended" /\ i \notin running
  BY <1>1 DEF Goes, Inv, Shape, Fits, JobFits
<1>4. Fits(i)'
  BY <1>1, <1>2, <1>3 DEF Fits, KindFits, JobFits, FileFits, HopsFit
<1>5. status' \in [Ids -> Statuses]
  BY <1>1, RecordIs DEF Inv, Statuses
<1>6. file' \in [Ids -> Files] /\ stale' \subseteq Ids
  BY <1>1 DEF Inv, Shape
<1> QED
  BY <1>1, <1>2, <1>4, <1>5, <1>6, Proceeds DEF TaskPlaces

-----------------------------------------------------------------------------
(* yt-dlp on its thread: its file is not told of and not being probed.      *)
LEMMA YtWritesFits ==
  ASSUME Inv, NEW i \in Ids, YtWrites(i)
  PROVE  Inv'
<1> DEFINE f == [name |-> "source", size |-> file[i].size + 1, whole |-> FALSE]
<1>1. /\ i \in running /\ kind[i] = "youtube" /\ file[i].size < YtMax
      /\ file' = [file EXCEPT ![i] = f] /\ stale' = stale \ {i}
      /\ UNCHANGED <<kind, task, status, aged, hop, refused, pending, running, told, swept>>
  BY DEF YtWrites, Puts, taskVars, poolVars
<1>2. Fits(i) /\ file[i] \in Files
  BY TransferOf
<1>3. f \in Files
  <2>1. file[i].size + 1 \in 0 .. YtMax
    BY <1>1, <1>2 DEF Files
  <2> QED
    BY <2>1 DEF Files
<1>4. i \notin told /\ task[i] # "probe" /\ stale' \subseteq Ids
  BY <1>1, <1>2 DEF Fits, FileFits, JobFits, Inv, Shape
<1> HIDE DEF f
<1> QED
  BY <1>1, <1>3, <1>4, FileGrows

LEMMA YtFinishesFits ==
  ASSUME Inv, NEW i \in Ids, YtFinishes(i)
  PROVE  Inv'
<1> DEFINE f == [file[i] EXCEPT !.whole = TRUE]
<1>1. /\ i \in running /\ kind[i] = "youtube" /\ running' = running \ {i} /\ Puts(i, f)
      /\ IF task[i] = "fetch" THEN Goes(i, "probe") ELSE UNCHANGED task
      /\ UNCHANGED <<kind, status, aged, hop, refused, pending, told, swept>>
  BY DEF YtFinishes, At
<1>2. f \in Files /\ f.whole
  BY TransferOf DEF Files
<1> HIDE DEF f
<1>3. /\ file' \in [Ids -> Files] /\ file'[i] = f
      /\ \A j \in Ids \ {i} : file'[j] = file[j]
      /\ stale' \subseteq Ids
  BY <1>1, <1>2, FilePut DEF Inv
<1>4. PoolShape' /\ \A j : Queued(j)' <=> Queued(j)
  BY <1>1, PoolKept DEF Inv
<1>5. Fits(i) /\ ~ Queued(i) /\ i \notin told
  BY <1>1, TransferOf DEF Fits, FileFits
<1>6. /\ task' \in [Ids -> TaskPlaces] /\ \A j \in Ids \ {i} : task'[j] = task[j]
      /\ task'[i] = IF task[i] = "fetch" THEN "probe" ELSE task[i]
  BY <1>1 DEF Goes, Inv, Shape, TaskPlaces
<1>7. Shape'
  BY <1>1, <1>3, <1>6 DEF Inv, Shape
<1>8. KindFits(i)' /\ HopsFit(i)'
  BY <1>1, <1>5, <1>6 DEF Fits, KindFits, HopsFit
<1>9. JobFits(i)' /\ FileFits(i)'
  BY <1>1, <1>2, <1>3, <1>4, <1>5, <1>6 DEF Fits, JobFits, FileFits
<1>10. \A j \in Ids \ {i} : Untouched(j)
  BY <1>1, <1>3, <1>4, <1>6 DEF Untouched
<1> QED
  BY <1>4, <1>7, <1>8, <1>9, <1>10, OneTransfer DEF Fits

LEMMA YtFailsFits ==
  ASSUME Inv, NEW i \in Ids, YtFails(i)
  PROVE  Inv'
<1>1. /\ i \in running /\ kind[i] = "youtube" /\ running' = running \ {i} /\ UNCHANGED pending
  BY DEF YtFails
<1>2. PoolShape' /\ \A j : Queued(j)' <=> Queued(j)
  BY <1>1, PoolKept DEF Inv
<1>3. Fits(i) /\ ~ Queued(i) /\ (i \in refused <=> hop[i] > MaxRedirects)
  BY <1>1, TransferOf
<1>4. CASE task[i] = "fetch"
  <2>1. Fail(i) /\ UNCHANGED <<hop, refused>>
    BY <1>4 DEF YtFails, At
  <2>2. hop' \in [Ids -> 0 .. MaxRedirects + 1]
    BY <2>1 DEF Inv, Shape
  <2> QED
    BY <1>1, <1>2, <1>3, <1>4, <2>1, <2>2, Failed
<1>5. CASE task[i] # "fetch"
  <2>1. UNCHANGED <<kind, task, status, aged, hop, refused, file, stale, told, swept>>
    BY <1>5 DEF YtFails, At, taskVars, diskVars
  <2>2. Shape'
    BY <2>1 DEF Inv, Shape
  <2>3. Fits(i)'
    BY <1>1, <1>2, <1>3, <2>1 DEF Fits, KindFits, JobFits, FileFits, HopsFit
  <2>4. \A j \in Ids \ {i} : Untouched(j)
    BY <1>1, <1>2, <2>1 DEF Untouched
  <2> QED
    BY <1>2, <2>2, <2>3, <2>4, OneTransfer
<1> QED
  BY <1>4, <1>5

LEMMA FetchTimesOutFits ==
  ASSUME Inv, NEW i \in Ids, FetchTimesOut(i)
  PROVE  Inv'
<1>1. task[i] = "fetch" /\ Fail(i) /\ UNCHANGED <<hop, refused, running>>
  BY DEF FetchTimesOut, At
<1>2. PoolShape' /\ ~ Queued(i)' /\ \A j \in Ids : Queued(j)' => Queued(j)
  <2>1. CASE Queued(i)
    <3>1. PICK n \in DOMAIN pending : pending[n] = i /\ pending' = RemoveAt(pending, n)
      BY <2>1 DEF Queued, FetchTimesOut
    <3> QED
      BY <1>1, <3>1, Dropped DEF Inv
  <2>2. CASE ~ Queued(i)
    <3>1. UNCHANGED pending
      BY <2>2 DEF Queued, FetchTimesOut
    <3> QED
      BY <1>1, <2>2, <3>1, PoolKept DEF Inv
  <2> QED
    BY <2>1, <2>2
<1>3. (i \in refused <=> hop[i] > MaxRedirects) /\ kind[i] = "youtube"
  BY <1>1, TransferOf DEF Fits, KindFits
<1>4. hop' \in [Ids -> 0 .. MaxRedirects + 1]
  BY <1>1 DEF Inv, Shape
<1> QED
  BY <1>1, <1>2, <1>3, <1>4, Failed

-----------------------------------------------------------------------------
(* Time, the sweep and the restart.                                         *)
LEMMA AgesFits ==
  ASSUME Inv, NEW i \in Ids, DirAges(i) \/ RecordAges(i)
  PROVE  Inv'
<1>1. UNCHANGED <<kind, task, status, hop, refused, pending, running, file, told, swept>>
  BY DEF DirAges, RecordAges, taskVars, poolVars, diskVars
<1>2. PoolShape' /\ \A j : Queued(j)' <=> Queued(j)
  BY <1>1, PoolKept DEF Inv
<1>3. stale' \subseteq Ids /\ aged' \subseteq Ids
  BY DEF DirAges, RecordAges, taskVars, diskVars, Inv, Shape
<1>4. Shape'
  BY <1>1, <1>3 DEF Inv, Shape
<1>5. \A j \in Ids : Untouched(j)
  BY <1>1, <1>2 DEF Untouched
<1>6. Fits(i)'
  BY <1>5, OthersFit DEF Inv
<1> QED
  BY <1>2, <1>4, <1>5, <1>6, OneTransfer

LEMMA SweepFits ==
  ASSUME Inv, Sweep
  PROVE  Inv'
<1>1. /\ file' = [i \in Ids |-> IF i \in stale THEN NoFile ELSE file[i]]
      /\ stale' = stale \ stale /\ swept' = swept \cup stale
      /\ status' = [i \in Ids |-> IF i \in Purgeable THEN "none" ELSE status[i]]
      /\ UNCHANGED <<kind, task, aged, hop, refused, pending, running, told>>
  BY DEF Sweep, Removable, poolVars
<1>2. PoolShape' /\ \A j : Queued(j)' <=> Queued(j)
  BY <1>1, PoolKept DEF Inv
<1>3. file' \in [Ids -> Files] /\ status' \in [Ids -> Statuses]
  BY <1>1 DEF Inv, Shape, Statuses, NoFile, Files
<1>4. Shape'
  BY <1>1, <1>3 DEF Inv, Shape
<1>5. ASSUME NEW i \in Ids PROVE Fits(i)'
  <2>1. Fits(i)
    BY DEF Inv
  <2>2. KindFits(i)' /\ JobFits(i)' /\ HopsFit(i)'
    BY <1>1, <1>2, <2>1 DEF Fits, KindFits, JobFits, HopsFit
  <2>3. FileFits(i)'
    BY <1>1, <2>1 DEF Fits, FileFits, NoFile
  <2> QED
    BY <2>2, <2>3 DEF Fits
<1> QED
  BY <1>2, <1>4, <1>5 DEF Inv

LEMMA RestartFits ==
  ASSUME Inv, Restart
  PROVE  Inv'
<1>1. /\ task' = [i \in Ids |-> IF i \in Busy THEN "ended" ELSE task[i]]
      /\ status' = [i \in Ids |-> "none"]
      /\ pending' = <<>> /\ running' = {}
      /\ UNCHANGED <<kind, aged, hop, refused, file, stale, told, swept>>
  BY DEF Restart, diskVars
<1>2. PoolShape' /\ \A j : ~ Queued(j)'
  BY <1>1 DEF PoolShape, Queued, Injective
<1>3. task' \in [Ids -> TaskPlaces] /\ \A i \in Ids : task'[i] = IF task[i] = "none" THEN "none" ELSE "ended"
  BY <1>1 DEF Inv, Shape, TaskPlaces, Busy
<1>4. Shape'
  BY <1>1, <1>3 DEF Inv, Shape, Statuses
<1>5. ASSUME NEW i \in Ids PROVE Fits(i)'
  <2>1. Fits(i)
    BY DEF Inv
  <2>2. KindFits(i)' /\ JobFits(i)' /\ HopsFit(i)'
    BY <1>1, <1>2, <1>3, <2>1 DEF Fits, KindFits, JobFits, HopsFit
  <2>3. FileFits(i)'
    BY <1>1, <1>3, <2>1 DEF Fits, FileFits
  <2> QED
    BY <2>2, <2>3 DEF Fits
<1> QED
  BY <1>2, <1>4, <1>5 DEF Inv

-----------------------------------------------------------------------------
LEMMA InitFits == Init => Inv
<1> SUFFICES ASSUME Init PROVE Inv
  OBVIOUS
<1>1. Shape
  BY DEF Init, Shape, TaskPlaces, Statuses, Files, NoFile
<1>2. PoolShape /\ \A i : ~ Queued(i)
  BY DEF Init, PoolShape, Queued, Injective
<1>3. ASSUME NEW i \in Ids PROVE Fits(i)
  BY <1>2 DEF Init, Fits, KindFits, JobFits, FileFits, HopsFit
<1> QED
  BY <1>1, <1>2, <1>3 DEF Inv

LEMMA StepFits == Inv /\ [Next]_vars => Inv'
<1> SUFFICES ASSUME Inv, [Next]_vars PROVE Inv'
  OBVIOUS
<1>1. ASSUME NEW i \in Ids, TaskStep(i) PROVE Inv'
  BY <1>1, EnterSlotFits, HostIsPublicFits, HostIsRefusedFits, RedirectedFits, RespondsFits,
     ChunkFits, StreamEndsFits, TransferFailsFits, UploadBreaksFits, ProbeDoneFits,
     FetchTimesOutFits DEF TaskStep
<1>2. ASSUME NEW i \in Ids, YtWrites(i) \/ YtEnds(i) PROVE Inv'
  BY <1>2, YtWritesFits, YtFinishesFits, YtFailsFits DEF YtEnds
<1>3. CASE UNCHANGED vars
  <2>1. Shape' /\ PoolShape' /\ \A j : Queued(j)' <=> Queued(j)
    BY <1>3, PoolKept DEF Inv, Shape, vars
  <2>2. \A i \in Ids : Untouched(i)
    BY <1>3, <2>1 DEF Untouched, vars
  <2> QED
    BY <2>1, <2>2, OthersFit DEF Inv
<1> QED
  BY <1>1, <1>2, <1>3, StartFits, AgesFits, ThreadTakesFits, SweepFits, RestartFits DEF Next

LEMMA InvHolds == Spec => []Inv
<1>1. Init => Inv
  BY InitFits
<1>2. Inv /\ [Next]_vars => Inv'
  BY StepFits
<1> QED
  BY <1>1, <1>2, PTL DEF Spec

(* The variables have the values the code gives them, and a job of the      *)
(* executor belongs to a task that waits for it or to a YouTube download.   *)
THEOREM TypeOKHolds == Spec => []TypeOK
<1>1. ASSUME Inv PROVE TypeOK
  <2>1. \A n \in DOMAIN pending : pending[n] \in Ids /\ Queued(pending[n])
    BY <1>1 DEF Inv, PoolShape, Queued
  <2>2. \A n \in DOMAIN pending : task[pending[n]] \in {"resolve", "fetch"} /\ pending[n] \notin running
    BY <1>1, <2>1, TransferOf
  <2>3. running \subseteq {i \in Ids : kind[i] = "youtube" \/ At(i, "resolve")}
    BY <1>1 DEF Inv, PoolShape, Fits, JobFits, At
  <2>4. running \cap {pending[n] : n \in DOMAIN pending} = {}
    BY <2>2
  <2> QED
    BY <1>1, <2>2, <2>3, <2>4 DEF TypeOK, Inv, Shape, TaskPlaces, Statuses, Files
<1> QED
  BY <1>1, InvHolds, PTL

(* A client that has an upload id has a whole file, whatever timed out or   *)
(* was swept or restarted.                                                  *)
THEOREM ToldIsWholeHolds == Spec => []ToldIsWhole
<1>1. Inv => ToldIsWhole
  BY DEF Inv, Shape, Fits, FileFits, ToldIsWhole
<1> QED
  BY <1>1, InvHolds, PTL

(* MAX_DOWNLOAD_REDIRECTS redirects are followed and one more is refused.   *)
THEOREM RedirectLimitIsExactHolds == Spec => []RedirectLimitIsExact
<1>1. Inv => RedirectLimitIsExact
  BY DEF Inv, Shape, Fits, HopsFit, RedirectLimitIsExact
<1> QED
  BY <1>1, InvHolds, PTL
-----------------------------------------------------------------------------
(* How far the quota is exceeded.  Count for each transfer under way all    *)
(* its file may come to, and for each other one what it has written: only a *)
(* transfer that begins adds to that, and the quota is checked then.        *)
Weights == [i \in Ids |-> IF i \in UnderWay THEN YtMax ELSE file[i].size]
Sizes == [i \in Ids |-> file[i].size]
Room == Quota - MaxUpload + Max({1, peak}) * YtMax

PledgesFit == peak \in Nat /\ SumOver(Ids, Weights) <= Room

LEMMA LargerOfTwo ==
  ASSUME NEW a \in Int, NEW b \in Int
  PROVE  Max({a, b}) = IF a >= b THEN a ELSE b
<1>1. \E x \in {a, b} : \A y \in {a, b} : x >= y
  OBVIOUS
<1>2. Max({a, b}) \in {a, b} /\ \A y \in {a, b} : Max({a, b}) >= y
  BY <1>1 DEF Max
<1> QED
  BY <1>2

LEMMA SizesAre ==
  ASSUME Shape
  PROVE  \A i \in Ids : file[i].size \in 0 .. YtMax /\ file[i].size \in Nat
BY DEF Shape, Files

LEMMA UsedIsSum ==
  ASSUME Shape
  PROVE  Used = SumOver(Ids, Sizes)
<1> DEFINE P(g) == g = [s \in SUBSET Ids |->
                     IF s = {} THEN 0
                     ELSE file[CHOOSE x \in s : TRUE].size + g[s \ {CHOOSE x \in s : TRUE}]]
<1>1. Used = (CHOOSE g : P(g))[Ids]
  BY DEF Used, MapThenSumSet, MapThenFoldSet
<1>2. \A s \in SUBSET Ids : s # {} => Sizes[Pick(s)] = file[Pick(s)].size
  BY DEF Pick, Sizes
<1>3. ASSUME NEW g PROVE AddsUp(g, Ids, Sizes) <=> P(g)
  <2>1. \A s \in SUBSET Ids :
          AddNext(Sizes, g, s) = IF s = {} THEN 0 ELSE file[Pick(s)].size + g[Rest(s)]
    BY <1>2 DEF AddNext
  <2> QED
    BY <2>1 DEF AddsUp, Pick, Rest
<1>4. PICK g : AddsUp(g, Ids, Sizes) /\ SumOver(Ids, Sizes) = g[Ids]
  BY SizesAre, SumOverAddsUp, IngestionAssumption DEF Sizes
<1>5. P(g)
  BY <1>3, <1>4
<1> HIDE DEF P
<1>6. P(CHOOSE h : P(h))
  BY <1>5
<1>7. AddsUp((CHOOSE h : P(h)), Ids, Sizes)
  BY <1>3, <1>6
<1> QED
  BY <1>1, <1>4, <1>7, SumUnique

LEMMA UnderWayIs ==
  ASSUME PoolShape
  PROVE  UnderWay \in SUBSET Ids /\ IsFiniteSet(UnderWay) /\ Cardinality(UnderWay) \in Nat
<1>1. UnderWay \in SUBSET Ids
  BY DEF UnderWay, Busy, Orphans, PoolShape
<1> QED
  BY <1>1, FS_Subset, FS_CardinalityType

(* What is used is at most what is counted. *)
LEMMA PledgesCoverUse == Shape /\ PledgesFit => OvershootIsBounded
<1> SUFFICES ASSUME Shape, PledgesFit PROVE OvershootIsBounded
  OBVIOUS
<1>1. \A i \in Ids : Sizes[i] \in Nat /\ Weights[i] \in Nat /\ Sizes[i] <= Weights[i]
  BY SizesAre DEF Sizes, Weights
<1>2. SumOver(Ids, Sizes) <= SumOver(Ids, Weights)
  BY <1>1, SumGrows
<1>3. SumOver(Ids, Sizes) \in Nat /\ SumOver(Ids, Weights) \in Nat
  BY <1>1, SumType
<1>4. Room \in Int
  BY LargerOfTwo DEF Room, PledgesFit
<1> QED
  BY <1>2, <1>3, <1>4, UsedIsSum DEF PledgesFit, OvershootIsBounded, Room

(* The steps of what is under way, and those that end or remove it.         *)
Shrinks ==
  /\ UnderWay' \subseteq UnderWay /\ peak' = peak
  /\ \A i \in Ids : i \in UnderWay \/ file'[i].size <= file[i].size

LEMMA ShrinkingFits ==
  ASSUME Shape, Shape', PledgesFit, Shrinks
  PROVE  PledgesFit'
<1>1. PICK new : new = Weights'
  OBVIOUS
<1>2. \A i \in Ids : new[i] = IF i \in UnderWay' THEN YtMax ELSE file'[i].size
  BY <1>1 DEF Weights
<1>3. \A i \in Ids : file[i].size \in 0 .. YtMax /\ file'[i].size \in 0 .. YtMax
  BY DEF Shape, Files
<1>4. \A i \in Ids : new[i] \in Nat /\ Weights[i] \in Nat /\ new[i] <= Weights[i]
  BY <1>2, <1>3 DEF Shrinks, Weights
<1>5. SumOver(Ids, new) <= SumOver(Ids, Weights)
  BY <1>4, SumGrows
<1>6. SumOver(Ids, new) \in Nat /\ SumOver(Ids, Weights) \in Nat
  BY <1>4, SumType
<1>7. Room \in Int /\ Room' = Room
  BY LargerOfTwo DEF Room, PledgesFit, Shrinks
<1>8. SumOver(Ids, new) <= Room
  BY <1>5, <1>6, <1>7 DEF PledgesFit
<1> QED
  BY <1>1, <1>7, <1>8 DEF PledgesFit, Shrinks

(* A step of one transfer that is under way.                                *)
LEMMA OneShrinks ==
  ASSUME Shape, PoolShape, NEW i \in UnderWay,
         kind' = kind, peak' = peak, running' \subseteq running,
         \A j \in Ids \ {i} : task'[j] = task[j] /\ file'[j] = file[j]
  PROVE  Shrinks
<1>1. \A j \in Ids \ {i} : j \in UnderWay' => j \in UnderWay
  BY DEF UnderWay, Busy, Orphans
<1>2. UnderWay' \subseteq Ids
  BY DEF UnderWay, Busy, Orphans, PoolShape
<1>3. \A j \in Ids : j \in UnderWay \/ file'[j].size <= file[j].size
  BY SizesAre
<1> QED
  BY <1>1, <1>2, <1>3 DEF Shrinks

(* A transfer begins within the quota, and at least that many are under way. *)
LEMMA BeginPledges ==
  ASSUME Shape, PoolShape, Shape', PoolShape', PledgesFit,
         NEW i \in Ids, NEW k, NEW where \in TaskPlaces, Begin(i, k, where), UNCHANGED running,
         \A j \in Ids : file'[j].size <= file[j].size
  PROVE  PledgesFit'
<1>1. /\ task[i] = "none" /\ QuotaAllows /\ kind' = [kind EXCEPT ![i] = k]
      /\ task' = [task EXCEPT ![i] = where] /\ peak' = Max({peak, Cardinality(UnderWay) + 1})
  BY DEF Begin, Goes
<1>2. \A j \in Ids \ {i} : kind'[j] = kind[j] /\ task'[j] = task[j]
  BY <1>1 DEF Shape
<1>3. UnderWay' \subseteq UnderWay \cup {i}
  <2>1. \A j \in Ids \ {i} : j \in UnderWay' => j \in UnderWay
    BY <1>2 DEF UnderWay, Busy, Orphans
  <2>2. UnderWay' \subseteq Ids
    BY DEF UnderWay, Busy, Orphans, PoolShape
  <2> QED
    BY <2>1, <2>2
<1>4. PICK c : c = Cardinality(UnderWay')
  OBVIOUS
<1>5. c \in Nat /\ c <= Cardinality(UnderWay) + 1
  <2>0. IsFiniteSet(UnderWay) /\ Cardinality(UnderWay) \in Nat
    BY UnderWayIs
  <2>1. IsFiniteSet(UnderWay \cup {i}) /\ Cardinality(UnderWay \cup {i}) <= Cardinality(UnderWay) + 1
        /\ Cardinality(UnderWay \cup {i}) \in Nat
    <3> PICK A : A = UnderWay
      OBVIOUS
    <3>1. /\ IsFiniteSet(A \cup {i})
          /\ Cardinality(A \cup {i}) = IF i \in A THEN Cardinality(A) ELSE Cardinality(A) + 1
      BY <2>0, FS_AddElement
    <3> QED
      BY <2>0, <3>1
  <2>2. Cardinality(UnderWay') <= Cardinality(UnderWay \cup {i}) /\ Cardinality(UnderWay') \in Nat
    BY <1>3, <2>1, FS_Subset, FS_CardinalityType
  <2> QED
    BY <1>4, <2>1, <2>2, UnderWayIs
<1>6. peak' \in Nat /\ peak' >= 1 /\ c <= peak' /\ Max({1, peak'}) = peak'
  BY <1>1, <1>5, UnderWayIs, LargerOfTwo DEF PledgesFit
<1>7. PICK sizes, weights : sizes = Sizes' /\ weights = Weights'
  OBVIOUS
<1>8. /\ \A j \in Ids : sizes[j] = file'[j].size /\ sizes[j] \in Nat
      /\ \A j \in Ids : weights[j] = IF j \in UnderWay' THEN YtMax ELSE sizes[j]
      /\ \A j \in Ids : Sizes[j] = file[j].size /\ Sizes[j] \in Nat
  BY <1>7 DEF Sizes, Weights, Shape, Files
<1>9. UnderWay' \in SUBSET Ids
  BY UnderWayIs DEF UnderWay, Busy, Orphans, PoolShape
<1>10. SumOver(Ids, weights) <= SumOver(Ids, sizes) + c * YtMax
  BY <1>4, <1>8, <1>9, SumWithPledges
<1>11. SumOver(Ids, sizes) <= SumOver(Ids, Sizes)
  BY <1>8, SumGrows
<1>12. SumOver(Ids, Sizes) + MaxUpload <= Quota
  BY <1>1, UsedIsSum DEF QuotaAllows
<1>13. PICK m, n : m = c * YtMax /\ n = peak' * YtMax
  OBVIOUS
<1>14. m \in Nat /\ n \in Nat /\ m <= n
  BY <1>5, <1>6, <1>13, ProductGrows
<1>15. /\ SumOver(Ids, weights) \in Nat /\ SumOver(Ids, sizes) \in Nat
       /\ SumOver(Ids, Sizes) \in Nat
  BY <1>8, SumType
<1>16. SumOver(Ids, weights) <= Quota - MaxUpload + n
  BY <1>10, <1>11, <1>12, <1>13, <1>14, <1>15
<1>17. Room' = Quota - MaxUpload + n
  BY <1>6, <1>13 DEF Room
<1> QED
  BY <1>6, <1>7, <1>16, <1>17 DEF PledgesFit

LEMMA TaskShrinks ==
  ASSUME Inv, NEW i \in Ids, TaskStep(i)
  PROVE  Shrinks
<1>1. i \in UnderWay /\ kind' = kind /\ peak' = peak /\ running' \subseteq running
  BY DEF TaskStep, EnterSlot, HostIsPublic, HostIsRefused, Redirected, Responds, Chunk, StreamEnds,
         TransferFails, UploadBreaks, ProbeDone, FetchTimesOut, Fail, At, UnderWay, Busy,
         taskVars, poolVars
<1>2. \A j \in Ids \ {i} : task'[j] = task[j]
  BY DEF TaskStep, EnterSlot, HostIsPublic, HostIsRefused, Redirected, Responds, Chunk, StreamEnds,
         TransferFails, UploadBreaks, ProbeDone, FetchTimesOut, Fail, Goes, taskVars, Inv, Shape
<1>3. \A j \in Ids \ {i} : file'[j] = file[j]
  BY DEF TaskStep, EnterSlot, HostIsPublic, HostIsRefused, Redirected, Responds, Chunk, StreamEnds,
         TransferFails, UploadBreaks, ProbeDone, FetchTimesOut, Fail, Puts, diskVars, Inv, Shape
<1> QED
  BY <1>1, <1>2, <1>3, OneShrinks DEF Inv

(* A thread of yt-dlp writes for a task that waits for it or for none.      *)
LEMMA YtShrinks ==
  ASSUME Inv, NEW i \in Ids, YtWrites(i) \/ YtEnds(i)
  PROVE  Shrinks
<1>1. i \in running /\ kind[i] = "youtube" /\ kind' = kind /\ peak' = peak /\ running' \subseteq running
  BY DEF YtWrites, YtEnds, YtFinishes, YtFails, Fail, taskVars, poolVars
<1>2. i \in UnderWay
  BY <1>1 DEF UnderWay, Busy, Orphans
<1>3. \A j \in Ids \ {i} : task'[j] = task[j]
  BY DEF YtWrites, YtEnds, YtFinishes, YtFails, Fail, Goes, taskVars, Inv, Shape
<1>4. \A j \in Ids \ {i} : file'[j] = file[j]
  BY DEF YtWrites, YtEnds, YtFinishes, YtFails, Fail, Puts, diskVars, Inv, Shape
<1> QED
  BY <1>1, <1>2, <1>3, <1>4, OneShrinks DEF Inv

(* A job gets a thread while its task waits for it.                         *)
LEMMA ThreadTakesShrinks ==
  ASSUME Inv, ThreadTakes
  PROVE  Shrinks
<1>1. PICK e : e = Head(pending)
  OBVIOUS
<1>2. /\ running' = running \cup {e} /\ kind' = kind /\ task' = task /\ file' = file /\ peak' = peak
      /\ e \in Ids /\ Queued(e)
  BY <1>1, Taken DEF ThreadTakes, taskVars, diskVars, Inv
<1>3. e \in UnderWay
  BY <1>2 DEF Inv, Fits, JobFits, UnderWay, Busy
<1>4. UnderWay' \subseteq UnderWay
  BY <1>2, <1>3 DEF UnderWay, Busy, Orphans
<1> QED
  BY <1>2, <1>4, SizesAre DEF Shrinks, Inv

LEMMA QuietShrinks ==
  ASSUME Inv, \/ UNCHANGED vars
              \/ \E i \in Ids : DirAges(i) \/ RecordAges(i)
  PROVE  Shrinks
<1>1. UNCHANGED <<kind, task, running, file, peak>>
  BY DEF vars, DirAges, RecordAges, taskVars, poolVars, diskVars
<1> QED
  BY <1>1, SizesAre DEF Shrinks, UnderWay, Busy, Orphans, Inv

LEMMA SweepShrinks ==
  ASSUME Inv, Sweep
  PROVE  Shrinks
<1>1. UNCHANGED <<kind, task, running, peak>>
  BY DEF Sweep, poolVars
<1>2. \A i \in Ids : file'[i] = NoFile \/ file'[i] = file[i]
  BY DEF Sweep
<1>3. \A i \in Ids : file'[i].size <= file[i].size
  BY <1>2, SizesAre DEF NoFile, Inv
<1> QED
  BY <1>1, <1>3 DEF Shrinks, UnderWay, Busy, Orphans

LEMMA RestartShrinks ==
  ASSUME Inv, Restart
  PROVE  Shrinks
<1>1. running' = {} /\ file' = file /\ peak' = peak
      /\ \A i \in Ids : task'[i] \in {"none", "ended"}
  BY DEF Restart, diskVars, Busy
<1>2. UnderWay' = {}
  BY <1>1 DEF UnderWay, Busy, Orphans
<1> QED
  BY <1>1, <1>2, SizesAre DEF Shrinks, Inv

LEMMA InitPledges == Init => PledgesFit
<1> SUFFICES ASSUME Init PROVE PledgesFit
  OBVIOUS
<1>1. PICK none : none = [i \in Ids |-> 0]
  OBVIOUS
<1>2. \A i \in Ids : Weights[i] = 0 /\ none[i] = 0
  BY <1>1 DEF Init, Weights, UnderWay, Busy, Orphans, NoFile
<1>3. UnderWay = {} /\ Shape /\ PoolShape
  BY InitFits DEF Init, UnderWay, Busy, Orphans, Inv
<1>4. Weights = none
  BY <1>1, <1>2 DEF Weights
<1>5. SumOver(Ids, none) = 0
  BY <1>2, SumOfNothing
<1>6. peak = 0 /\ Max({1, peak}) = 1
  <2>1. 1 \in Int /\ 0 \in Int /\ Max({1, 0}) = 1
    <3>1. PICK a \in Int, b \in Int : a = 1 /\ b = 0
      OBVIOUS
    <3>2. Max({a, b}) = a
      BY <3>1, LargerOfTwo
    <3> QED
      BY <3>1, <3>2
  <2> QED
    BY <2>1 DEF Init
<1>7. Room \in Nat
  BY <1>6 DEF Room
<1> QED
  BY <1>4, <1>5, <1>6, <1>7 DEF PledgesFit

LEMMA StepPledges == Inv /\ PledgesFit /\ [Next]_vars => PledgesFit'
<1> SUFFICES ASSUME Inv, PledgesFit, [Next]_vars PROVE PledgesFit'
  OBVIOUS
<1>1. Shape /\ PoolShape /\ Shape' /\ PoolShape'
  BY StepFits DEF Inv
<1>2. ASSUME Shrinks PROVE PledgesFit'
  BY <1>1, <1>2, ShrinkingFits
<1>3. ASSUME NEW i \in Ids, NEW k \in Kinds, StartIngest(i, k) PROVE PledgesFit'
  <2>1. /\ Begin(i, k, "queued") /\ UNCHANGED running /\ "queued" \in TaskPlaces
        /\ \A j \in Ids : file'[j].size <= file[j].size
    BY <1>1, <1>3, SizesAre DEF StartIngest, poolVars, diskVars, TaskPlaces
  <2> QED
    BY <1>1, <2>1, BeginPledges
<1>4. ASSUME NEW i \in Ids, StartUpload(i) PROVE PledgesFit'
  <2>1. Begin(i, "upload", "stream") /\ UNCHANGED running /\ "stream" \in TaskPlaces
    BY <1>4 DEF StartUpload, poolVars, TaskPlaces
  <2>2. \A j \in Ids : file'[j].size <= file[j].size
    BY <1>1, <1>4, SizesAre DEF StartUpload, Puts, NewFile, Shape
  <2> QED
    BY <1>1, <2>1, <2>2, BeginPledges
<1> QED
  BY <1>2, <1>3, <1>4, TaskShrinks, YtShrinks, ThreadTakesShrinks, QuietShrinks, SweepShrinks,
     RestartShrinks DEF Next

(* However many transfers pass one after the other, what uploads/ holds     *)
(* beyond the quota is bounded by how many were ever under way at once: the *)
(* quota is exceeded by transfers that overlap and by nothing else.         *)
THEOREM OvershootIsBoundedHolds == Spec => []OvershootIsBounded
<1>1. Init => Inv /\ PledgesFit
  BY InitFits, InitPledges
<1>2. Inv /\ PledgesFit /\ [Next]_vars => (Inv /\ PledgesFit)'
  BY StepFits, StepPledges
<1>3. Inv /\ PledgesFit => OvershootIsBounded
  BY PledgesCoverUse DEF Inv
<1> QED
  BY <1>1, <1>2, <1>3, PTL DEF Spec
=============================================================================
