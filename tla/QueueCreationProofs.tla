------------------------ MODULE QueueCreationProofs ------------------------
(***************************************************************************)
(* Proofs about QueueCreation, for every set of clips, callers, platform   *)
(* lists and intervals: overlapping calls never leave two rows for one     *)
(* clip and platform, the slots follow the ranks, and, for calls whose     *)
(* platform lists are equal or disjoint, each call is all or nothing.      *)
(***************************************************************************)
EXTENDS QueueCreation, FiniteSetTheorems, TLAPS

-----------------------------------------------------------------------------
(* The inductive invariant.  Of the types the argument needs only that a    *)
(* call is a record with the fields of NewCall.                             *)
IsCall(m) ==
  m \in [pc : {m.pc}, platforms : {m.platforms}, start_at : {m.start_at},
         interval : {m.interval}, done : {m.done}, pending : {m.pending},
         created_count : {m.created_count}, queued : {m.queued}]

Shape ==
  /\ call = [c \in Callers |-> call[c]]
  /\ \A c \in Callers : IsCall(call[c])

(* Only the holder of the write lock has rows in its transaction.           *)
LockRule == \A c \in Callers : call[c].pending # {} => lock = c

OneKey(rows) == \A r, s \in rows : Key(r) = Key(s) => r = s

Apart(c) == Keys(table) \cap Keys(call[c].pending) = {}

Unique ==
  /\ OneKey(table)
  /\ \A c \in Callers : OneKey(call[c].pending) /\ Apart(c)

IInv == Shape /\ LockRule /\ Unique

-----------------------------------------------------------------------------
(* A step replaces the record of one call.                                  *)
LEMMA CallUpdate ==
  ASSUME Shape, NEW c \in Callers, NEW m, IsCall(m),
         call' = [call EXCEPT ![c] = m]
  PROVE  /\ Shape'
         /\ call'[c] = m
         /\ \A d \in Callers \ {c} : call'[d] = call[d]
<1>1. call'[c] = m /\ \A d \in Callers \ {c} : call'[d] = call[d]
  BY DEF Shape
<1>2. call' = [d \in Callers |-> call'[d]]
  BY DEF Shape
<1>3. \A d \in Callers : IsCall(call'[d])
  BY <1>1 DEF Shape
<1> QED
  BY <1>1, <1>2, <1>3 DEF Shape

(* The row is filed under the key that the call has come to.                *)
LEMMA KeyOfRow ==
  ASSUME NEW c, NEW n
  PROVE  Key(RowAt(c, n)) = KeyAt(c, n)
BY DEF Key, RowAt, KeyAt

LEMMA KeysOfUnion ==
  ASSUME NEW S, NEW T
  PROVE  Keys(S \cup T) = Keys(S) \cup Keys(T)
BY DEF Keys

(* Two sets of rows without a common key have one row per key together.     *)
LEMMA OneKeyUnion ==
  ASSUME NEW S, NEW T, OneKey(S), OneKey(T), Keys(S) \cap Keys(T) = {}
  PROVE  OneKey(S \cup T)
BY DEF OneKey, Keys

LEMMA InitInv == Init => IInv
<1> SUFFICES ASSUME Init PROVE IInv
  OBVIOUS
<1>1. \A c \in Callers : call[c] = NewCall
  BY DEF Init
<1>2. Shape
  BY <1>1 DEF Init, Shape, IsCall, NewCall
<1>3. LockRule
  BY <1>1 DEF LockRule, NewCall
<1>4. Unique
  BY <1>1 DEF Init, Unique, OneKey, Apart, Keys, NewCall
<1> QED
  BY <1>2, <1>3, <1>4 DEF IInv

(* A caller that may insert is the only one with rows in its transaction.   *)
LEMMA OthersAreEmpty ==
  ASSUME LockRule, NEW c \in Callers, Inserting(c), NEW d \in Callers \ {c}
  PROVE  call[d].pending = {}
BY CallsAssumption DEF LockRule, Inserting

LEMMA CallInv ==
  ASSUME IInv, NEW c \in Callers, Call(c)
  PROVE  IInv'
<1>1. PICK platforms \in PlatformChoices, interval \in Intervals :
        call' = [call EXCEPT ![c].pc = "insert", ![c].platforms = platforms,
                             ![c].start_at = now, ![c].interval = interval]
  BY DEF Call
<1> DEFINE m == [call[c] EXCEPT !.pc = "insert", !.platforms = platforms,
                                !.start_at = now, !.interval = interval]
<1>2. call' = [call EXCEPT ![c] = m]
  BY <1>1
<1>3. IsCall(m) /\ m.pending = call[c].pending
  BY DEF IInv, Shape, IsCall
<1> HIDE DEF m
<1>4. /\ Shape'
      /\ \A d \in Callers : call'[d].pending = call[d].pending
  BY <1>2, <1>3, CallUpdate DEF IInv
<1>5. UNCHANGED <<table, lock>>
  BY DEF Call
<1> QED
  BY <1>4, <1>5 DEF IInv, LockRule, Unique, Apart, OneKey, Keys, Key

LEMMA InsertRowInv ==
  ASSUME IInv, NEW c \in Callers, InsertRow(c)
  PROVE  IInv'
<1> DEFINE n == call[c].done
           r == RowAt(c, n)
           m == [call[c] EXCEPT !.done = n + 1,
                                !.pending = @ \cup {r},
                                !.created_count = @ + 1,
                                !.queued = @ \cup {KeyAt(c, n)[1]}]
<1>1. call' = [call EXCEPT ![c] = m]
  BY DEF InsertRow
<1>2. IsCall(m) /\ m.pending = call[c].pending \cup {r}
  BY DEF IInv, Shape, IsCall
<1>3. /\ Key(r) \notin Keys(table) \cup Keys(call[c].pending)
      /\ lock' = c /\ UNCHANGED table /\ Inserting(c)
  BY KeyOfRow DEF InsertRow
<1> HIDE DEF m, r, n
<1>4. /\ Shape'
      /\ call'[c].pending = call[c].pending \cup {r}
      /\ \A d \in Callers \ {c} : call'[d] = call[d]
  BY <1>1, <1>2, CallUpdate DEF IInv
<1>5. \A d \in Callers \ {c} : call'[d].pending = {}
  BY <1>3, <1>4, OthersAreEmpty DEF IInv
<1>6. LockRule'
  BY <1>3, <1>5 DEF LockRule
<1>7. OneKey({r}) /\ Keys({r}) = {Key(r)}
  BY DEF OneKey, Keys
<1>8. OneKey(call'[c].pending)
  <2>1. OneKey(call[c].pending) /\ Keys(call[c].pending) \cap Keys({r}) = {}
    BY <1>3, <1>7 DEF IInv, Unique
  <2>2. OneKey(call[c].pending \cup {r})
    BY <1>7, <2>1, OneKeyUnion
  <2> QED
    BY <1>4, <2>2
<1>9. Keys(table) \cap Keys(call'[c].pending) = {}
  BY <1>3, <1>4, <1>7, KeysOfUnion DEF IInv, Unique, Apart
<1>10. Unique'
  BY <1>3, <1>5, <1>8, <1>9 DEF IInv, Unique, Apart, OneKey, Keys, Key
<1> QED
  BY <1>4, <1>6, <1>10 DEF IInv

(* The rollbacks: the call's rows vanish and its lock goes.                 *)
LEMMA EmptiedInv ==
  ASSUME IInv, NEW c \in Callers, UNCHANGED table, Shape',
         call'[c].pending = {},
         \A d \in Callers \ {c} : call'[d] = call[d],
         \A d \in Callers \ {c} : call[d].pending = {} \/ lock' = lock
  PROVE  IInv'
<1>1. LockRule'
  BY DEF IInv, LockRule
<1>2. Unique'
  BY DEF IInv, Unique, Apart, OneKey, Keys, Key
<1> QED
  BY <1>1, <1>2 DEF IInv

LEMMA RowExistsInv ==
  ASSUME IInv, NEW c \in Callers, RowExists(c)
  PROVE  IInv'
<1> DEFINE m == [call[c] EXCEPT !.done = @ + 1, !.pending = {}]
<1>1. call' = [call EXCEPT ![c] = m] /\ UNCHANGED table /\ Inserting(c)
  BY DEF RowExists
<1>2. IsCall(m) /\ m.pending = {}
  BY DEF IInv, Shape, IsCall
<1> HIDE DEF m
<1>3. /\ Shape' /\ call'[c].pending = {}
      /\ \A d \in Callers \ {c} : call'[d] = call[d]
  BY <1>1, <1>2, CallUpdate DEF IInv
<1>4. \A d \in Callers \ {c} : call[d].pending = {}
  BY <1>1, OthersAreEmpty DEF IInv
<1> QED
  BY <1>1, <1>3, <1>4, EmptiedInv

LEMMA FailInv ==
  ASSUME IInv, NEW c \in Callers, Fail(c)
  PROVE  IInv'
<1> DEFINE m == [call[c] EXCEPT !.pc = "failed", !.pending = {}]
<1>1. /\ call' = [call EXCEPT ![c] = m] /\ UNCHANGED table
      /\ lock' = IF lock = c THEN None ELSE lock
  BY DEF Fail
<1>2. IsCall(m) /\ m.pending = {}
  BY DEF IInv, Shape, IsCall
<1> HIDE DEF m
<1>3. /\ Shape' /\ call'[c].pending = {}
      /\ \A d \in Callers \ {c} : call'[d] = call[d]
  BY <1>1, <1>2, CallUpdate DEF IInv
<1>4. \A d \in Callers \ {c} : call[d].pending = {} \/ lock' = lock
  BY <1>1 DEF IInv, LockRule
<1> QED
  BY <1>1, <1>3, <1>4, EmptiedInv

LEMMA CommitInv ==
  ASSUME IInv, NEW c \in Callers, Commit(c)
  PROVE  IInv'
<1> DEFINE m == [call[c] EXCEPT !.pc = "done", !.pending = {}]
<1>1. /\ call' = [call EXCEPT ![c] = m]
      /\ table' = table \cup call[c].pending
      /\ lock' = IF lock = c THEN None ELSE lock
  BY DEF Commit
<1>2. IsCall(m) /\ m.pending = {}
  BY DEF IInv, Shape, IsCall
<1> HIDE DEF m
<1>3. /\ Shape' /\ call'[c].pending = {}
      /\ \A d \in Callers \ {c} : call'[d] = call[d]
  BY <1>1, <1>2, CallUpdate DEF IInv
<1>4. OneKey(table')
  BY <1>1, OneKeyUnion DEF IInv, Unique, Apart
<1>5. LockRule'
  BY <1>1, <1>3 DEF IInv, LockRule
<1>6. ASSUME NEW d \in Callers
      PROVE  OneKey(call'[d].pending) /\ Keys(table') \cap Keys(call'[d].pending) = {}
  <2>1. CASE call'[d].pending = {}
    BY <2>1 DEF OneKey, Keys
  <2>2. CASE call'[d].pending # {}
    <3>1. d # c /\ call'[d] = call[d] /\ lock = d
      BY <1>3, <2>2 DEF IInv, LockRule
    <3>2. table' = table
      BY <1>1, <3>1 DEF IInv, LockRule
    <3> QED
      BY <3>1, <3>2 DEF IInv, Unique, Apart
  <2> QED
    BY <2>1, <2>2
<1>7. Unique'
  BY <1>4, <1>6 DEF Unique, Apart, OneKey, Keys, Key
<1> QED
  BY <1>3, <1>5, <1>7 DEF IInv

LEMMA NextInv == IInv /\ [Next]_vars => IInv'
<1> SUFFICES ASSUME IInv, [Next]_vars PROVE IInv'
  OBVIOUS
<1>1. CASE Tick \/ UNCHANGED vars
  <2>1. UNCHANGED <<table, lock, call>>
    BY <1>1 DEF Tick, vars
  <2> QED
    BY <2>1 DEF IInv, Shape, IsCall, LockRule, Unique, OneKey, Apart, Keys, Key
<1>2. ASSUME NEW c \in Callers,
             Call(c) \/ InsertRow(c) \/ RowExists(c) \/ Commit(c) \/ Fail(c)
      PROVE  IInv'
  BY <1>2, CallInv, InsertRowInv, RowExistsInv, CommitInv, FailInv
<1> QED
  BY <1>1, <1>2 DEF Next

(* The table never holds two rows for one clip and platform, and no call    *)
(* has a row in its transaction whose key is committed already.             *)
THEOREM OneRowPerKeyHolds == Spec => []OneRowPerKey
<1>1. IInv => OneRowPerKey
  BY DEF IInv, Unique, OneKey, Apart, OneRowPerKey
<1> QED
  BY InitInv, NextInv, <1>1, PTL DEF Spec

-----------------------------------------------------------------------------
(* Arithmetic. *)
LEMMA Division ==
  ASSUME NEW n \in Nat, NEW P \in Nat \ {0}
  PROVE  n \div P \in Nat /\ n % P \in 0 .. P - 1 /\ n = P * (n \div P) + (n % P)
OBVIOUS

LEMMA QuotientBound ==
  ASSUME NEW n \in Nat, NEW P \in Nat \ {0}, NEW k \in Nat, n < k * P
  PROVE  n \div P < k
<1> DEFINE q == n \div P
<1>1. q \in Nat /\ n % P \in Nat /\ n = P * q + (n % P)
  BY Division
<1> HIDE DEF q
<1>2. SUFFICES ASSUME q >= k PROVE FALSE
  BY <1>1 DEF q
<1>3. PICK d \in Nat : q = k + d
  <2>1. q - k \in Nat /\ q = k + (q - k)
    BY <1>1, <1>2
  <2> QED
    BY <2>1
<1>4. P * q = k * P + P * d /\ P * d \in Nat /\ k * P \in Nat
  BY <1>3
<1> QED
  BY <1>1, <1>4

LEMMA Spacing ==
  ASSUME NEW t \in Nat, NEW p \in Nat, NEW q \in Nat, p < q
  PROVE  t * p + t <= t * q
<1>1. PICK d \in Nat : q = p + 1 + d
  <2>1. q - p - 1 \in Nat /\ q = p + 1 + (q - p - 1)
    OBVIOUS
  <2> QED
    BY <2>1
<1>2. t * q = t * p + t + t * d /\ t * d \in Nat /\ t * p \in Nat
  BY <1>1
<1> QED
  BY <1>2

-----------------------------------------------------------------------------
(* The order of the clips. *)
LEMMA BeforeIsOrder ==
  \A c, d, e \in Clips :
    /\ ~ Before(c, c)
    /\ Before(c, d) /\ Before(d, e) => Before(c, e)
    /\ c # d => Before(c, d) \/ Before(d, c)
<1>1. \A c \in Clips : Rank[c] \in Nat /\ ViralScore[c] \in Nat /\ c \in Nat
  BY ClipsAssumption
<1> QED
  BY <1>1 DEF Before

Earlier(S, c) == {d \in S : Before(d, c)}

LEMMA PositionType ==
  ASSUME NEW S \in SUBSET Clips, NEW c \in S
  PROVE  /\ IsFiniteSet(S) /\ Cardinality(S) \in Nat
         /\ IsFiniteSet(Earlier(S, c))
         /\ Position(S, c) = Cardinality(Earlier(S, c))
         /\ Position(S, c) \in 0 .. Cardinality(S) - 1
<1>1. IsFiniteSet(S) /\ Cardinality(S) \in Nat
  BY ClipsAssumption, FS_Subset, FS_CardinalityType
<1>2. c \notin Earlier(S, c) /\ Earlier(S, c) \subseteq S
  BY BeforeIsOrder DEF Earlier
<1>3. /\ IsFiniteSet(Earlier(S, c)) /\ Cardinality(Earlier(S, c)) \in Nat
      /\ Cardinality(Earlier(S, c)) <= Cardinality(S)
      /\ Cardinality(Earlier(S, c)) # Cardinality(S)
  BY <1>1, <1>2, FS_Subset, FS_CardinalityType
<1>4. Position(S, c) = Cardinality(Earlier(S, c))
  BY DEF Position, Earlier
<1> QED
  BY <1>1, <1>3, <1>4

LEMMA PositionGrows ==
  ASSUME NEW S \in SUBSET Clips, NEW c \in S, NEW d \in S, Before(c, d)
  PROVE  Position(S, c) < Position(S, d)
<1>1. Earlier(S, c) \subseteq Earlier(S, d) /\ c \in Earlier(S, d) \ Earlier(S, c)
  BY BeforeIsOrder DEF Earlier
<1>2. IsFiniteSet(Earlier(S, d))
  BY PositionType
<1>3. /\ Cardinality(Earlier(S, c)) <= Cardinality(Earlier(S, d))
      /\ Cardinality(Earlier(S, c)) # Cardinality(Earlier(S, d))
  BY <1>1, <1>2, FS_Subset
<1> QED
  BY <1>3, PositionType

(* The positions are the numbers from 0: an injection into as many numbers  *)
(* as there are clips.  So sorted(S) has every clip, at its position.       *)
LEMMA OrderClipsIsSorted ==
  ASSUME NEW S \in SUBSET Clips, NEW k \in 1 .. Cardinality(S)
  PROVE  OrderClips(S)[k] \in S /\ Position(S, OrderClips(S)[k]) = k - 1
<1> DEFINE n == Cardinality(S)
           f == [c \in S |-> Position(S, c) + 1]
<1>1. IsFiniteSet(S) /\ n \in Nat
  BY ClipsAssumption, FS_Subset, FS_CardinalityType
<1>2. \A c \in S : Position(S, c) \in 0 .. n - 1
  BY PositionType
<1>3. \A c, d \in S : Position(S, c) = Position(S, d) => c = d
  BY <1>2, PositionGrows, BeforeIsOrder
<1>4. f \in Injection(S, 1 .. n)
  BY <1>1, <1>2, <1>3 DEF Injection, IsInjective
<1>5. IsFiniteSet(1 .. n) /\ Cardinality(1 .. n) = n
  BY <1>1, FS_Interval
<1>6. f \in Surjection(S, 1 .. n)
  BY <1>4, <1>5, FS_Injection
<1>7. PICK c \in S : f[c] = k
  BY <1>6 DEF Surjection
<1>8. Position(S, c) = k - 1
  BY <1>2, <1>7
<1> QED
  BY <1>8 DEF OrderClips

-----------------------------------------------------------------------------
(* The keys of a call, by its platform list. *)
Keyed(p, n) == <<OrderClips(Eligible)[(n \div Len(p)) + 1], p[(n % Len(p)) + 1]>>
Count(p) == Cardinality(Eligible) * Len(p)
KeysOf(p) == {Keyed(p, n) : n \in 0 .. Count(p) - 1}

LEMMA CallKeys ==
  ASSUME NEW c
  PROVE  /\ Total(c) = Count(call[c].platforms)
         /\ Wanted(c) = KeysOf(call[c].platforms)
         /\ \A n : KeyAt(c, n) = Keyed(call[c].platforms, n)
BY DEF Total, Count, Wanted, KeysOf, KeyAt, Keyed

LEMMA EligibleIsFinite ==
  ASSUME completed \subseteq Clips
  PROVE  Eligible \in SUBSET Clips /\ IsFiniteSet(Eligible) /\ Cardinality(Eligible) \in Nat
<1>1. Eligible \in SUBSET Clips
  BY DEF Eligible
<1> QED
  BY <1>1, ClipsAssumption, FS_Subset, FS_CardinalityType

(* Where the n-th key comes from: the clip and the platform at its place.   *)
LEMMA KeyPlace ==
  ASSUME completed \subseteq Clips, NEW p \in PlatformChoices,
         NEW n \in Nat, n < Count(p)
  PROVE  /\ Len(p) \in Nat \ {0} /\ Count(p) \in Nat
         /\ (n \div Len(p)) + 1 \in 1 .. Cardinality(Eligible)
         /\ (n % Len(p)) + 1 \in 1 .. Len(p)
         /\ Keyed(p, n)[1] \in Eligible
         /\ Position(Eligible, Keyed(p, n)[1]) = n \div Len(p)
         /\ Keyed(p, n)[2] = p[(n % Len(p)) + 1]
<1>1. p \in Seq(STRING)
  BY CallsAssumption
<1>2. Len(p) \in Nat /\ Cardinality(Eligible) \in Nat /\ Count(p) \in Nat
  BY <1>1, EligibleIsFinite DEF Count
<1>3. Len(p) # 0
  BY <1>2 DEF Count
<1>4. n \div Len(p) \in Nat /\ n % Len(p) \in 0 .. Len(p) - 1
  BY <1>2, <1>3, Division
<1>5. n \div Len(p) < Cardinality(Eligible)
  BY <1>2, <1>3, QuotientBound DEF Count
<1> DEFINE k == (n \div Len(p)) + 1
<1>6. k \in 1 .. Cardinality(Eligible) /\ k - 1 = n \div Len(p)
  BY <1>2, <1>4, <1>5
<1> HIDE DEF k
<1>7. OrderClips(Eligible)[k] \in Eligible /\ Position(Eligible, OrderClips(Eligible)[k]) = k - 1
  BY <1>6, EligibleIsFinite, OrderClipsIsSorted
<1> QED
  BY <1>2, <1>3, <1>4, <1>6, <1>7 DEF Keyed, k
-----------------------------------------------------------------------------
(* The slots. *)

(* What a call has counted and was called with.                             *)
Counted(c) ==
  /\ call[c].pc \in {"new", "insert", "done", "failed"}
  /\ call[c].pc = "new" => call[c] = NewCall
  /\ call[c].pc # "new" =>
       /\ call[c].platforms \in PlatformChoices
       /\ call[c].start_at \in Nat /\ call[c].interval \in Nat
       /\ call[c].done \in 0 .. Total(c)

(* A row stands where its call put it.                                      *)
Placed(r) ==
  /\ r.by \in Callers /\ call[r.by].pc # "new" /\ r.clip \in Eligible
  /\ r.scheduled_at = call[r.by].start_at + call[r.by].interval * Position(Eligible, r.clip)

Schedules ==
  /\ Shape /\ now \in Nat /\ completed \subseteq Clips
  /\ \A c \in Callers : Counted(c)
  /\ \A r \in table : Placed(r)
  /\ \A c \in Callers : \A r \in call[c].pending : Placed(r) /\ r.by = c

(* What the steps of a call have in common: its arguments stay, and those   *)
(* of the others.                                                           *)
LEMMA RowsStay ==
  ASSUME Schedules, NEW c \in Callers, UNCHANGED <<completed, now>>, Shape', Counted(c)',
         call[c].pc # "new" =>
           /\ call'[c].pc # "new" /\ call'[c].platforms = call[c].platforms
           /\ call'[c].start_at = call[c].start_at /\ call'[c].interval = call[c].interval,
         \A d \in Callers \ {c} : call'[d] = call[d],
         \A r \in table' : r \in table \/ r \in call[c].pending,
         \A r \in call'[c].pending : r \in call[c].pending \/ (Placed(r)' /\ r.by = c)
  PROVE  Schedules'
<1>1. Eligible' = Eligible
  BY DEF Eligible
<1>2. \A r : Placed(r) => Placed(r)'
  BY <1>1 DEF Placed, Schedules
<1>3. \A d \in Callers : Counted(d)'
  <2>1. \A d \in Callers \ {c} : Total(d)' = Total(d)
    BY <1>1 DEF Total
  <2> QED
    BY <2>1 DEF Schedules, Counted
<1>4. \A r \in table' : Placed(r)'
  BY <1>2 DEF Schedules
<1>5. \A d \in Callers : \A r \in call'[d].pending : Placed(r)' /\ r.by = d
  BY <1>2 DEF Schedules
<1> QED
  BY <1>3, <1>4, <1>5 DEF Schedules

LEMMA TotalType ==
  ASSUME completed \subseteq Clips, NEW c, call[c].platforms \in PlatformChoices
  PROVE  Total(c) \in Nat
<1>1. call[c].platforms \in Seq(STRING)
  BY CallsAssumption
<1> QED
  BY <1>1, EligibleIsFinite DEF Total

LEMMA SchedulesStep == Schedules /\ [Next]_vars => Schedules'
<1> SUFFICES ASSUME Schedules, [Next]_vars PROVE Schedules'
  OBVIOUS
<1>0. Shape /\ completed \subseteq Clips /\ now \in Nat
  BY DEF Schedules
<1>1. CASE Tick \/ UNCHANGED vars
  <2>1. UNCHANGED <<completed, table, call>> /\ now' \in Nat
    BY <1>0, <1>1 DEF Tick, vars
  <2>2. Eligible' = Eligible /\ \A c : Total(c)' = Total(c)
    BY <2>1 DEF Eligible, Total
  <2> QED
    BY <2>1, <2>2 DEF Schedules, Shape, IsCall, Counted, Placed
<1>2. ASSUME NEW c \in Callers, Call(c)
      PROVE  Schedules'
  <2>1. PICK platforms \in PlatformChoices, interval \in Intervals :
          call' = [call EXCEPT ![c].pc = "insert", ![c].platforms = platforms,
                               ![c].start_at = now, ![c].interval = interval]
    BY <1>2 DEF Call
  <2> DEFINE m == [call[c] EXCEPT !.pc = "insert", !.platforms = platforms,
                                  !.start_at = now, !.interval = interval]
  <2>2. /\ IsCall(m) /\ m.pending = call[c].pending /\ m.pc = "insert" /\ m.done = call[c].done
        /\ m.platforms = platforms /\ m.start_at = now /\ m.interval = interval
    BY <1>0 DEF Shape, IsCall
  <2>3. call' = [call EXCEPT ![c] = m]
    BY <2>1
  <2> HIDE DEF m
  <2>4. /\ Shape' /\ call'[c] = m
        /\ \A d \in Callers \ {c} : call'[d] = call[d]
    BY <1>0, <2>2, <2>3, CallUpdate
  <2>5. call[c] = NewCall
    BY <1>2 DEF Call, Schedules, Counted
  <2>6. UNCHANGED <<completed, table, now>>
    BY <1>2 DEF Call
  <2>7. Total(c)' \in Nat
    <3>1. call'[c].platforms \in Seq(STRING) /\ Eligible' = Eligible
      BY <2>2, <2>4, <2>6, CallsAssumption DEF Eligible
    <3>2. Total(c)' = Cardinality(Eligible) * Len(call'[c].platforms)
      BY <3>1 DEF Total
    <3>3. Len(call'[c].platforms) \in Nat /\ Cardinality(Eligible) \in Nat
      BY <1>0, <3>1, EligibleIsFinite
    <3> QED
      BY <3>2, <3>3
  <2>8. Counted(c)'
    BY <1>0, <2>2, <2>4, <2>5, <2>7, CallsAssumption DEF Counted, NewCall
  <2> QED
    BY <2>2, <2>4, <2>5, <2>6, <2>8, RowsStay DEF NewCall
<1>3. ASSUME NEW c \in Callers, InsertRow(c)
      PROVE  Schedules'
  <2>0. PICK r : r = RowAt(c, call[c].done)
    OBVIOUS
  <2> DEFINE n == call[c].done
             m == [call[c] EXCEPT !.done = n + 1,
                                  !.pending = @ \cup {r},
                                  !.created_count = @ + 1,
                                  !.queued = @ \cup {KeyAt(c, n)[1]}]
  <2>1. call' = [call EXCEPT ![c] = m] /\ UNCHANGED <<completed, table, now>>
    BY <1>3, <2>0 DEF InsertRow
  <2>2. /\ call[c].pc = "insert" /\ n \in Nat /\ n < Total(c) /\ Total(c) \in Nat
        /\ call[c].platforms \in PlatformChoices
        /\ call[c].start_at \in Nat /\ call[c].interval \in Nat
    BY <1>0, <1>3, TotalType DEF InsertRow, Inserting, Schedules, Counted
  <2>3. /\ IsCall(m) /\ m.pending = call[c].pending \cup {r} /\ m.pc = "insert"
        /\ m.platforms = call[c].platforms /\ m.start_at = call[c].start_at
        /\ m.interval = call[c].interval /\ m.done = n + 1
    BY <1>0, <2>2 DEF Shape, IsCall
  <2>4. KeyAt(c, n)[1] \in Eligible
    BY <1>0, <2>2, CallKeys, KeyPlace
  <2>5. /\ r.by = c /\ r.clip \in Eligible
        /\ r.scheduled_at = call[c].start_at + call[c].interval * Position(Eligible, r.clip)
    BY <2>0, <2>4 DEF RowAt, AssignSlots
  <2> HIDE DEF m, n
  <2>6. /\ Shape' /\ call'[c] = m
        /\ \A d \in Callers \ {c} : call'[d] = call[d]
    BY <1>0, <2>1, <2>3, CallUpdate
  <2>7. Eligible' = Eligible /\ Total(c)' = Total(c)
    BY <2>1, <2>3, <2>6 DEF Eligible, Total
  <2>8. Counted(c)'
    BY <2>2, <2>3, <2>6, <2>7 DEF Counted
  <2>9. Placed(r)'
    BY <2>3, <2>5, <2>6, <2>7 DEF Placed
  <2> QED
    BY <2>1, <2>2, <2>3, <2>5, <2>6, <2>8, <2>9, RowsStay
<1>4. ASSUME NEW c \in Callers, RowExists(c)
      PROVE  Schedules'
  <2> DEFINE m == [call[c] EXCEPT !.done = @ + 1, !.pending = {}]
  <2>1. call' = [call EXCEPT ![c] = m] /\ UNCHANGED <<completed, table, now>>
    BY <1>4 DEF RowExists
  <2>2. /\ call[c].pc = "insert" /\ call[c].done < Total(c) /\ Total(c) \in Nat
        /\ call[c].platforms \in PlatformChoices /\ call[c].done \in Nat
        /\ call[c].start_at \in Nat /\ call[c].interval \in Nat
    BY <1>0, <1>4, TotalType DEF RowExists, Inserting, Schedules, Counted
  <2>3. /\ IsCall(m) /\ m.pending = {} /\ m.pc = "insert"
        /\ m.platforms = call[c].platforms /\ m.start_at = call[c].start_at
        /\ m.interval = call[c].interval /\ m.done = call[c].done + 1
    BY <1>0, <2>2 DEF Shape, IsCall
  <2> HIDE DEF m
  <2>4. /\ Shape' /\ call'[c] = m
        /\ \A d \in Callers \ {c} : call'[d] = call[d]
    BY <1>0, <2>1, <2>3, CallUpdate
  <2>5. Total(c)' = Total(c)
    BY <2>1, <2>3, <2>4 DEF Eligible, Total
  <2>6. Counted(c)'
    BY <2>2, <2>3, <2>4, <2>5 DEF Counted
  <2> QED
    BY <2>1, <2>2, <2>3, <2>4, <2>6, RowsStay
<1>5. ASSUME NEW c \in Callers, Commit(c) \/ Fail(c)
      PROVE  Schedules'
  <2>0. PICK end \in {"done", "failed"} :
          call' = [call EXCEPT ![c].pc = end, ![c].pending = {}]
    BY <1>5 DEF Commit, Fail
  <2> DEFINE m == [call[c] EXCEPT !.pc = end, !.pending = {}]
  <2>1. /\ call' = [call EXCEPT ![c] = m] /\ UNCHANGED <<completed, now>>
        /\ table' \in {table, table \cup call[c].pending}
    BY <1>5, <2>0 DEF Commit, Fail
  <2>2. /\ call[c].pc = "insert" /\ Counted(c)
    BY <1>5 DEF Commit, Fail, Schedules
  <2>3. /\ IsCall(m) /\ m.pending = {} /\ m.pc = end
        /\ m.platforms = call[c].platforms /\ m.start_at = call[c].start_at
        /\ m.interval = call[c].interval /\ m.done = call[c].done
    BY <1>0 DEF Shape, IsCall
  <2> HIDE DEF m
  <2>4. /\ Shape' /\ call'[c] = m
        /\ \A d \in Callers \ {c} : call'[d] = call[d]
    BY <1>0, <2>1, <2>3, CallUpdate
  <2>5. Total(c)' = Total(c)
    BY <2>1, <2>3, <2>4 DEF Eligible, Total
  <2>6. Counted(c)'
    BY <2>2, <2>3, <2>4, <2>5 DEF Counted
  <2> QED
    BY <2>1, <2>2, <2>3, <2>4, <2>6, RowsStay
<1> QED
  BY <1>1, <1>2, <1>3, <1>4, <1>5 DEF Next

LEMMA SchedulesInit == Init => Schedules
<1> SUFFICES ASSUME Init PROVE Schedules
  OBVIOUS
<1>1. Shape
  BY InitInv DEF IInv
<1>2. \A c \in Callers : call[c] = NewCall
  BY DEF Init
<1> QED
  BY <1>1, <1>2 DEF Init, Schedules, Counted, NewCall

(* Whatever calls with other intervals and other starts do meanwhile, the   *)
(* rows of a call share a slot for each clip and follow the ranks at the    *)
(* distance of the interval.                                                *)
THEOREM SlotsFollowRankHolds == Spec => []SlotsFollowRank
<1>1. Schedules => SlotsFollowRank
  <2> SUFFICES ASSUME Schedules, NEW r \in table, NEW s \in table, r.by = s.by
               PROVE  /\ r.clip = s.clip => r.scheduled_at = s.scheduled_at
                      /\ (\/ Rank[r.clip] < Rank[s.clip]
                          \/ /\ Rank[r.clip] = Rank[s.clip]
                             /\ ViralScore[r.clip] > ViralScore[s.clip])
                         => r.scheduled_at + call[r.by].interval <= s.scheduled_at
    BY DEF SlotsFollowRank
  <2>1. Placed(r) /\ Placed(s) /\ completed \subseteq Clips
    BY DEF Schedules
  <2>2. call[r.by].start_at \in Nat /\ call[r.by].interval \in Nat
    BY <2>1 DEF Placed, Schedules, Counted
  <2>3. ASSUME \/ Rank[r.clip] < Rank[s.clip]
               \/ Rank[r.clip] = Rank[s.clip] /\ ViralScore[r.clip] > ViralScore[s.clip]
        PROVE  r.scheduled_at + call[r.by].interval <= s.scheduled_at
    <3> DEFINE p == Position(Eligible, r.clip)
               q == Position(Eligible, s.clip)
               t == call[r.by].interval
    <3>1. p < q
      BY <2>1, <2>3, EligibleIsFinite, PositionGrows DEF Placed, Before
    <3>2. p \in Nat /\ q \in Nat
      BY <2>1, EligibleIsFinite, PositionType DEF Placed
    <3>3. t * p + t <= t * q
      BY <2>2, <3>1, <3>2, Spacing
    <3>4. t * p \in Nat /\ t * q \in Nat
      BY <2>2, <3>2
    <3>5. r.scheduled_at = call[r.by].start_at + t * p /\ s.scheduled_at = call[r.by].start_at + t * q
      BY <2>1 DEF Placed
    <3> HIDE DEF p, q, t
    <3>6. r.scheduled_at + t <= s.scheduled_at
      <4> DEFINE a == t * p
                 b == t * q
      <4>1. a \in Nat /\ b \in Nat /\ a + t <= b /\ t \in Nat
        BY <2>2, <3>3, <3>4 DEF t
      <4>2. r.scheduled_at = call[r.by].start_at + a /\ s.scheduled_at = call[r.by].start_at + b
        BY <3>5
      <4> HIDE DEF a, b
      <4> QED
        BY <2>2, <4>1, <4>2
    <3> QED
      BY <3>6 DEF t
  <2> QED
    BY <2>1, <2>3 DEF Placed
<1> QED
  BY <1>1, SchedulesInit, SchedulesStep, PTL DEF Spec

-----------------------------------------------------------------------------
(* All or nothing.  What the docstring of create_queue_from_job says of a    *)
(* repeated call holds when the platform lists of overlapping calls are      *)
(* equal or share no platform, and name no platform twice.                   *)
ChoicesApart ==
  /\ \A p \in PlatformChoices : \A i, j \in 1 .. Len(p) : p[i] = p[j] => i = j
  /\ \A p, q \in PlatformChoices :
       p = q \/ \A i \in 1 .. Len(p), j \in 1 .. Len(q) : p[i] # q[j]

(* A call comes to each key once.                                           *)
LEMMA KeyedDiffers ==
  ASSUME ChoicesApart, completed \subseteq Clips, NEW p \in PlatformChoices,
         NEW m \in Nat, NEW n \in Nat, m < Count(p), n < Count(p),
         Keyed(p, m) = Keyed(p, n)
  PROVE  m = n
<1> DEFINE i == (m % Len(p)) + 1
           j == (n % Len(p)) + 1
<1>1. m \div Len(p) = n \div Len(p)
  BY KeyPlace
<1>2. /\ Keyed(p, m)[2] = p[i] /\ i \in 1 .. Len(p)
      /\ Keyed(p, n)[2] = p[j] /\ j \in 1 .. Len(p)
  BY KeyPlace
<1>3. Len(p) \in Nat \ {0}
  BY KeyPlace
<1>4. m % Len(p) \in Nat /\ m = Len(p) * (m \div Len(p)) + (m % Len(p))
  <2>1. PICK P \in Nat \ {0} : P = Len(p)
    BY <1>3
  <2>2. m % P \in 0 .. P - 1 /\ m = P * (m \div P) + (m % P)
    BY Division
  <2> QED
    BY <2>1, <2>2
<1>5. n % Len(p) \in Nat /\ n = Len(p) * (n \div Len(p)) + (n % Len(p))
  <2>1. PICK P \in Nat \ {0} : P = Len(p)
    BY <1>3
  <2>2. n % P \in 0 .. P - 1 /\ n = P * (n \div P) + (n % P)
    BY Division
  <2> QED
    BY <2>1, <2>2
<1>6. i = j
  <2> HIDE DEF i, j
  <2> QED
    BY <1>2 DEF ChoicesApart
<1>7. m % Len(p) = n % Len(p)
  BY <1>4, <1>5, <1>6
<1> QED
  BY <1>1, <1>4, <1>5, <1>7

CountType == \A p \in PlatformChoices : Count(p) \in Nat

LEMMA CountIsNat ==
  ASSUME completed \subseteq Clips
  PROVE  CountType
<1>1. \A p \in PlatformChoices : p \in Seq(STRING)
  BY CallsAssumption
<1> QED
  BY <1>1, EligibleIsFinite DEF Count, CountType

LEMMA KeysApart ==
  ASSUME ChoicesApart, completed \subseteq Clips,
         NEW p \in PlatformChoices, NEW q \in PlatformChoices, p # q
  PROVE  KeysOf(p) \cap KeysOf(q) = {}
<1> SUFFICES ASSUME NEW m \in 0 .. Count(p) - 1, NEW n \in 0 .. Count(q) - 1,
                    Keyed(p, m) = Keyed(q, n)
             PROVE  FALSE
  BY DEF KeysOf
<1>1. m \in Nat /\ n \in Nat /\ m < Count(p) /\ n < Count(q)
  BY CountIsNat DEF CountType
<1> DEFINE i == (m % Len(p)) + 1
           j == (n % Len(q)) + 1
<1>2. /\ Keyed(p, m)[2] = p[i] /\ i \in 1 .. Len(p)
      /\ Keyed(q, n)[2] = q[j] /\ j \in 1 .. Len(q)
  BY <1>1, KeyPlace
<1> HIDE DEF i, j
<1> QED
  BY <1>2 DEF ChoicesApart

-----------------------------------------------------------------------------
(* The invariant.  Of the keys of a platform list the table holds all or    *)
(* none.  A call that inserts has either a row for every key that it came   *)
(* to, and then the write lock keeps the others out, or none, since all its *)
(* keys are in the table.                                                   *)
Whole ==
  \A p \in PlatformChoices : KeysOf(p) \subseteq Keys(table) \/ KeysOf(p) \cap Keys(table) = {}

Fresh(c) ==
  /\ IsFiniteSet(call[c].pending)
  /\ Cardinality(call[c].pending) = call[c].done
  /\ call[c].created_count = call[c].done
  /\ call[c].queued = {r.clip : r \in call[c].pending}
  /\ Keys(call[c].pending) = {KeyAt(c, m) : m \in 0 .. call[c].done - 1}
  /\ call[c].done > 0 => lock = c /\ Wanted(c) \cap Keys(table) = {}

Skipped(c) ==
  /\ call[c].pending = {} /\ call[c].created_count = 0 /\ call[c].queued = {}
  /\ Wanted(c) \subseteq Keys(table)

RowsBy(c) == {r \in table : r.by = c}

Told(c) ==
  /\ call[c].created_count = Cardinality(RowsBy(c))
  /\ call[c].queued = {r.clip : r \in RowsBy(c)}
  /\ Wanted(c) \subseteq Keys(table)

Account(c) ==
  /\ call[c].pc = "insert" => Fresh(c) \/ Skipped(c)
  /\ call[c].pc = "done" => Told(c)
  /\ call[c].pc # "done" => RowsBy(c) = {}

Batches == Schedules /\ Whole /\ \A c \in Callers : Account(c)

(* What the other calls need of a step: the table grows by rows that are    *)
(* not theirs, and not at all while they hold the lock.                     *)
LEMMA OtherAccount ==
  ASSUME NEW d \in Callers, Account(d), UNCHANGED completed, call'[d] = call[d],
         NEW new, table' = table \cup new, \A r \in new : r.by # d,
         call[d].pc = "insert" /\ lock = d => lock' = d /\ new = {}
  PROVE  Account(d)'
<1>1. Eligible' = Eligible
  BY DEF Eligible
<1>2. Wanted(d)' = Wanted(d) /\ \A m : KeyAt(d, m)' = KeyAt(d, m)
  BY <1>1 DEF Wanted, Total, KeyAt
<1>3. RowsBy(d)' = RowsBy(d)
  BY DEF RowsBy
<1>4. Keys(table) \subseteq Keys(table')
  BY DEF Keys
<1>5. Told(d) => Told(d)'
  BY <1>2, <1>3, <1>4 DEF Told, Keys, Key
<1>6. Skipped(d) => Skipped(d)'
  BY <1>2, <1>4 DEF Skipped, Keys, Key
<1>7. call[d].pc = "insert" /\ Fresh(d) => Fresh(d)'
  <2> SUFFICES ASSUME call[d].pc = "insert", Fresh(d) PROVE Fresh(d)'
    OBVIOUS
  <2>1. call[d].done > 0 => lock' = d /\ table' = table
    BY DEF Fresh
  <2>2. {KeyAt(d, m)' : m \in 0 .. call[d].done - 1} = {KeyAt(d, m) : m \in 0 .. call[d].done - 1}
    BY <1>2
  <2> QED
    BY <1>2, <2>1, <2>2 DEF Fresh, Keys, Key
<1> QED
  BY <1>3, <1>5, <1>6, <1>7 DEF Account
LEMMA OtherAccountKept ==
  ASSUME NEW d \in Callers, Account(d), UNCHANGED <<completed, table>>, call'[d] = call[d],
         lock = d => lock' = d
  PROVE  Account(d)'
<1>1. PICK new : new = {}
  OBVIOUS
<1>2. table' = table \cup new /\ \A r \in new : r.by # d
  BY <1>1
<1>3. completed' = completed
  OBVIOUS
<1> QED
  BY <1>1, <1>2, <1>3, OtherAccount

(* The keys of a call that inserts, through its platform list.              *)
LEMMA CallerKeys ==
  ASSUME Schedules, NEW c \in Callers, call[c].pc = "insert"
  PROVE  /\ call[c].platforms \in PlatformChoices /\ completed \subseteq Clips
         /\ Total(c) \in Nat /\ call[c].done \in 0 .. Total(c)
         /\ Wanted(c) = KeysOf(call[c].platforms)
         /\ \A n \in 0 .. Total(c) - 1 : KeyAt(c, n) \in Wanted(c)
<1>1. Counted(c) /\ completed \subseteq Clips
  BY DEF Schedules
<1>2. call[c].platforms \in PlatformChoices /\ call[c].done \in 0 .. Total(c)
  BY <1>1 DEF Counted
<1> QED
  BY <1>1, <1>2, TotalType, CallKeys DEF Wanted

LEMMA CallKeysDiffer ==
  ASSUME Schedules, ChoicesApart, NEW c \in Callers, call[c].pc = "insert",
         NEW m \in Nat, NEW n \in Nat, m < Total(c), n < Total(c),
         KeyAt(c, m) = KeyAt(c, n)
  PROVE  m = n
<1>1. call[c].platforms \in PlatformChoices /\ completed \subseteq Clips
  BY CallerKeys
<1> QED
  BY <1>1, CallKeys, KeyedDiffers

(* A call that inserts is the only one that holds a row.                    *)
LEMMA InsertingAlone ==
  ASSUME NEW c \in Callers, Inserting(c), NEW d \in Callers \ {c}
  PROVE  lock # d
BY CallsAssumption DEF Inserting

LEMMA CallBatches ==
  ASSUME Batches, Schedules', NEW c \in Callers, Call(c)
  PROVE  Batches'
<1>1. PICK platforms \in PlatformChoices, interval \in Intervals :
        call' = [call EXCEPT ![c].pc = "insert", ![c].platforms = platforms,
                             ![c].start_at = now, ![c].interval = interval]
  BY DEF Call
<1> DEFINE m == [call[c] EXCEPT !.pc = "insert", !.platforms = platforms,
                                !.start_at = now, !.interval = interval]
<1>2. call' = [call EXCEPT ![c] = m] /\ UNCHANGED <<completed, table, lock>>
  BY <1>1 DEF Call
<1>3. call[c] = NewCall /\ Shape
  BY DEF Call, Batches, Schedules, Counted
<1>4. /\ IsCall(m) /\ m.pc = "insert" /\ m.pending = {} /\ m.done = 0
      /\ m.created_count = 0 /\ m.queued = {}
  <2>1. /\ IsCall(m) /\ m.pc = "insert" /\ m.pending = call[c].pending
        /\ m.done = call[c].done /\ m.created_count = call[c].created_count
        /\ m.queued = call[c].queued
    BY <1>3 DEF Shape, IsCall
  <2> QED
    BY <1>3, <2>1 DEF NewCall
<1> HIDE DEF m
<1>5. call'[c] = m /\ \A d \in Callers \ {c} : call'[d] = call[d]
  BY <1>2, <1>3, <1>4, CallUpdate
<1>6. Eligible' = Eligible
  BY <1>2 DEF Eligible
<1>7. Whole'
  BY <1>2, <1>6 DEF Batches, Whole, KeysOf, Keyed, Count, Keys, Key
<1>8. \A d \in Callers \ {c} : Account(d)'
  <2> SUFFICES ASSUME NEW d \in Callers \ {c} PROVE Account(d)'
    OBVIOUS
  <2>1. d \in Callers /\ Account(d) /\ call'[d] = call[d]
    BY <1>5 DEF Batches
  <2> QED
    BY <1>2, <2>1, OtherAccountKept
<1>9. Fresh(c)'
  <2>1. Keys({}) = {} /\ {KeyAt(c, k)' : k \in 0 .. 0 - 1} = {}
    BY DEF Keys
  <2> QED
    BY <1>4, <1>5, <2>1, FS_EmptySet DEF Fresh, Keys
<1>10. RowsBy(c) = {} /\ RowsBy(c)' = RowsBy(c)
  BY <1>2, <1>3 DEF Batches, Account, NewCall, RowsBy
<1> QED
  BY <1>4, <1>5, <1>7, <1>8, <1>9, <1>10 DEF Batches, Account

LEMMA InsertRowBatches ==
  ASSUME ChoicesApart, Batches, Schedules', NEW c \in Callers, InsertRow(c)
  PROVE  Batches'
<1>0. PICK r : r = RowAt(c, call[c].done)
  OBVIOUS
<1> DEFINE n == call[c].done
           m == [call[c] EXCEPT !.done = n + 1,
                                !.pending = @ \cup {r},
                                !.created_count = @ + 1,
                                !.queued = @ \cup {KeyAt(c, n)[1]}]
<1>1. call' = [call EXCEPT ![c] = m] /\ UNCHANGED <<completed, table>> /\ lock' = c
  BY <1>0 DEF InsertRow
<1>2. /\ call[c].pc = "insert" /\ Inserting(c)
      /\ KeyAt(c, n) \notin Keys(table) \cup Keys(call[c].pending)
      /\ Shape /\ Schedules
  BY DEF InsertRow, Inserting, Batches, Schedules
<1>3. /\ call[c].platforms \in PlatformChoices /\ n \in Nat /\ n < Total(c)
      /\ Wanted(c) = KeysOf(call[c].platforms) /\ KeyAt(c, n) \in Wanted(c)
  BY <1>2, CallerKeys DEF Inserting
<1>4. Key(r) = KeyAt(c, n) /\ r.clip = KeyAt(c, n)[1]
  BY <1>0, KeyOfRow DEF RowAt
<1>5. /\ IsCall(m) /\ m.pc = "insert" /\ m.platforms = call[c].platforms
      /\ m.pending = call[c].pending \cup {r} /\ m.done = n + 1
      /\ m.created_count = call[c].created_count + 1
      /\ m.queued = call[c].queued \cup {r.clip}
  BY <1>2, <1>4 DEF Shape, IsCall
<1>6. Fresh(c)
  BY <1>2, <1>3 DEF Batches, Account, Skipped
<1> HIDE DEF m
<1>7. call'[c] = m /\ \A d \in Callers \ {c} : call'[d] = call[d]
  BY <1>1, <1>2, <1>5, CallUpdate
<1>8. Eligible' = Eligible
  BY <1>1 DEF Eligible
<1>9. Whole'
  BY <1>1, <1>8 DEF Batches, Whole, KeysOf, Keyed, Count, Keys, Key
<1>10. \A d \in Callers \ {c} : Account(d)'
  <2> SUFFICES ASSUME NEW d \in Callers \ {c} PROVE Account(d)'
    OBVIOUS
  <2>1. d \in Callers /\ Account(d) /\ call'[d] = call[d] /\ lock # d
    BY <1>2, <1>7, InsertingAlone DEF Batches
  <2> QED
    BY <1>1, <2>1, OtherAccountKept
<1>11. Wanted(c) \cap Keys(table) = {}
  BY <1>2, <1>3 DEF Batches, Whole
<1>12. Wanted(c)' = Wanted(c) /\ \A k : KeyAt(c, k)' = KeyAt(c, k)
  BY <1>5, <1>7, <1>8 DEF Wanted, Total, KeyAt
<1>13. r \notin call[c].pending
  BY <1>2, <1>4 DEF Keys
<1>14. Fresh(c)'
  <2> DEFINE P == call[c].pending
  <2>1. IsFiniteSet(P \cup {r}) /\ Cardinality(P \cup {r}) = n + 1
    BY <1>6, <1>13, FS_AddElement DEF Fresh
  <2>2. {s.clip : s \in P \cup {r}} = call[c].queued \cup {r.clip}
    BY <1>6 DEF Fresh
  <2>3. Keys(P \cup {r}) = {KeyAt(c, k) : k \in 0 .. (n + 1) - 1}
    <3>1. Keys(P \cup {r}) = Keys(P) \cup {KeyAt(c, n)}
      BY <1>4 DEF Keys
    <3>2. Keys(P) = {KeyAt(c, k) : k \in 0 .. n - 1}
      BY <1>6 DEF Fresh
    <3>3. 0 .. (n + 1) - 1 = (0 .. n - 1) \cup {n}
      BY <1>3
    <3> QED
      BY <3>1, <3>2, <3>3
  <2>4. {KeyAt(c, k)' : k \in 0 .. (n + 1) - 1} = {KeyAt(c, k) : k \in 0 .. (n + 1) - 1}
    BY <1>12
  <2>5. Keys(table)' = Keys(table) /\ Keys(call'[c].pending) = Keys(P \cup {r})
    BY <1>1, <1>5, <1>7 DEF Keys
  <2>6. /\ call'[c].pending = P \cup {r} /\ call'[c].done = n + 1
        /\ call'[c].created_count = n + 1
        /\ call'[c].queued = call[c].queued \cup {r.clip}
    BY <1>5, <1>6, <1>7 DEF Fresh
  <2> HIDE DEF P, n
  <2>7. /\ Keys(call[c].pending)' = {KeyAt(c, k)' : k \in 0 .. call'[c].done - 1}
        /\ call'[c].queued = {s.clip : s \in call'[c].pending}
    BY <2>2, <2>3, <2>4, <2>5, <2>6 DEF Keys, Key
  <2>8. lock' = c /\ (Wanted(c) \cap Keys(table))' = {}
    BY <1>1, <1>11, <1>12, <2>5
  <2> QED
    BY <2>1, <2>6, <2>7, <2>8 DEF Fresh
<1>15. RowsBy(c)' = {}
  BY <1>1, <1>2 DEF Batches, Account, RowsBy
<1> QED
  BY <1>5, <1>7, <1>9, <1>10, <1>14, <1>15 DEF Batches, Account
LEMMA RowExistsBatches ==
  ASSUME ChoicesApart, Batches, Schedules', NEW c \in Callers, RowExists(c)
  PROVE  Batches'
<1> DEFINE n == call[c].done
           m == [call[c] EXCEPT !.done = @ + 1, !.pending = {}]
<1>1. call' = [call EXCEPT ![c] = m] /\ UNCHANGED <<completed, table>>
  BY DEF RowExists
<1>2. /\ call[c].pc = "insert" /\ Inserting(c)
      /\ KeyAt(c, n) \in Keys(table) \cup Keys(call[c].pending)
      /\ Shape /\ Schedules
  BY DEF RowExists, Inserting, Batches, Schedules
<1>3. /\ call[c].platforms \in PlatformChoices /\ n \in Nat /\ n < Total(c)
      /\ Wanted(c) = KeysOf(call[c].platforms) /\ KeyAt(c, n) \in Wanted(c)
  BY <1>2, CallerKeys DEF Inserting
<1>4. /\ IsCall(m) /\ m.pc = "insert" /\ m.platforms = call[c].platforms
      /\ m.pending = {} /\ m.created_count = call[c].created_count
      /\ m.queued = call[c].queued
  BY <1>2 DEF Shape, IsCall
<1> HIDE DEF m
<1>5. /\ call'[c] = m
      /\ \A d \in Callers \ {c} : call'[d] = call[d]
  BY <1>1, <1>2, <1>4, CallUpdate
<1>6. Eligible' = Eligible
  BY <1>1 DEF Eligible
<1>7. Whole'
  BY <1>1, <1>6 DEF Batches, Whole, KeysOf, Keyed, Count, Keys, Key
<1>8. \A d \in Callers \ {c} : Account(d)'
  <2> SUFFICES ASSUME NEW d \in Callers \ {c} PROVE Account(d)'
    OBVIOUS
  <2>1. d \in Callers /\ Account(d) /\ call'[d] = call[d] /\ lock # d
    BY <1>2, <1>5, InsertingAlone DEF Batches
  <2> QED
    BY <1>1, <2>1, OtherAccountKept
<1>9. Skipped(c)
  <2> SUFFICES ASSUME Fresh(c) PROVE Skipped(c)
    BY <1>2 DEF Batches, Account
  <2>1. KeyAt(c, n) \notin Keys(call[c].pending)
    <3> SUFFICES ASSUME NEW k \in 0 .. n - 1, KeyAt(c, n) = KeyAt(c, k) PROVE FALSE
      BY DEF Fresh
    <3>1. k \in Nat /\ k < n /\ k < Total(c)
      BY <1>2, <1>3, CallerKeys
    <3> QED
      BY <1>2, <1>3, <3>1, CallKeysDiffer
  <2>2. n = 0 /\ Wanted(c) \subseteq Keys(table)
    BY <1>2, <1>3, <2>1 DEF Fresh, Batches, Whole
  <2>3. call[c].pending = {}
    BY <2>2, FS_EmptySet DEF Fresh
  <2> QED
    BY <2>2, <2>3 DEF Fresh, Skipped
<1>10. Wanted(c)' = Wanted(c)
  BY <1>4, <1>5, <1>6 DEF Wanted, Total, KeyAt
<1>11. Skipped(c)'
  BY <1>1, <1>4, <1>5, <1>9, <1>10 DEF Skipped, Keys, Key
<1>12. RowsBy(c)' = {}
  BY <1>1, <1>2 DEF Batches, Account, RowsBy
<1> QED
  BY <1>4, <1>5, <1>7, <1>8, <1>11, <1>12 DEF Batches, Account

LEMMA FailBatches ==
  ASSUME Batches, Schedules', NEW c \in Callers, Fail(c)
  PROVE  Batches'
<1> DEFINE m == [call[c] EXCEPT !.pc = "failed", !.pending = {}]
<1>1. /\ call' = [call EXCEPT ![c] = m] /\ UNCHANGED <<completed, table>>
      /\ lock' = (IF lock = c THEN None ELSE lock) /\ call[c].pc = "insert"
  BY DEF Fail
<1>0. Shape
  BY DEF Batches, Schedules
<1>2. IsCall(m) /\ m.pc = "failed"
  BY <1>0 DEF Shape, IsCall
<1> HIDE DEF m
<1>3. call'[c] = m /\ \A d \in Callers \ {c} : call'[d] = call[d]
  BY <1>0, <1>1, <1>2, CallUpdate
<1>4. Eligible' = Eligible
  BY <1>1 DEF Eligible
<1>5. Whole'
  BY <1>1, <1>4 DEF Batches, Whole, KeysOf, Keyed, Count, Keys, Key
<1>6. \A d \in Callers \ {c} : Account(d)'
  <2> SUFFICES ASSUME NEW d \in Callers \ {c} PROVE Account(d)'
    OBVIOUS
  <2>1. d \in Callers /\ Account(d) /\ call'[d] = call[d]
    BY <1>3 DEF Batches
  <2> QED
    BY <1>1, <2>1, OtherAccountKept
<1>7. RowsBy(c)' = {}
  BY <1>1 DEF Batches, Account, RowsBy
<1> QED
  BY <1>2, <1>3, <1>5, <1>6, <1>7 DEF Batches, Account

(* What a commit adds: the keys of its call, or nothing.                    *)
LEMMA CommitAdds ==
  ASSUME Batches, NEW c \in Callers, Commit(c)
  PROVE  /\ Keys(table') = Keys(table) \cup Wanted(c)
         /\ \/ Skipped(c) /\ table' = table
            \/ Fresh(c) /\ Keys(call[c].pending) = Wanted(c)
<1>1. /\ call[c].pc = "insert" /\ call[c].done = Total(c)
      /\ table' = table \cup call[c].pending
  BY DEF Commit
<1>2. CASE Skipped(c)
  BY <1>1, <1>2 DEF Skipped
<1>3. CASE Fresh(c)
  <2>1. Keys(call[c].pending) = Wanted(c)
    BY <1>1, <1>3 DEF Fresh, Wanted
  <2> QED
    BY <1>1, <1>3, <2>1, KeysOfUnion
<1> QED
  BY <1>1, <1>2, <1>3 DEF Batches, Account

LEMMA CommitBatches ==
  ASSUME ChoicesApart, Batches, Schedules', NEW c \in Callers, Commit(c)
  PROVE  Batches'
<1> DEFINE m == [call[c] EXCEPT !.pc = "done", !.pending = {}]
<1>1. /\ call' = [call EXCEPT ![c] = m] /\ UNCHANGED completed
      /\ table' = table \cup call[c].pending
      /\ lock' = (IF lock = c THEN None ELSE lock)
      /\ call[c].pc = "insert" /\ call[c].done = Total(c)
  BY DEF Commit
<1>0. Shape /\ Schedules
  BY DEF Batches, Schedules
<1>2. /\ IsCall(m) /\ m.pc = "done" /\ m.platforms = call[c].platforms
      /\ m.created_count = call[c].created_count /\ m.queued = call[c].queued
  BY <1>0 DEF Shape, IsCall
<1> HIDE DEF m
<1>3. call'[c] = m /\ \A d \in Callers \ {c} : call'[d] = call[d]
  BY <1>0, <1>1, <1>2, CallUpdate
<1>4. Eligible' = Eligible
  BY <1>1 DEF Eligible
<1>5. /\ call[c].platforms \in PlatformChoices /\ completed \subseteq Clips
      /\ Wanted(c) = KeysOf(call[c].platforms) /\ call[c].done \in Nat
  BY <1>0, <1>1, CallerKeys
<1>6. Keys(table') = Keys(table) \cup Wanted(c)
  BY CommitAdds
<1>7. Whole'
  <2> SUFFICES ASSUME NEW p \in PlatformChoices
               PROVE  KeysOf(p) \subseteq Keys(table') \/ KeysOf(p) \cap Keys(table') = {}
    <3>1. \A p : KeysOf(p)' = KeysOf(p)
      BY <1>4 DEF KeysOf, Keyed, Count
    <3>2. Keys(table)' = Keys(table')
      BY DEF Keys, Key
    <3> QED
      BY <3>1, <3>2 DEF Whole
  <2>1. CASE p = call[c].platforms
    BY <1>5, <1>6, <2>1
  <2>2. CASE p # call[c].platforms
    <3>1. KeysOf(p) \cap Wanted(c) = {}
      BY <1>5, <2>2, KeysApart
    <3> QED
      BY <1>6, <3>1 DEF Batches, Whole
  <2> QED
    BY <2>1, <2>2
<1>8. \A r \in call[c].pending : r.by = c
  BY <1>0 DEF Schedules
<1>9. \A d \in Callers \ {c} : Account(d)'
  <2> SUFFICES ASSUME NEW d \in Callers \ {c} PROVE Account(d)'
    OBVIOUS
  <2>1. d \in Callers /\ Account(d) /\ call'[d] = call[d]
    BY <1>3 DEF Batches
  <2>2. lock = d => lock' = d /\ call[c].pending = {}
    <3> SUFFICES ASSUME lock = d PROVE call[c].pending = {}
      BY <1>1
    <3>1. CASE Skipped(c)
      BY <3>1 DEF Skipped
    <3>2. CASE Fresh(c)
      BY <1>5, <3>2, FS_EmptySet DEF Fresh
    <3> QED
      BY <3>1, <3>2, CommitAdds
  <2>3. PICK new : new = call[c].pending
    OBVIOUS
  <2>4. table' = table \cup new /\ \A r \in new : r.by # d
    BY <1>1, <1>8, <2>3
  <2>5. lock = d => lock' = d /\ new = {}
    BY <2>2, <2>3
  <2>6. completed' = completed
    BY <1>1
  <2> QED
    BY <2>1, <2>4, <2>5, <2>6, OtherAccount
<1>10. Wanted(c)' = Wanted(c)
  BY <1>2, <1>3, <1>4 DEF Wanted, Total, KeyAt
<1>11. RowsBy(c)' = call[c].pending
  <2>1. RowsBy(c) = {}
    BY <1>1 DEF Batches, Account
  <2> QED
    BY <1>1, <1>8, <2>1 DEF RowsBy
<1>12. Told(c)'
  <2>1. Wanted(c)' \subseteq Keys(table)'
    BY <1>6, <1>10 DEF Keys, Key
  <2>2. /\ call[c].created_count = Cardinality(call[c].pending)
        /\ call[c].queued = {r.clip : r \in call[c].pending}
    <3>1. CASE Skipped(c)
      BY <3>1, FS_EmptySet DEF Skipped
    <3>2. CASE Fresh(c)
      BY <3>2 DEF Fresh
    <3> QED
      BY <3>1, <3>2, CommitAdds
  <2> QED
    BY <1>2, <1>3, <1>11, <2>1, <2>2 DEF Told
<1> QED
  BY <1>2, <1>3, <1>7, <1>9, <1>12 DEF Batches, Account

LEMMA BatchesStep ==
  ASSUME ChoicesApart
  PROVE  Batches /\ [Next]_vars => Batches'
<1> SUFFICES ASSUME Batches, [Next]_vars PROVE Batches'
  OBVIOUS
<1>1. Schedules'
  BY SchedulesStep DEF Batches
<1>2. CASE Tick \/ UNCHANGED vars
  <2>1. UNCHANGED <<completed, table, lock, call>>
    BY <1>2 DEF Tick, vars
  <2>2. Eligible' = Eligible
    BY <2>1 DEF Eligible
  <2>3. Whole'
    BY <2>1, <2>2 DEF Batches, Whole, KeysOf, Keyed, Count, Keys, Key
  <2>4. \A d \in Callers : Account(d)'
    <3> SUFFICES ASSUME NEW d \in Callers PROVE Account(d)'
      OBVIOUS
    <3>1. Account(d) /\ call'[d] = call[d]
      BY <2>1 DEF Batches
    <3> QED
      BY <2>1, <3>1, OtherAccountKept
  <2> QED
    BY <1>1, <2>3, <2>4 DEF Batches
<1>3. ASSUME NEW c \in Callers,
             Call(c) \/ InsertRow(c) \/ RowExists(c) \/ Commit(c) \/ Fail(c)
      PROVE  Batches'
  BY <1>1, <1>3, CallBatches, InsertRowBatches, RowExistsBatches, CommitBatches, FailBatches
<1> QED
  BY <1>2, <1>3 DEF Next

LEMMA BatchesInit == Init => Batches
<1> SUFFICES ASSUME Init PROVE Batches
  OBVIOUS
<1>1. Schedules
  BY SchedulesInit
<1>2. table = {} /\ Keys(table) = {} /\ \A c \in Callers : call[c].pc = "new"
  BY DEF Init, Keys, NewCall
<1>3. Whole
  BY <1>2 DEF Whole
<1>4. \A c \in Callers : Account(c)
  BY <1>2 DEF Account, RowsBy
<1> QED
  BY <1>1, <1>3, <1>4 DEF Batches

(* With such lists, a call that has returned left a row for every clip and  *)
(* platform it was asked for, whoever wrote it.                             *)
THEOREM EveryClipIsQueuedHolds == ChoicesApart => (Spec => []EveryClipIsQueued)
<1> SUFFICES ASSUME ChoicesApart PROVE Spec => []EveryClipIsQueued
  OBVIOUS
<1>1. Batches => EveryClipIsQueued
  BY DEF Batches, Account, Told, EveryClipIsQueued
<1>2. Batches /\ [Next]_vars => Batches'
  BY BatchesStep
<1> QED
  BY <1>1, <1>2, BatchesInit, PTL DEF Spec

(* Its summary counts and names exactly the rows that it wrote itself.      *)
THEOREM SummaryIsTrueHolds == ChoicesApart => (Spec => []SummaryIsTrue)
<1> SUFFICES ASSUME ChoicesApart PROVE Spec => []SummaryIsTrue
  OBVIOUS
<1>1. Batches => SummaryIsTrue
  BY DEF Batches, Account, Told, RowsBy, SummaryIsTrue
<1>2. Batches /\ [Next]_vars => Batches'
  BY BatchesStep
<1> QED
  BY <1>1, <1>2, BatchesInit, PTL DEF Spec

(* A commit adds all the keys of its call or none.                          *)
THEOREM BatchesAreWholeHolds == ChoicesApart => (Spec => BatchesAreWhole)
<1> SUFFICES ASSUME ChoicesApart PROVE Spec => BatchesAreWhole
  OBVIOUS
<1>1. Batches /\ [Next]_vars => Batches'
  BY BatchesStep
<1>2. Batches /\ [Next]_vars =>
        [table' # table => \E c \in Callers : Keys(table') = Keys(table) \cup Wanted(c)]_table
  <2> SUFFICES ASSUME Batches, [Next]_vars, table' # table
               PROVE  \E c \in Callers : Keys(table') = Keys(table) \cup Wanted(c)
    OBVIOUS
  <2>1. PICK c \in Callers : Commit(c)
    BY DEF Next, vars, Tick, Call, InsertRow, RowExists, Fail
  <2> QED
    BY <2>1, CommitAdds
<1> QED
  BY <1>1, <1>2, BatchesInit, PTL DEF Spec, BatchesAreWhole
=============================================================================
