--------------------------- MODULE AlgorithmsProofs ---------------------------
(***************************************************************************)
(* Proofs about the parts without state, for documents, clips and rows of  *)
(* every length and content.                                               *)
(***************************************************************************)
EXTENDS Algorithms, FoldLemmas

-----------------------------------------------------------------------------
(* Where goes through the sequence from the left.                           *)
Keeps(s, N, X) ==
  [n \in 1 .. Len(s) |-> [v \in Seq(X) |-> IF n \in N THEN Append(v, s[n]) ELSE v]]

LEMMA WhereIs ==
  ASSUME NEW X, NEW s \in Seq(X), NEW N
  PROVE  \E c : Loops(c, Len(s), Seq(X), <<>>, Keeps(s, N, X)) /\ Where(s, N) = c[Len(s)]
<1>0. Len(s) \in Nat
  OBVIOUS
<1>1. PICK L \in Nat : L = Len(s)
  BY <1>0
<1>2. \A n \in 1 .. L : s[n] \in X
  BY <1>1
<1>3. <<>> \in Seq(X) /\ Closed(Keeps(s, N, X), 1 .. L, Seq(X))
  BY <1>1, <1>2 DEF Closed, Keeps
<1>4. PICK c : Loops(c, L, Seq(X), <<>>, Keeps(s, N, X))
  BY <1>3, LoopExists
<1>5. /\ c \in [0 .. L -> Seq(X)] /\ c[0] = <<>>
      /\ \A n \in 1 .. L : c[n] = IF n \in N THEN Append(c[n - 1], s[n]) ELSE c[n - 1]
  <2>1. \A n \in 1 .. L : n - 1 \in 0 .. L
    OBVIOUS
  <2> QED
    BY <1>1, <1>4, <2>1 DEF Loops, Keeps
<1> DEFINE P(f) == f = [n \in 0 .. L |->
                          IF n = 0 THEN <<>>
                          ELSE IF n \in N THEN Append(f[n - 1], s[n]) ELSE f[n - 1]]
           chosen == CHOOSE f : P(f)
<1>6. Where(s, N) = chosen[L]
  BY <1>1 DEF Where
<1>7. P(c)
  <2>1. \A n \in 0 .. L : n = 0 \/ n \in 1 .. L
    OBVIOUS
  <2> QED
    BY <1>5, <2>1
<1>8. P(chosen)
  <2> HIDE DEF P
  <2> QED
    BY <1>7
<1> HIDE DEF chosen
<1> DEFINE M == {n \in Nat : n <= L => chosen[n] = c[n]}
<1>9. 0 \in M
  <2>1. 0 \in 0 .. L
    OBVIOUS
  <2> QED
    BY <1>5, <1>8, <2>1
<1>10. ASSUME NEW n \in Nat, n \in M PROVE n + 1 \in M
  <2>1. CASE n + 1 <= L
    <3>1. PICK k : k = n + 1
      OBVIOUS
    <3>2. k \in 1 .. L /\ k \in 0 .. L /\ k # 0 /\ k - 1 = n /\ chosen[n] = c[n]
      BY <1>10, <2>1, <3>1
    <3>3. chosen[k] = IF k \in N THEN Append(chosen[n], s[k]) ELSE chosen[n]
      BY <1>8, <3>2
    <3>4. c[k] = IF k \in N THEN Append(c[n], s[k]) ELSE c[n]
      BY <1>5, <3>2
    <3>5. chosen[k] = c[k]
      BY <3>2, <3>3, <3>4
    <3> QED
      BY <3>1, <3>5
  <2>2. CASE ~ (n + 1 <= L)
    BY <2>2
  <2> QED
    BY <2>1, <2>2
<1>11. L \in M
  <2> HIDE DEF M
  <2> QED
    BY <1>9, <1>10, NumbersByInduction
<1> QED
  BY <1>1, <1>4, <1>6, <1>11

LEMMA WhereOfNothing ==
  ASSUME NEW N
  PROVE  Where(<<>>, N) = <<>>
<1>1. PICK e : e = <<>>
  OBVIOUS
<1>2. e \in Seq({}) /\ Len(e) = 0
  BY <1>1, EmptySeq
<1>3. PICK f : Loops(f, 0, Seq({}), <<>>, Keeps(e, N, {})) /\ Where(e, N) = f[0]
  BY <1>2, WhereIs
<1> QED
  BY <1>1, <1>3 DEF Loops

(* One element more, whatever the places are called in the longer sequence. *)
SameUpTo(L, N, M) == \A n \in 1 .. L : n \in N <=> n \in M

LEMMA WhereAppend ==
  ASSUME NEW X, NEW s \in Seq(X), NEW x \in X, NEW N, NEW M, SameUpTo(Len(s), N, M)
  PROVE  /\ Where(s, N) \in Seq(X)
         /\ Where(Append(s, x), M) = IF Len(s) + 1 \in M THEN Append(Where(s, N), x)
                                                        ELSE Where(s, N)
<1>0. Len(s) \in Nat
  OBVIOUS
<1>1. PICK L \in Nat : L = Len(s)
  BY <1>0
<1>a. \A n \in 1 .. L : n \in N <=> n \in M
  BY <1>1 DEF SameUpTo
<1> PICK t : t = Append(s, x)
  OBVIOUS
<1>2. /\ t \in Seq(X) /\ Len(t) = L + 1 /\ t[L + 1] = x
      /\ \A n \in 1 .. L : t[n] = s[n]
  BY <1>1
<1>3. PICK c : Loops(c, L, Seq(X), <<>>, Keeps(s, N, X)) /\ Where(s, N) = c[L]
  BY <1>1, WhereIs
<1>4. PICK d : Loops(d, L + 1, Seq(X), <<>>, Keeps(t, M, X)) /\ Where(t, M) = d[L + 1]
  BY <1>2, WhereIs
<1>5. \A n \in 1 .. L, v \in Seq(X) : Keeps(s, N, X)[n][v] = Keeps(t, M, X)[n][v]
  <2>1. \A n \in 1 .. L : n \in 1 .. L + 1
    BY <1>1
  <2>2. \A n \in 1 .. L, v \in Seq(X) :
          Keeps(s, N, X)[n][v] = IF n \in N THEN Append(v, s[n]) ELSE v
    BY <1>1 DEF Keeps
  <2>3. \A n \in 1 .. L, v \in Seq(X) :
          Keeps(t, M, X)[n][v] = IF n \in M THEN Append(v, t[n]) ELSE v
    BY <1>2, <2>1 DEF Keeps
  <2> QED
    BY <1>a, <1>1, <1>2, <2>2, <2>3
<1>6. c[L] = d[L]
  <2>1. L + 1 \in Nat /\ L <= L + 1 /\ L \in 0 .. L
    OBVIOUS
  <2>2. Alike(L, Seq(X), Keeps(s, N, X), Keeps(t, M, X))
    BY <1>5 DEF Alike
  <2> QED
    BY <1>3, <1>4, <2>1, <2>2, LoopsAgree
<1>7. c[L] \in Seq(X)
  BY <1>3 DEF Loops
<1>8. d[L + 1] = IF L + 1 \in M THEN Append(d[L], x) ELSE d[L]
  <2>1. L + 1 \in 1 .. L + 1 /\ (L + 1) - 1 = L
    OBVIOUS
  <2>2. d[L + 1] = Keeps(t, M, X)[L + 1][d[L]]
    BY <1>4, <2>1 DEF Loops
  <2>3. d[L] \in Seq(X)
    BY <1>6, <1>7
  <2> QED
    BY <1>2, <2>1, <2>2, <2>3 DEF Keeps
<1> QED
  BY <1>1, <1>3, <1>4, <1>6, <1>7, <1>8

-----------------------------------------------------------------------------
(* The capability report. *)
Rows(platform) == [status : StatusesOf(platform), updated : Int, extra : {ExtraOf(platform)},
                   readable : BOOLEAN, age : Ages]

LEMMA RowsHaveWhatIsNeeded ==
  ASSUME NEW platform \in Platforms, NEW account \in Rows(platform)
  PROVE  Needs(platform) \subseteq account.extra
BY DEF Platforms, Rows, Needs, ExtraOf

(* What a connected account with everything the callbacks store answers.    *)
LEMMA ConnectedOutcome ==
  ASSUME NEW platform \in Platforms, NEW settings \in Settings, NEW account \in Rows(platform),
         NEW attempt \in Attempts, account.status = "CONNECTED",
         platform = "instagram" => settings.url
  PROVE  /\ LocalOutcome(platform, settings, account, attempt) # "UNSUPPORTED"
         /\ LocalOutcome(platform, settings, account, attempt) = "sends"
              <=> TokenServes(platform, account, attempt) /\ ClipServes(platform, attempt)
<1>1. Needs(platform) \subseteq account.extra
  BY RowsHaveWhatIsNeeded
<1>2. account.readable \in BOOLEAN /\ account.age \in {"undated", "far", "soon", "past"}
  BY DEF Rows, Ages
<1>3. attempt.titled \in BOOLEAN /\ attempt.file \in BOOLEAN /\ attempt.extended \in BOOLEAN
  BY DEF Attempts
<1>4. CASE platform = "youtube"
  BY <1>1, <1>2, <1>3, <1>4 DEF LocalOutcome, StatusAfterRefresh, TokenServes, ClipServes
<1>5. CASE platform # "youtube"
  BY <1>1, <1>2, <1>3, <1>5 DEF LocalOutcome, StatusAfterRefresh, TokenServes, ClipServes
<1> QED
  BY <1>4, <1>5

(* Whatever rows a platform has, in whatever order: only the token and the  *)
(* clip keep what the report calls AVAILABLE from a post, and what it calls *)
(* otherwise is posted only behind a last row that is not connected.        *)
THEOREM ReportIsHonest ==
  ASSUME NEW platform \in Platforms, NEW settings \in Settings,
         NEW accounts \in Seq(Rows(platform))
  PROVE  ReportIsWorthTrying(platform, settings, accounts)
<1>1. Len(accounts) \in Nat /\ \A n \in 1 .. Len(accounts) : accounts[n] \in Rows(platform)
  OBVIOUS
<1>2. accounts # <<>> => Len(accounts) \in 1 .. Len(accounts)
  BY <1>1, EmptySeq
<1>3. \A n \in 1 .. Len(accounts) : Needs(platform) \subseteq accounts[n].extra
  BY <1>1, RowsHaveWhatIsNeeded
<1>4. Candidates(accounts) \subseteq 1 .. Len(accounts) /\ IsFiniteSet(Candidates(accounts))
  <2>1. Candidates(accounts) \subseteq 1 .. Len(accounts)
    BY DEF Candidates
  <2>2. PICK i \in Int : i = 1
    OBVIOUS
  <2>3. PICK k \in Int : k = Len(accounts)
    BY <1>1
  <2>4. IsFiniteSet(i .. k)
    BY FS_Interval
  <2> QED
    BY <2>1, <2>2, <2>3, <2>4, FS_Subset
<1>5. ASSUME NEW a \in Picked(accounts)
      PROVE  \E n \in 1 .. Len(accounts) : a = accounts[n] /\ a.status = "CONNECTED"
  BY <1>4 DEF Picked, Candidates
<1>6. ASSUME Reported(platform, settings, accounts) = "AVAILABLE"
      PROVE  /\ Picked(accounts) # {}
             /\ platform = "instagram" => settings.url
  <2>1. /\ accounts # <<>> /\ accounts[Len(accounts)].status = "CONNECTED"
        /\ platform = "instagram" => settings.url
    BY <1>6 DEF Reported, Capability, NoAccount
  <2>2. Len(accounts) \in Candidates(accounts)
    BY <1>2, <2>1 DEF Candidates
  <2>3. PICK u : u = [n \in Candidates(accounts) |-> accounts[n].updated]
    OBVIOUS
  <2>4. \A n \in Candidates(accounts) : u[n] = accounts[n].updated /\ u[n] \in Int
    BY <1>1, <1>4, <2>3 DEF Rows
  <2>5. PICK n \in Candidates(accounts) : \A m \in Candidates(accounts) : u[n] >= u[m]
    BY <1>4, <2>2, <2>4, LargestExists
  <2>6. accounts[n] \in Picked(accounts)
    BY <2>4, <2>5 DEF Picked
  <2> QED
    BY <2>1, <2>6
<1>7. ASSUME Reported(platform, settings, accounts) = "AVAILABLE",
             NEW a \in Picked(accounts), NEW attempt \in Attempts
      PROVE  /\ LocalOutcome(platform, settings, a, attempt) # "UNSUPPORTED"
             /\ LocalOutcome(platform, settings, a, attempt) = "sends"
                  <=> TokenServes(platform, a, attempt) /\ ClipServes(platform, attempt)
  <2>1. a \in Rows(platform) /\ a.status = "CONNECTED"
    BY <1>1, <1>5
  <2>2. platform = "instagram" => settings.url
    BY <1>6, <1>7
  <2> QED
    BY <2>1, <2>2, ConnectedOutcome
<1>8. ASSUME Configured(platform, settings),
             Reported(platform, settings, accounts) # "AVAILABLE",
             accounts[Len(accounts)].status = "CONNECTED",
             NEW a \in Picked(accounts), NEW attempt \in Attempts
      PROVE  LocalOutcome(platform, settings, a, attempt) # "sends"
  <2>1. PICK n \in 1 .. Len(accounts) : a = accounts[n]
    BY <1>5
  <2>2. accounts # <<>>
    BY <1>1, <2>1, EmptySeq
  <2>3. Needs(platform) \subseteq accounts[Len(accounts)].extra
    BY <1>2, <1>3, <2>2
  <2>4. platform = "instagram" /\ ~ settings.url
    BY <1>8, <2>2, <2>3 DEF Reported, Capability
  <2> QED
    BY <2>4 DEF LocalOutcome
<1>9. Reported(platform, settings, accounts) # "CHECK_REQUIRED"
  BY <1>2, <1>3 DEF Reported, Capability, NoAccount
<1> QED
  BY <1>6, <1>7, <1>8, <1>9 DEF ReportIsWorthTrying

-----------------------------------------------------------------------------
(* Native documents. *)
Clip == [id : Int, rank : Int, notes : Seq(STRING), start : Int, end : Int, duration : Int]

(* A time that is written as HH:MM:SS reads back as it was.                 *)
LEMMA TimesReadBack ==
  ASSUME NEW t \in Time
  PROVE  ParseTimecode(t) \in Nat /\ FormatTimecode(10 * ParseTimecode(t)) = t
<1>1. PICK h \in Nat, m \in 0 .. 59, s \in 0 .. 59 : t = [h |-> h, m |-> m, s |-> s]
  BY DEF Time
<1>2. PICK p : p = h * 3600 + m * 60 + s
  OBVIOUS
<1>3. p \in Nat /\ ParseTimecode(t) = p
  BY <1>1, <1>2 DEF ParseTimecode
<1>4. (10 * p) \div 10 = p /\ (10 * p) % 10 = 0
  BY <1>3
<1>5. p \div 3600 = h /\ p % 3600 = m * 60 + s
  BY <1>2
<1>6. (m * 60 + s) \div 60 = m
  OBVIOUS
<1>7. p % 60 = s
  BY <1>2
<1>8. FormatTimecode(10 * p) = [h |-> p \div 3600, m |-> (p % 3600) \div 60, s |-> p % 60]
  BY <1>3, <1>4 DEF FormatTimecode
<1> QED
  BY <1>1, <1>3, <1>5, <1>6, <1>7, <1>8

LEMMA ValidatedIsClip ==
  ASSUME NEW raw \in RawClip, RangeIsValid(raw)
  PROVE  /\ ValidatedClip(raw) \in Clip /\ ValidatedClip(raw).id = raw.id
         /\ ValidatedClip(raw).start < ValidatedClip(raw).end
         /\ FormatTimecode(10 * ValidatedClip(raw).start) = raw.start
         /\ FormatTimecode(10 * ValidatedClip(raw).end) = raw.end
<1>1. raw.start \in Time /\ raw.end \in Time
  BY DEF RawClip, RangeIsValid
<1>2. /\ ParseTimecode(raw.start) \in Nat /\ ParseTimecode(raw.end) \in Nat
      /\ FormatTimecode(10 * ParseTimecode(raw.start)) = raw.start
      /\ FormatTimecode(10 * ParseTimecode(raw.end)) = raw.end
  BY <1>1, TimesReadBack
<1>3. ParseTimecode(raw.start) < ParseTimecode(raw.end)
  BY <1>2 DEF RangeIsValid
<1> QED
  BY <1>2, <1>3 DEF RawClip, Clip, ValidatedClip

(* What is accepted is the clips of the document, validated.                *)
LEMMA AcceptedAre ==
  ASSUME NEW doc, doc.clips \in Seq(RawClip), ValidateNative(doc).ok
  PROVE  /\ ValidateNative(doc).clips = [n \in DOMAIN doc.clips |-> ValidatedClip(doc.clips[n])]
         /\ ValidateNative(doc).clips \in Seq(Clip)
         /\ IdsDiffer(doc.clips)
         /\ \A n \in DOMAIN doc.clips : RangeIsValid(doc.clips[n])
<1>1. ValidateNative(doc) = ValidateV1(doc)
  BY DEF ValidateNative, Error
<1>2. /\ IdsDiffer(doc.clips) /\ \A n \in DOMAIN doc.clips : RangeIsValid(doc.clips[n])
      /\ ValidateV1(doc) = Accepted([n \in DOMAIN doc.clips |-> ValidatedClip(doc.clips[n])])
  BY <1>1 DEF ValidateV1, Error
<1>3. ValidateNative(doc).clips = [n \in DOMAIN doc.clips |-> ValidatedClip(doc.clips[n])]
  <2>1. PICK c : c = [n \in DOMAIN doc.clips |-> ValidatedClip(doc.clips[n])]
    OBVIOUS
  <2>2. Accepted(c).clips = c
    BY DEF Accepted
  <2> QED
    BY <1>1, <1>2, <2>1, <2>2
<1>4. PICK L \in Nat : DOMAIN doc.clips = 1 .. L /\ \A n \in 1 .. L : doc.clips[n] \in RawClip
  <2>1. Len(doc.clips) \in Nat /\ DOMAIN doc.clips = 1 .. Len(doc.clips)
        /\ \A n \in 1 .. Len(doc.clips) : doc.clips[n] \in RawClip
    OBVIOUS
  <2> QED
    BY <2>1
<1>5. \A n \in 1 .. L : ValidatedClip(doc.clips[n]) \in Clip
  BY <1>2, <1>4, ValidatedIsClip
<1>6. [n \in 1 .. L |-> ValidatedClip(doc.clips[n])] \in Seq(Clip)
  BY <1>5, IsASeq
<1> QED
  BY <1>2, <1>3, <1>4, <1>6

LEMMA InsideAppend ==
  ASSUME NEW clips \in Seq(Clip), NEW clip \in Clip, NEW tenths
  PROVE  /\ SelectInside(<<>>, tenths) = <<>> /\ SelectInside(clips, tenths) \in Seq(Clip)
         /\ SelectInside(Append(clips, clip), tenths) =
              IF WithinVideo(clip, tenths) THEN Append(SelectInside(clips, tenths), clip)
                                           ELSE SelectInside(clips, tenths)
<1>0. Len(clips) \in Nat
  OBVIOUS
<1>1. PICK t, N, M : /\ t = Append(clips, clip)
                     /\ N = {n \in DOMAIN clips : WithinVideo(clips[n], tenths)}
                     /\ M = {n \in DOMAIN t : WithinVideo(t[n], tenths)}
  OBVIOUS
<1>2. /\ DOMAIN clips = 1 .. Len(clips) /\ DOMAIN t = 1 .. Len(clips) + 1
      /\ t[Len(clips) + 1] = clip /\ \A n \in 1 .. Len(clips) : t[n] = clips[n]
  BY <1>1
<1>3. /\ \A n \in 1 .. Len(clips) : n \in N <=> n \in M
      /\ Len(clips) + 1 \in M <=> WithinVideo(clip, tenths)
  BY <1>0, <1>1, <1>2
<1>4. SelectInside(clips, tenths) = Where(clips, N) /\ SelectInside(t, tenths) = Where(t, M)
  BY <1>1 DEF SelectInside
<1>5. \A K : Where(<<>>, K) = <<>>
  BY WhereOfNothing
<1>6. SelectInside(<<>>, tenths) = <<>>
  BY <1>5 DEF SelectInside
<1>7. /\ Where(clips, N) \in Seq(Clip)
      /\ Where(Append(clips, clip), M) = IF Len(clips) + 1 \in M THEN Append(Where(clips, N), clip)
                                                                ELSE Where(clips, N)
  <2>1. SameUpTo(Len(clips), N, M)
    BY <1>3 DEF SameUpTo
  <2> QED
    BY <2>1, WhereAppend
<1> QED
  BY <1>1, <1>3, <1>4, <1>6, <1>7

LEMMA NamedAppend ==
  ASSUME NEW clips \in Seq(Clip), NEW clip \in Clip, NEW wanted
  PROVE  /\ SelectNamed(<<>>, wanted) = <<>> /\ SelectNamed(clips, wanted) \in Seq(Clip)
         /\ SelectNamed(Append(clips, clip), wanted) =
              IF clip.id \in wanted THEN Append(SelectNamed(clips, wanted), clip)
                                    ELSE SelectNamed(clips, wanted)
<1>0. Len(clips) \in Nat
  OBVIOUS
<1>1. PICK t, N, M : /\ t = Append(clips, clip)
                     /\ N = {n \in DOMAIN clips : clips[n].id \in wanted}
                     /\ M = {n \in DOMAIN t : t[n].id \in wanted}
  OBVIOUS
<1>2. /\ DOMAIN clips = 1 .. Len(clips) /\ DOMAIN t = 1 .. Len(clips) + 1
      /\ t[Len(clips) + 1] = clip /\ \A n \in 1 .. Len(clips) : t[n] = clips[n]
  BY <1>1
<1>3. /\ \A n \in 1 .. Len(clips) : n \in N <=> n \in M
      /\ Len(clips) + 1 \in M <=> clip.id \in wanted
  BY <1>0, <1>1, <1>2
<1>4. SelectNamed(clips, wanted) = Where(clips, N) /\ SelectNamed(t, wanted) = Where(t, M)
  BY <1>1 DEF SelectNamed
<1>5. \A K : Where(<<>>, K) = <<>>
  BY WhereOfNothing
<1>6. SelectNamed(<<>>, wanted) = <<>>
  BY <1>5 DEF SelectNamed
<1>7. /\ Where(clips, N) \in Seq(Clip)
      /\ Where(Append(clips, clip), M) = IF Len(clips) + 1 \in M THEN Append(Where(clips, N), clip)
                                                                ELSE Where(clips, N)
  <2>1. SameUpTo(Len(clips), N, M)
    BY <1>3 DEF SameUpTo
  <2> QED
    BY <2>1, WhereAppend
<1> QED
  BY <1>1, <1>3, <1>4, <1>6, <1>7

(* Each clip that is selected lies inside the video.                        *)
LEMMA InsideIsInside ==
  ASSUME NEW tenths
  PROVE  \A clips \in Seq(Clip) : \A n \in DOMAIN SelectInside(clips, tenths) :
            WithinVideo(SelectInside(clips, tenths)[n], tenths)
<1> DEFINE Good(s) == \A n \in DOMAIN s : WithinVideo(s[n], tenths)
           G == {clips \in Seq(Clip) : Good(SelectInside(clips, tenths))}
<1>1. <<>> \in G
  <2>1. SelectInside(<<>>, tenths) = <<>> /\ <<>> \in Seq(Clip)
    BY WhereOfNothing, EmptySeq DEF SelectInside
  <2> QED
    BY <2>1
<1>2. ASSUME NEW clips \in Seq(Clip), NEW clip \in Clip, clips \in G PROVE Append(clips, clip) \in G
  <2>1. PICK s : s = SelectInside(clips, tenths)
    OBVIOUS
  <2>2. s \in Seq(Clip) /\ Good(s) /\ Append(clips, clip) \in Seq(Clip)
    BY <1>2, <2>1, InsideAppend
  <2>3. WithinVideo(clip, tenths) => Good(Append(s, clip))
    BY <2>2
  <2>4. Good(SelectInside(Append(clips, clip), tenths))
    <3> HIDE DEF Good
    <3> QED
      BY <2>1, <2>2, <2>3, InsideAppend
  <2> QED
    BY <2>2, <2>4
<1>3. Seq(Clip) \subseteq G
  <2> HIDE DEF G
  <2> QED
    BY <1>1, <1>2, SequencesByInduction
<1> QED
  BY <1>3

(* It does not matter which selection is made first.                        *)
LEMMA SelectionsCommute ==
  ASSUME NEW tenths, NEW wanted
  PROVE  \A clips \in Seq(Clip) :
            SelectNamed(SelectInside(clips, tenths), wanted)
              = SelectInside(SelectNamed(clips, wanted), tenths)
<1> DEFINE G == {clips \in Seq(Clip) :
                   SelectNamed(SelectInside(clips, tenths), wanted)
                     = SelectInside(SelectNamed(clips, wanted), tenths)}
<1>1. <<>> \in G
  <2>1. /\ SelectInside(<<>>, tenths) = <<>> /\ SelectNamed(<<>>, wanted) = <<>>
        /\ <<>> \in Seq(Clip)
    BY WhereOfNothing, EmptySeq DEF SelectInside, SelectNamed
  <2> QED
    BY <2>1
<1>2. ASSUME NEW clips \in Seq(Clip), NEW clip \in Clip, clips \in G PROVE Append(clips, clip) \in G
  <2>1. PICK a, b : a = SelectInside(clips, tenths) /\ b = SelectNamed(clips, wanted)
    OBVIOUS
  <2>2. /\ a \in Seq(Clip) /\ b \in Seq(Clip) /\ Append(clips, clip) \in Seq(Clip)
        /\ SelectNamed(a, wanted) = SelectInside(b, tenths)
    BY <1>2, <2>1, InsideAppend, NamedAppend
  <2>3. SelectNamed(SelectInside(Append(clips, clip), tenths), wanted)
          = IF WithinVideo(clip, tenths) /\ clip.id \in wanted
              THEN Append(SelectNamed(a, wanted), clip) ELSE SelectNamed(a, wanted)
    <3>1. SelectInside(Append(clips, clip), tenths)
            = IF WithinVideo(clip, tenths) THEN Append(a, clip) ELSE a
      BY <2>1, InsideAppend
    <3>2. SelectNamed(Append(a, clip), wanted)
            = IF clip.id \in wanted THEN Append(SelectNamed(a, wanted), clip)
                                    ELSE SelectNamed(a, wanted)
      BY <2>2, NamedAppend
    <3> QED
      BY <3>1, <3>2
  <2>4. SelectInside(SelectNamed(Append(clips, clip), wanted), tenths)
          = IF WithinVideo(clip, tenths) /\ clip.id \in wanted
              THEN Append(SelectInside(b, tenths), clip) ELSE SelectInside(b, tenths)
    <3>1. SelectNamed(Append(clips, clip), wanted)
            = IF clip.id \in wanted THEN Append(b, clip) ELSE b
      BY <2>1, NamedAppend
    <3>2. SelectInside(Append(b, clip), tenths)
            = IF WithinVideo(clip, tenths) THEN Append(SelectInside(b, tenths), clip)
                                           ELSE SelectInside(b, tenths)
      BY <2>2, InsideAppend
    <3> QED
      BY <3>1, <3>2
  <2> QED
    BY <2>2, <2>3, <2>4
<1>3. Seq(Clip) \subseteq G
  <2> HIDE DEF G
  <2> QED
    BY <1>1, <1>2, SequencesByInduction
<1> QED
  BY <1>3

(* Every document that is accepted can be cut, whatever its clips, the      *)
(* length of the video and the ids that are asked for.                      *)
THEOREM AcceptedCanBeCut ==
  ASSUME NEW doc, doc.clips \in Seq(RawClip), NEW tenths \in Int, NEW wanted
  PROVE  AcceptedIsCuttable(doc, tenths, wanted)
<1> SUFFICES ASSUME ValidateNative(doc).ok PROVE AcceptedIsCuttable(doc, tenths, wanted)
  BY DEF AcceptedIsCuttable
<1>1. PICK clips : clips = ValidateNative(doc).clips
  OBVIOUS
<1>2. PICK L \in Nat : L = Len(doc.clips)
  <2>1. Len(doc.clips) \in Nat
    OBVIOUS
  <2> QED
    BY <2>1
<1>3. DOMAIN doc.clips = 1 .. L /\ \A n \in 1 .. L : doc.clips[n] \in RawClip
  BY <1>2
<1>4. /\ clips = [n \in 1 .. L |-> ValidatedClip(doc.clips[n])] /\ clips \in Seq(Clip)
      /\ IdsDiffer(doc.clips) /\ \A n \in 1 .. L : RangeIsValid(doc.clips[n])
  BY <1>1, <1>3, AcceptedAre
<1>5. DOMAIN clips = 1 .. L /\ Len(clips) = L
  BY <1>4
<1>6. \A n \in 1 .. L : /\ clips[n].id = doc.clips[n].id /\ clips[n].start < clips[n].end
                        /\ FormatTimecode(10 * clips[n].start) = doc.clips[n].start
                        /\ FormatTimecode(10 * clips[n].end) = doc.clips[n].end
  BY <1>3, <1>4, ValidatedIsClip
<1>7. Cardinality({clips[n].id : n \in 1 .. L}) = L
  <2>1. PICK f : f = [n \in 1 .. L |-> clips[n].id]
    OBVIOUS
  <2>2. \A m, n \in 1 .. L : f[m] = f[n] => m = n
    BY <1>3, <1>4, <1>6, <2>1 DEF IdsDiffer, IsInjective
  <2>3. PICK T : T = {clips[n].id : n \in 1 .. L}
    OBVIOUS
  <2>4. f \in Bijection(1 .. L, T)
    BY <2>1, <2>2, <2>3 DEF Bijection, Injection, Surjection, IsInjective
  <2>5. IsFiniteSet(1 .. L) /\ Cardinality(1 .. L) = L
    BY FS_Interval
  <2>6. ExistsBijection(1 .. L, T)
    BY <2>4 DEF ExistsBijection
  <2> QED
    BY <2>3, <2>5, <2>6, FS_Bijection
<1>8. \A n \in DOMAIN SelectInside(clips, tenths) :
        SelectInside(clips, tenths)[n].end * 10 <= tenths
  BY <1>4, InsideIsInside DEF WithinVideo
<1>9. SelectNamed(SelectInside(clips, tenths), wanted)
        = SelectInside(SelectNamed(clips, wanted), tenths)
  BY <1>4, SelectionsCommute
<1> QED
  BY <1>1, <1>2, <1>5, <1>6, <1>7, <1>8, <1>9 DEF AcceptedIsCuttable

-----------------------------------------------------------------------------
(* Foreign documents.  A trim says nothing by itself.                       *)
Silent == {step \in Step : IsTrim(step) => step.note = ""}

Acc == [clips : Seq(RawClip), notes : Seq(STRING)]
Nothing == [clips |-> <<>>, notes |-> <<>>]
Taken(steps) == FoldLeft(TakeStep, Nothing, steps)
Takes(steps) == [n \in 1 .. Len(steps) |-> [acc \in Acc |-> TakeStep(acc, steps[n])]]

LEMMA StepClipIsRaw ==
  ASSUME NEW step \in Step, HasTimes(step), NEW before \in Nat, NEW notes \in Seq(STRING)
  PROVE  StepClip(step, before, notes) \in RawClip
<1>1. step.start \in Time \cup {Malformed} /\ step.end \in Time \cup {Malformed}
      /\ step.number \in Int
  BY DEF Step, HasTimes
<1> QED
  BY <1>1 DEF StepClip, RawClip

LEMMA TakeStepKeepsShape ==
  ASSUME NEW acc \in Acc, NEW step \in Step
  PROVE  TakeStep(acc, step) \in Acc
<1>1. acc.clips \in Seq(RawClip) /\ acc.notes \in Seq(STRING) /\ step.note \in STRING
      /\ acc = [clips |-> acc.clips, notes |-> acc.notes]
  BY DEF Acc, Step
<1>2. Len(acc.clips) \in Nat /\ <<>> \in Seq(STRING)
  BY <1>1
<1>3. CASE ~ IsTrim(step)
  <2>1. Append(acc.notes, step.note) \in Seq(STRING)
    BY <1>1
  <2> QED
    BY <1>1, <1>3, <2>1 DEF TakeStep, Acc
<1>4. CASE IsTrim(step) /\ HasTimes(step)
  <2>1. StepClip(step, Len(acc.clips), acc.notes) \in RawClip
    BY <1>1, <1>2, <1>4, StepClipIsRaw
  <2>2. Append(acc.clips, StepClip(step, Len(acc.clips), acc.notes)) \in Seq(RawClip)
    BY <1>1, <2>1
  <2> QED
    BY <1>2, <1>4, <2>2 DEF TakeStep, Acc
<1> QED
  BY <1>3, <1>4 DEF TakeStep

(* FoldLeft goes through the steps from the first to the last: it takes the *)
(* largest place out of those that are left, down to none.                  *)
LEMMA TakenIs ==
  ASSUME NEW steps \in Seq(Step)
  PROVE  \E c : Loops(c, Len(steps), Acc, Nothing, Takes(steps)) /\ Taken(steps) = c[Len(steps)]
<1>0. Len(steps) \in Nat
  OBVIOUS
<1>1. PICK L \in Nat : L = Len(steps)
  BY <1>0
<1>2. DOMAIN steps = 1 .. L /\ \A n \in 1 .. L : steps[n] \in Step
  BY <1>1
<1>3. \A n \in 1 .. L, acc \in Acc : Takes(steps)[n][acc] = TakeStep(acc, steps[n])
  BY <1>1 DEF Takes
<1>4. Nothing \in Acc /\ Closed(Takes(steps), 1 .. L, Acc)
  <2>1. \A n \in 1 .. L, acc \in Acc : TakeStep(acc, steps[n]) \in Acc
    BY <1>2, TakeStepKeepsShape
  <2>2. <<>> \in Seq(RawClip) /\ <<>> \in Seq(STRING)
    BY EmptySeq
  <2>3. Nothing \in Acc
    BY <2>2 DEF Nothing, Acc
  <2> QED
    BY <1>3, <2>1, <2>3 DEF Closed
<1>5. PICK d : Loops(d, L, Acc, Nothing, Takes(steps))
  BY <1>4, LoopExists
<1>6. PICK S : S = 1 .. L
  OBVIOUS
<1>7. IsFiniteSet(S) /\ S \subseteq Int
  <2>1. PICK i \in Int : i = 1
    OBVIOUS
  <2> QED
    BY <1>6, <2>1, FS_Interval
<1>8. \A s \in SUBSET S : s # {} => Max(s) \in s /\ \A y \in s : Max(s) >= y
  BY <1>7, MaxIsLargest, FS_Subset
<1> DEFINE P(f) == f = [s \in SUBSET S |->
                          IF s = {} THEN Nothing
                          ELSE TakeStep(f[s \ {Max(s)}], steps[Max(s)])]
           chosen == CHOOSE f : P(f)
<1>9. Taken(steps) = chosen[S]
  BY <1>2, <1>6 DEF Taken, FoldLeft, MapThenFoldSet
<1>10. \E f : P(f)
  <2>1. PICK first : first = [s \in SUBSET S |-> Max(s)]
    OBVIOUS
  <2>2. Chooses(first, S)
    BY <1>8, <2>1 DEF Chooses
  <2>3. PICK g : Recurses(g, S, Acc, first, Nothing, Takes(steps))
    BY <1>4, <1>6, <1>7, <2>2, RecursionExists
  <2>4. ASSUME NEW s \in SUBSET S, s # {}
        PROVE  g[s] = TakeStep(g[s \ {Max(s)}], steps[Max(s)])
    <3>1. first[s] = Max(s) /\ Max(s) \in 1 .. L /\ s \ {Max(s)} \in SUBSET S
      BY <1>6, <1>8, <2>1, <2>4
    <3>2. g[s \ {Max(s)}] \in Acc /\ g[s] = Takes(steps)[Max(s)][g[s \ {Max(s)}]]
      BY <2>3, <2>4, <3>1 DEF Recurses
    <3> QED
      BY <1>3, <3>1, <3>2
  <2>5. g \in [SUBSET S -> Acc] /\ g[{}] = Nothing
    BY <2>3 DEF Recurses
  <2>6. P(g)
    BY <2>4, <2>5
  <2> QED
    BY <2>6
<1>11. P(chosen)
  <2> HIDE DEF P
  <2> QED
    BY <1>10
<1> HIDE DEF chosen
<1> DEFINE N == {n \in Nat : n <= L => chosen[1 .. n] = d[n]}
<1>12. 0 \in N
  <2>1. 1 .. 0 = {} /\ {} \in SUBSET S
    OBVIOUS
  <2>2. chosen[{}] = Nothing
    BY <1>11, <2>1
  <2> QED
    BY <1>5, <2>1, <2>2 DEF Loops
<1>13. ASSUME NEW n \in Nat, n \in N PROVE n + 1 \in N
  <2>1. CASE n + 1 <= L
    <3>1. PICK k : k = n + 1
      OBVIOUS
    <3>2. /\ k \in 1 .. L /\ k - 1 = n /\ n \in 0 .. L /\ chosen[1 .. n] = d[n]
          /\ 1 .. k \in SUBSET S /\ k \in 1 .. k
      BY <1>6, <1>13, <2>1, <3>1
    <3>3. Max(1 .. k) \in 1 .. k /\ Max(1 .. k) >= k
      BY <1>8, <3>2
    <3>4. Max(1 .. k) = k
      BY <3>1, <3>3
    <3>5. (1 .. k) \ {k} = 1 .. n
      BY <3>1
    <3>6. chosen[1 .. k] = TakeStep(chosen[1 .. n], steps[k])
      BY <1>11, <3>2, <3>4, <3>5
    <3>7. d[k] = TakeStep(d[n], steps[k])
      BY <1>3, <1>5, <3>2 DEF Loops
    <3> QED
      BY <3>1, <3>2, <3>6, <3>7
  <2>2. CASE ~ (n + 1 <= L)
    BY <2>2
  <2> QED
    BY <2>1, <2>2
<1>14. L \in N
  <2> HIDE DEF N
  <2> QED
    BY <1>12, <1>13, NumbersByInduction
<1> QED
  BY <1>1, <1>5, <1>6, <1>9, <1>14

LEMMA TakenOfNothing == Taken(<<>>) = Nothing
<1>1. PICK e : e = <<>>
  OBVIOUS
<1>2. e \in Seq(Step) /\ Len(e) = 0
  BY <1>1, EmptySeq
<1>3. PICK f : Loops(f, 0, Acc, Nothing, Takes(e)) /\ Taken(e) = f[0]
  BY <1>2, TakenIs
<1> QED
  BY <1>1, <1>3 DEF Loops

LEMMA TakenAppend ==
  ASSUME NEW steps \in Seq(Step), NEW step \in Step
  PROVE  /\ Taken(steps) \in Acc
         /\ Taken(Append(steps, step)) = TakeStep(Taken(steps), step)
<1>0. Len(steps) \in Nat
  OBVIOUS
<1>1. PICK L \in Nat : L = Len(steps)
  BY <1>0
<1> PICK t : t = Append(steps, step)
  OBVIOUS
<1>2. /\ t \in Seq(Step) /\ Len(t) = L + 1 /\ t[L + 1] = step
      /\ \A n \in 1 .. L : t[n] = steps[n]
  BY <1>1
<1>3. PICK c : Loops(c, L, Acc, Nothing, Takes(steps)) /\ Taken(steps) = c[L]
  BY <1>1, TakenIs
<1>4. PICK d : Loops(d, L + 1, Acc, Nothing, Takes(t)) /\ Taken(t) = d[L + 1]
  BY <1>2, TakenIs
<1>5. Alike(L, Acc, Takes(steps), Takes(t))
  <2>1. \A n \in 1 .. L : n \in 1 .. L + 1
    BY <1>1
  <2>2. \A n \in 1 .. L, acc \in Acc : Takes(steps)[n][acc] = TakeStep(acc, steps[n])
    BY <1>1 DEF Takes
  <2>3. \A n \in 1 .. L, acc \in Acc : Takes(t)[n][acc] = TakeStep(acc, t[n])
    BY <1>2, <2>1 DEF Takes
  <2> QED
    BY <1>2, <2>2, <2>3 DEF Alike
<1>6. c[L] = d[L] /\ c[L] \in Acc
  <2>1. L + 1 \in Nat /\ L <= L + 1 /\ L \in 0 .. L
    OBVIOUS
  <2>2. c[L] = d[L]
    BY <1>3, <1>4, <1>5, <2>1, LoopsAgree
  <2> QED
    BY <1>3, <2>1, <2>2 DEF Loops
<1>7. d[L + 1] = TakeStep(d[L], step)
  <2>1. L + 1 \in 1 .. L + 1 /\ (L + 1) - 1 = L
    OBVIOUS
  <2>2. d[L + 1] = Takes(t)[L + 1][d[L]]
    BY <1>4, <2>1 DEF Loops
  <2> QED
    BY <1>2, <1>6, <2>1, <2>2 DEF Takes
<1> QED
  BY <1>3, <1>4, <1>6, <1>7

-----------------------------------------------------------------------------
(* No steps, and one step more. *)
LEMMA NothingIsKept ==
  CutSteps(<<>>) = <<>> /\ Notes(<<>>) = <<>>
<1>1. CutSteps(<<>>) = <<>>
  BY WhereOfNothing DEF CutSteps
<1>2. [n \in DOMAIN <<>> |-> <<>>[n].note] = <<>>
  OBVIOUS
<1> QED
  BY <1>1, <1>2, WhereOfNothing DEF Notes

LEMMA CutAppend ==
  ASSUME NEW steps \in Seq(Step), NEW step \in Step
  PROVE  /\ CutSteps(steps) \in Seq(Step)
         /\ CutSteps(Append(steps, step)) = IF IsTrim(step) /\ HasTimes(step)
                                              THEN Append(CutSteps(steps), step)
                                              ELSE CutSteps(steps)
<1>0. Len(steps) \in Nat
  OBVIOUS
<1>1. PICK t, N, M : /\ t = Append(steps, step)
                     /\ N = {n \in DOMAIN steps : IsTrim(steps[n]) /\ HasTimes(steps[n])}
                     /\ M = {n \in DOMAIN t : IsTrim(t[n]) /\ HasTimes(t[n])}
  OBVIOUS
<1>2. /\ DOMAIN steps = 1 .. Len(steps) /\ DOMAIN t = 1 .. Len(steps) + 1
      /\ t[Len(steps) + 1] = step /\ \A n \in 1 .. Len(steps) : t[n] = steps[n]
  BY <1>1
<1>3. SameUpTo(Len(steps), N, M) /\ (Len(steps) + 1 \in M <=> IsTrim(step) /\ HasTimes(step))
  <2>1. \A n \in 1 .. Len(steps) : n \in N <=> n \in M
    BY <1>0, <1>1, <1>2
  <2>2. Len(steps) + 1 \in M <=> IsTrim(step) /\ HasTimes(step)
    BY <1>0, <1>1, <1>2
  <2> QED
    BY <2>1, <2>2 DEF SameUpTo
<1>4. CutSteps(steps) = Where(steps, N) /\ CutSteps(t) = Where(t, M)
  BY <1>1 DEF CutSteps
<1>6. /\ Where(steps, N) \in Seq(Step)
      /\ Where(Append(steps, step), M) = IF Len(steps) + 1 \in M THEN Append(Where(steps, N), step)
                                                                ELSE Where(steps, N)
  BY <1>3, WhereAppend
<1> QED
  BY <1>1, <1>3, <1>4, <1>6

(* What each step has to say. *)
Said == [step \in Step |-> step.note]

LEMMA NotesAppend ==
  ASSUME NEW steps \in Seq(Step), NEW step \in Step
  PROVE  /\ Notes(steps) \in Seq(STRING)
         /\ Notes(Append(steps, step)) = IF step.note # "" THEN Append(Notes(steps), step.note)
                                                          ELSE Notes(steps)
<1>0. Len(steps) \in Nat
  OBVIOUS
<1>1. PICK L \in Nat : L = Len(steps)
  BY <1>0
<1>2. PICK t : t = Append(steps, step)
  OBVIOUS
<1>3. /\ DOMAIN steps = 1 .. L /\ DOMAIN t = 1 .. L + 1 /\ t[L + 1] = step
      /\ \A n \in 1 .. L : t[n] = steps[n] /\ steps[n] \in Step
  BY <1>1, <1>2
<1>4. Said \in [Step -> STRING] /\ \A x \in Step : Said[x] = x.note
  BY DEF Said, Step
<1>5. /\ Mapped(steps, Said) \in Seq(STRING)
      /\ Len(Mapped(steps, Said)) = L /\ Mapped(t, Said) = Append(Mapped(steps, Said), Said[step])
  <2>1. PICK X, Y : X = Step /\ Y = STRING
    OBVIOUS
  <2>2. Said \in [X -> Y] /\ steps \in Seq(X) /\ step \in X
    BY <1>4, <2>1
  <2>3. /\ Mapped(steps, Said) \in Seq(Y) /\ Len(Mapped(steps, Said)) = Len(steps)
        /\ Mapped(Append(steps, step), Said) = Append(Mapped(steps, Said), Said[step])
    BY <2>2, MappedAppend
  <2> QED
    BY <1>1, <1>2, <2>1, <2>3
<1>6. PICK N, M : /\ N = {n \in DOMAIN steps : steps[n].note # ""}
                  /\ M = {n \in DOMAIN t : t[n].note # ""}
  OBVIOUS
<1>7. SameUpTo(L, N, M) /\ (L + 1 \in M <=> step.note # "")
  <2>1. 1 .. L \subseteq 1 .. L + 1 /\ L + 1 \in 1 .. L + 1
    OBVIOUS
  <2>2. \A n \in 1 .. L : n \in N <=> n \in M
    BY <1>3, <1>6, <2>1
  <2>3. L + 1 \in M <=> step.note # ""
    BY <1>3, <1>6, <2>1
  <2> QED
    BY <2>2, <2>3 DEF SameUpTo
<1>8. Notes(steps) = Where(Mapped(steps, Said), N) /\ Notes(t) = Where(Mapped(t, Said), M)
  <2>1. Mapped(steps, Said) = [n \in DOMAIN steps |-> steps[n].note]
    BY <1>3, <1>4 DEF Mapped
  <2>2. \A n \in 1 .. L + 1 : t[n] \in Step
    BY <1>2, <1>3, ElementOfSeq, AppendProperties
  <2>3. Mapped(t, Said) = [n \in DOMAIN t |-> t[n].note]
    BY <1>3, <1>4, <2>2 DEF Mapped
  <2> QED
    BY <1>6, <2>1, <2>3 DEF Notes
<1>9. PICK X, r, x :
         X = STRING /\ r \in Seq(X) /\ x \in X /\ r = Mapped(steps, Said) /\ x = step.note /\ x = Said[step] /\ Len(r) = L
  BY <1>4, <1>5
<1>10. /\ Where(r, N) \in Seq(X)
       /\ Where(Append(r, x), M) = IF Len(r) + 1 \in M THEN Append(Where(r, N), x)
                                                       ELSE Where(r, N)
  <2>1. SameUpTo(Len(r), N, M)
    BY <1>7, <1>9
  <2>2. r \in Seq(X) /\ x \in X
    BY <1>9
  <2> QED
    BY <2>1, <2>2, WhereAppend
<1> QED
  BY <1>2, <1>5, <1>7, <1>8, <1>9, <1>10

-----------------------------------------------------------------------------
(* The notes of all clips, one after the other. *)
NotesOf(clips) == [n \in DOMAIN clips |-> clips[n].notes]

Noted == [clip \in RawClip |-> clip.notes]

LEMMA NotedIs ==
  /\ Noted \in [RawClip -> Seq(STRING)] /\ \A x \in RawClip : Noted[x] = x.notes
  /\ \A s \in Seq(RawClip) : Mapped(s, Noted) = NotesOf(s)
<1>1. Noted \in [RawClip -> Seq(STRING)] /\ \A x \in RawClip : Noted[x] = x.notes
  BY DEF Noted, RawClip
<1>2. ASSUME NEW s \in Seq(RawClip) PROVE Mapped(s, Noted) = NotesOf(s)
  <2>1. \A n \in DOMAIN s : s[n] \in RawClip
    OBVIOUS
  <2> QED
    BY <1>1, <2>1 DEF Mapped, NotesOf
<1> QED
  BY <1>1, <1>2

LEMMA NotesOfIs ==
  ASSUME NEW clips \in Seq(RawClip)
  PROVE  NotesOf(clips) \in Seq(Seq(STRING))
<1>1. PICK X, Y : X = RawClip /\ Y = Seq(STRING)
  OBVIOUS
<1>2. Noted \in [X -> Y] /\ clips \in Seq(X)
  BY <1>1, NotedIs
<1>3. Mapped(clips, Noted) \in Seq(Y)
  BY <1>2, MappedType
<1> QED
  BY <1>1, <1>3, NotedIs

LEMMA NotesOfAppend ==
  ASSUME NEW clips \in Seq(RawClip), NEW clip \in RawClip
  PROVE  NotesOf(Append(clips, clip)) = Append(NotesOf(clips), clip.notes)
<1>1. PICK X, Y : X = RawClip /\ Y = Seq(STRING)
  OBVIOUS
<1>2. Noted \in [X -> Y] /\ clips \in Seq(X) /\ clip \in X
  BY <1>1, NotedIs
<1>3. /\ Mapped(clips, Noted) \in Seq(Y)
      /\ Mapped(Append(clips, clip), Noted) = Append(Mapped(clips, Noted), Noted[clip])
  BY <1>2, MappedAppend
<1>4. Append(clips, clip) \in Seq(RawClip)
  OBVIOUS
<1> QED
  BY <1>3, <1>4, NotedIs

AllNotes(clips) == FlattenSeq(NotesOf(clips))

LEMMA AllNotesAre ==
  /\ AllNotes(<<>>) = <<>>
  /\ \A clips \in Seq(RawClip) : AllNotes(clips) \in Seq(STRING)
<1>1. NotesOf(<<>>) = <<>> /\ FlattenSeq(<<>>) = <<>>
  BY DEF NotesOf, FlattenSeq
<1>2. ASSUME NEW clips \in Seq(RawClip) PROVE AllNotes(clips) \in Seq(STRING)
  <2>1. PICK X, ss : X = STRING /\ ss = NotesOf(clips)
    OBVIOUS
  <2>2. ss \in Seq(Seq(X))
    BY <2>1, NotesOfIs
  <2>3. <<>> \in Seq(X)
    BY EmptySeq
  <2>4. FlattenSeq(ss) \in Seq(X)
    BY <2>2, <2>3, FlattenAppend
  <2> QED
    BY <2>1, <2>4 DEF AllNotes
<1> QED
  BY <1>1, <1>2 DEF AllNotes

LEMMA AllNotesAppend ==
  ASSUME NEW clips \in Seq(RawClip), NEW clip \in RawClip
  PROVE  AllNotes(Append(clips, clip)) = AllNotes(clips) \o clip.notes
<1>1. clip.notes \in Seq(STRING)
  BY DEF RawClip
<1>2. /\ NotesOf(clips) \in Seq(Seq(STRING))
      /\ NotesOf(Append(clips, clip)) = Append(NotesOf(clips), clip.notes)
  BY NotesOfIs, NotesOfAppend
<1>3. PICK ss \in Seq(Seq(STRING)) : ss = NotesOf(clips)
  BY <1>2
<1>4. FlattenSeq(Append(ss, clip.notes)) = FlattenSeq(ss) \o clip.notes
  BY <1>1, FlattenAppend
<1> QED
  BY <1>2, <1>3, <1>4 DEF AllNotes

-----------------------------------------------------------------------------
(* What the loop has done after some steps: clip k is what the kth step     *)
(* that can be cut asks for, and the notes are all still there, with the    *)
(* clips they precede or waiting for the next.                              *)
MadeFrom(clip, step, n) ==
  /\ clip.start = step.start /\ clip.end = step.end /\ clip.rank = n
  /\ clip.id = (IF step.number = 0 THEN n ELSE step.number)
  /\ clip.complete /\ clip.typed

EachMade(clips, cut) ==
  Len(clips) = Len(cut) /\ \A n \in 1 .. Len(cut) : MadeFrom(clips[n], cut[n], n)

SoFar(steps) ==
  /\ EachMade(Taken(steps).clips, CutSteps(steps))
  /\ AllNotes(Taken(steps).clips) \o Taken(steps).notes = Notes(steps)

LEMMA EachMadeAppend ==
  ASSUME NEW clips \in Seq(RawClip), NEW cut \in Seq(Step), EachMade(clips, cut),
         NEW step \in Step, HasTimes(step), NEW notes \in Seq(STRING)
  PROVE  EachMade(Append(clips, StepClip(step, Len(clips), notes)), Append(cut, step))
<1>0. Len(cut) \in Nat
  OBVIOUS
<1>1. PICK L \in Nat : L = Len(cut) /\ L = Len(clips)
  BY <1>0 DEF EachMade
<1>2. PICK clip \in RawClip : clip = StepClip(step, L, notes)
  BY StepClipIsRaw
<1>3. MadeFrom(clip, step, L + 1)
  BY <1>2 DEF MadeFrom, StepClip
<1>4. PICK t, u : t = Append(clips, clip) /\ u = Append(cut, step)
  OBVIOUS
<1>5. Len(t) = L + 1 /\ t[L + 1] = clip /\ \A n \in 1 .. L : t[n] = clips[n]
  BY <1>1, <1>4, AppendProperties
<1>6. Len(u) = L + 1 /\ u[L + 1] = step /\ \A n \in 1 .. L : u[n] = cut[n]
  <2>1. PICK X : X = Step
    OBVIOUS
  <2>2. cut \in Seq(X) /\ step \in X
    BY <2>1
  <2>3. /\ Len(Append(cut, step)) = Len(cut) + 1 /\ Append(cut, step)[Len(cut) + 1] = step
        /\ \A n \in 1 .. Len(cut) : Append(cut, step)[n] = cut[n]
    BY <2>2, AppendProperties
  <2> QED
    BY <1>1, <1>4, <2>3
<1>7. \A n \in 1 .. L : MadeFrom(clips[n], cut[n], n)
  BY <1>1 DEF EachMade
<1>8. \A n \in 1 .. L + 1 : n \in 1 .. L \/ n = L + 1
  OBVIOUS
<1>9. \A n \in 1 .. L + 1 : MadeFrom(t[n], u[n], n)
  BY <1>3, <1>5, <1>6, <1>7, <1>8
<1> QED
  BY <1>1, <1>2, <1>4, <1>5, <1>6, <1>9 DEF EachMade

LEMMA LoopIsFaithful ==
  ASSUME NEW steps \in Seq(Silent)
  PROVE  SoFar(steps)
<1>0. Silent \subseteq Step
  BY DEF Silent
<1> DEFINE G == {s \in Seq(Step) : SoFar(s)}
<1>1. <<>> \in G
  <2>1. Taken(<<>>) = Nothing /\ CutSteps(<<>>) = <<>> /\ Notes(<<>>) = <<>>
    BY TakenOfNothing, NothingIsKept
  <2>2. AllNotes(<<>>) = <<>>
    BY AllNotesAre
  <2>3. <<>> \o <<>> = <<>> /\ <<>> \in Seq(Step) /\ Len(<<>>) = 0
    BY EmptySeq
  <2>4. EachMade(<<>>, <<>>)
    BY <2>3 DEF EachMade
  <2>5. Nothing.clips = <<>> /\ Nothing.notes = <<>>
    BY DEF Nothing
  <2> QED
    BY <2>1, <2>2, <2>3, <2>4, <2>5 DEF SoFar
<1>2. ASSUME NEW s \in Seq(Step), NEW x \in Silent, SoFar(s) PROVE SoFar(Append(s, x))
  <2>1. x \in Step /\ x.note \in STRING /\ (IsTrim(x) => x.note = "")
    BY DEF Silent, Step
  <2>2. PICK acc \in Acc : acc = Taken(s)
    BY <2>1, TakenAppend
  <2>3. PICK clips \in Seq(RawClip), notes \in Seq(STRING) :
          clips = acc.clips /\ notes = acc.notes
    BY DEF Acc
  <2>4. PICK cut \in Seq(Step), told \in Seq(STRING) : cut = CutSteps(s) /\ told = Notes(s)
    BY <2>1, CutAppend, NotesAppend
  <2>5. EachMade(clips, cut) /\ AllNotes(clips) \o notes = told
    BY <1>2, <2>2, <2>3, <2>4 DEF SoFar
  <2>6. Taken(Append(s, x)) = TakeStep(acc, x)
    BY <2>1, <2>2, TakenAppend
  <2>7. /\ CutSteps(Append(s, x)) = IF IsTrim(x) /\ HasTimes(x) THEN Append(cut, x) ELSE cut
        /\ Notes(Append(s, x)) = IF x.note # "" THEN Append(told, x.note) ELSE told
    BY <2>1, <2>4, CutAppend, NotesAppend
  <2>8. CASE IsTrim(x) /\ HasTimes(x)
    <3>0. Len(clips) \in Nat
      OBVIOUS
    <3>1. PICK clip \in RawClip : clip = StepClip(x, Len(clips), notes)
      BY <2>1, <2>8, <3>0, StepClipIsRaw
    <3>2. TakeStep(acc, x).clips = Append(clips, clip) /\ TakeStep(acc, x).notes = <<>>
      BY <2>3, <2>8, <3>1 DEF TakeStep
    <3>3. EachMade(Append(clips, clip), Append(cut, x))
      BY <2>1, <2>5, <2>8, <3>1, EachMadeAppend
    <3>4. clip.notes = notes
      BY <3>1 DEF StepClip
    <3>5. AllNotes(Append(clips, clip)) = told /\ told \o <<>> = told
      BY <2>5, <3>4, AllNotesAppend, ConcatEmptySeq
    <3>6. /\ Taken(Append(s, x)).clips = Append(clips, clip) /\ Taken(Append(s, x)).notes = <<>>
          /\ CutSteps(Append(s, x)) = Append(cut, x) /\ Notes(Append(s, x)) = told
      BY <2>1, <2>6, <2>7, <2>8, <3>2
    <3> QED
      BY <3>3, <3>5, <3>6 DEF SoFar
  <2>9. CASE IsTrim(x) /\ ~ HasTimes(x)
    <3>1. TakeStep(acc, x) = acc
      BY <2>9 DEF TakeStep
    <3> QED
      BY <2>1, <2>2, <2>3, <2>5, <2>6, <2>7, <2>9, <3>1 DEF SoFar
  <2>10. CASE ~ IsTrim(x)
    <3>1. CASE x.note = ""
      <4>1. TakeStep(acc, x) = acc
        BY <2>10, <3>1 DEF TakeStep
      <4> QED
        BY <2>2, <2>3, <2>5, <2>6, <2>7, <2>10, <3>1, <4>1 DEF SoFar
    <3>2. CASE x.note # ""
      <4>1. TakeStep(acc, x).clips = clips /\ TakeStep(acc, x).notes = Append(notes, x.note)
        BY <2>3, <2>10, <3>2 DEF TakeStep, Acc
      <4>2. PICK all \in Seq(STRING) : all = AllNotes(clips)
        BY AllNotesAre
      <4>3. all \o Append(notes, x.note) = Append(all \o notes, x.note)
        <5>1. PICK X, y : X = STRING /\ y = x.note
          OBVIOUS
        <5>2. all \in Seq(X) /\ notes \in Seq(X) /\ y \in X
          BY <2>1, <5>1
        <5>3. all \o Append(notes, y) = Append(all \o notes, y)
          BY <5>2, ConcatAppend
        <5> QED
          BY <5>1, <5>3
      <4> QED
        BY <2>5, <2>6, <2>7, <2>10, <3>2, <4>1, <4>2, <4>3 DEF SoFar
    <3> QED
      BY <3>1, <3>2
  <2> QED
    BY <2>8, <2>9, <2>10
<1>3. ASSUME NEW s \in Seq(Silent), NEW x \in Silent, s \in G PROVE Append(s, x) \in G
  <2>1. s \in Seq(Step) /\ x \in Step
    BY <1>0, <1>3
  <2>2. Append(s, x) \in Seq(Step)
    BY <2>1
  <2> QED
    BY <1>2, <1>3, <2>2
<1>4. Seq(Silent) \subseteq G
  <2> HIDE DEF G
  <2> QED
    BY <1>1, <1>3, SequencesByInduction
<1> QED
  BY <1>4

(* What is left over at the end goes to the last clip. *)
SameBut(clip, new) ==
  /\ new.id = clip.id /\ new.rank = clip.rank /\ new.start = clip.start /\ new.end = clip.end
  /\ new.complete = clip.complete /\ new.typed = clip.typed

LEMMA RestIsAttached ==
  ASSUME NEW acc \in Acc
  PROVE  /\ AttachRest(acc) \in Seq(RawClip) /\ Len(AttachRest(acc)) = Len(acc.clips)
         /\ \A n \in 1 .. Len(acc.clips) : SameBut(acc.clips[n], AttachRest(acc)[n])
         /\ acc.clips # <<>> => AllNotes(AttachRest(acc)) = AllNotes(acc.clips) \o acc.notes
<1>1. PICK clips \in Seq(RawClip), notes \in Seq(STRING) : clips = acc.clips /\ notes = acc.notes
  BY DEF Acc
<1>2. CASE clips = <<>>
  <2>1. AttachRest(acc) = clips /\ Len(clips) = 0
    BY <1>1, <1>2, EmptySeq DEF AttachRest
  <2> QED
    BY <1>1, <1>2, <2>1
<1>3. CASE clips # <<>>
  <2>1. PICK front \in Seq(RawClip), clip \in RawClip : clips = Append(front, clip)
    BY <1>3, SequenceEmptyOrAppend
  <2>2. Len(front) \in Nat
    OBVIOUS
  <2>3. PICK k \in Nat : k = Len(front) + 1
    BY <2>2
  <2>4. /\ Len(clips) = k /\ k \in 1 .. k /\ clips[k] = clip /\ DOMAIN clips = 1 .. k
        /\ \A n \in 1 .. k : n = k \/ (n \in 1 .. Len(front) /\ clips[n] = front[n])
    BY <2>1, <2>2, <2>3, AppendProperties
  <2>5. PICK new : new = [clip EXCEPT !.notes = @ \o notes]
    OBVIOUS
  <2>6. clip.notes \in Seq(STRING) /\ clip.notes \o notes \in Seq(STRING)
    <3>1. clip.notes \in Seq(STRING)
      BY DEF RawClip
    <3> QED
      BY <3>1, ConcatProperties
  <2>7. new \in RawClip /\ new.notes = clip.notes \o notes /\ SameBut(clip, new)
    BY <2>5, <2>6 DEF RawClip, SameBut
  <2>8. PICK out : out = AttachRest(acc)
    OBVIOUS
  <2>9. out = [clips EXCEPT ![k] = new]
    BY <1>1, <1>3, <2>4, <2>5, <2>8 DEF AttachRest
  <2>10. out = [n \in 1 .. k |-> IF n = k THEN new ELSE clips[n]]
    BY <2>4, <2>9
  <2>11. out = Append(front, new)
    <3>1. PICK w : w = Append(front, new)
      OBVIOUS
    <3>2. PICK X : X = RawClip
      OBVIOUS
    <3>3. front \in Seq(X) /\ new \in X
      BY <2>7, <3>2
    <3>4. /\ w \in Seq(X) /\ Len(w) = k /\ w[k] = new
          /\ \A n \in 1 .. Len(front) : w[n] = front[n]
      BY <2>3, <3>1, <3>3, AppendProperties
    <3>5. w = [n \in 1 .. k |-> w[n]]
      BY <3>4
    <3>6. \A n \in 1 .. k : w[n] = IF n = k THEN new ELSE clips[n]
      BY <2>4, <3>4
    <3> QED
      BY <2>10, <3>1, <3>5, <3>6
  <2>12. out \in Seq(RawClip) /\ Len(out) = k
    BY <2>3, <2>7, <2>11, AppendProperties
  <2>13. \A n \in 1 .. k : SameBut(clips[n], out[n])
    <3>1. \A n \in 1 .. k : SameBut(clips[n], clips[n])
      BY DEF SameBut
    <3> QED
      BY <2>4, <2>7, <2>10, <3>1
  <2>14. AllNotes(out) = AllNotes(clips) \o notes
    <3>1. AllNotes(out) = AllNotes(front) \o new.notes
      BY <2>7, <2>11, AllNotesAppend
    <3>2. AllNotes(clips) = AllNotes(front) \o clip.notes
      BY <2>1, AllNotesAppend
    <3>3. PICK X, all, some :
            X = STRING /\ all = AllNotes(front) /\ some = clip.notes
      OBVIOUS
    <3>4. all \in Seq(X) /\ some \in Seq(X) /\ notes \in Seq(X)
      BY <2>6, <3>3, AllNotesAre
    <3>5. (all \o some) \o notes = all \o (some \o notes)
      BY <3>4, ConcatAssociative
    <3> QED
      BY <2>7, <3>1, <3>2, <3>3, <3>5
  <2> QED
    BY <1>1, <2>4, <2>8, <2>12, <2>13, <2>14
<1> QED
  BY <1>2, <1>3

(* The translation of any sequence of steps is faithful, of whatever        *)
(* length and in whatever order trims and other steps come.                 *)
THEOREM TranslationFaithful ==
  ASSUME NEW steps \in Seq(Silent)
  PROVE  TranslationIsFaithful(steps)
<1>0. steps \in Seq(Step)
  <2>1. Silent \subseteq Step
    BY DEF Silent
  <2> QED
    BY <2>1
<1>1. PICK acc \in Acc : acc = Taken(steps)
  <2>1. PICK L \in Nat : L = Len(steps)
    OBVIOUS
  <2>2. PICK c : Loops(c, L, Acc, Nothing, Takes(steps)) /\ Taken(steps) = c[L]
    BY <1>0, <2>1, TakenIs
  <2>3. L \in 0 .. L
    OBVIOUS
  <2> QED
    BY <2>2, <2>3 DEF Loops
<1>2. PICK doc, clips, cut :
        doc = TranslateSteps(steps) /\ clips = doc.clips /\ cut = CutSteps(steps)
  OBVIOUS
<1>3. doc.version = "1.0" /\ doc.complete = TRUE /\ clips = AttachRest(acc)
  BY <1>1, <1>2 DEF TranslateSteps, Taken, Nothing
<1>4. EachMade(acc.clips, cut) /\ AllNotes(acc.clips) \o acc.notes = Notes(steps)
  BY <1>1, <1>2, LoopIsFaithful DEF SoFar
<1>5. /\ clips \in Seq(RawClip) /\ Len(clips) = Len(acc.clips)
      /\ \A n \in 1 .. Len(acc.clips) : SameBut(acc.clips[n], clips[n])
      /\ acc.clips # <<>> => AllNotes(clips) = AllNotes(acc.clips) \o acc.notes
  BY <1>3, RestIsAttached
<1>6. cut \in Seq(Step) /\ acc.clips \in Seq(RawClip)
  <2>1. PICK N : N = {n \in DOMAIN steps : IsTrim(steps[n]) /\ HasTimes(steps[n])}
    OBVIOUS
  <2>2. PICK c : Loops(c, Len(steps), Seq(Step), <<>>, Keeps(steps, N, Step))
                 /\ Where(steps, N) = c[Len(steps)]
    BY <1>0, WhereIs
  <2>3. Len(steps) \in 0 .. Len(steps)
    BY <1>0
  <2> QED
    BY <1>2, <2>1, <2>2, <2>3 DEF Loops, CutSteps, Acc
<1>7. PICK L \in Nat : L = Len(cut) /\ L = Len(clips) /\ L = Len(acc.clips)
  <2>1. Len(cut) \in Nat
    BY <1>6
  <2> QED
    BY <1>4, <1>5, <2>1 DEF EachMade
<1>8. \A n \in 1 .. L : MadeFrom(clips[n], cut[n], n)
  <2>1. \A n \in 1 .. L : MadeFrom(acc.clips[n], cut[n], n)
    BY <1>4, <1>7 DEF EachMade
  <2> QED
    BY <1>5, <1>7, <2>1 DEF SameBut, MadeFrom
<1>9. DOMAIN cut = 1 .. L /\ DOMAIN clips = 1 .. L
  <2>1. DOMAIN cut = 1 .. Len(cut)
    BY <1>6, LenProperties
  <2>2. DOMAIN clips = 1 .. Len(clips)
    BY <1>5, LenProperties
  <2> QED
    BY <1>7, <2>1, <2>2
<1>10. cut # <<>> => AllNotes(clips) = Notes(steps) /\ clips # <<>>
  <2>1. cut # <<>> => acc.clips # <<>> /\ clips # <<>>
    BY <1>5, <1>6, <1>7, EmptySeq
  <2> QED
    BY <1>4, <1>5, <2>1
<1>11. ASSUME cut # <<>>, \A n \in DOMAIN cut : cut[n].number = 0 /\ RangeIsValid(cut[n])
       PROVE  ValidateForeign(steps).ok
  <2>1. ~ ShapeError(doc)
    BY <1>2, <1>3, <1>8, <1>9, <1>10, <1>11 DEF ShapeError, MadeFrom
  <2>2. \A n \in 1 .. L : clips[n].typed /\ clips[n].id = n /\ RangeIsValid(clips[n])
    BY <1>8, <1>9, <1>11 DEF MadeFrom, RangeIsValid
  <2>3. IdsDiffer(clips)
    BY <1>9, <2>2 DEF IdsDiffer, IsInjective
  <2>4. PICK c : c = [n \in DOMAIN doc.clips |-> ValidatedClip(doc.clips[n])]
    OBVIOUS
  <2>5. ValidateV1(doc) = Accepted(c)
    BY <1>2, <1>9, <2>1, <2>2, <2>3, <2>4 DEF ValidateV1
  <2>6. ValidateNative(doc) = Accepted(c)
    BY <1>3, <2>1, <2>5 DEF ValidateNative
  <2>7. Accepted(c).ok
    BY DEF Accepted
  <2> QED
    BY <1>2, <2>6, <2>7 DEF ValidateForeign
<1>12. \A n \in DOMAIN cut :
         clips[n].start = cut[n].start /\ clips[n].end = cut[n].end /\ clips[n].rank = n
  BY <1>8, <1>9 DEF MadeFrom
<1>13. AllNotes(clips) = FlattenSeq([n \in DOMAIN clips |-> clips[n].notes])
  BY DEF AllNotes, NotesOf
<1> QED
  BY <1>2, <1>7, <1>10, <1>11, <1>12, <1>13 DEF TranslationIsFaithful

-----------------------------------------------------------------------------
(* The filter graph, put together filter by filter: a filter may be added   *)
(* when it reads what nobody reads yet and offers what nobody offers.       *)
Kinds == {"delogo", "crop", "split", "blur", "scale", "join", "opacity", "overlay", "fps"}
Labels == {"0:v", "1:v", "delogoed", "bgsrc", "fgsrc", "bg", "fg", "cropped",
           "wm", "wmapplied", "fpsed"}
Filters == [kind : Kinds, ins : SUBSET Labels, outs : SUBSET Labels]

OfferedBy(graph, inputs, n) == inputs \cup UNION {graph[m].outs : m \in 1 .. n - 1}

ReadOnce(graph, label) ==
  \E n \in 1 .. Len(graph) : \A m \in 1 .. Len(graph) : label \in graph[m].ins <=> m = n

Wired(graph, inputs, labels, unread) ==
  /\ graph \in Seq(Filters)
  /\ labels = OfferedBy(graph, inputs, Len(graph) + 1)
  /\ \A n \in 1 .. Len(graph) : /\ graph[n].ins \subseteq OfferedBy(graph, inputs, n)
                                /\ graph[n].outs \cap OfferedBy(graph, inputs, n) = {}
  /\ unread \subseteq labels
  /\ \A label \in unread : \A n \in 1 .. Len(graph) : label \notin graph[n].ins
  /\ \A label \in labels \ unread : ReadOnce(graph, label)

LEMMA WiredToBegin ==
  ASSUME NEW inputs
  PROVE  Wired(<<>>, inputs, inputs, inputs)
<1>1. PICK e : e = <<>>
  OBVIOUS
<1>2. e \in Seq(Filters) /\ Len(e) = 0 /\ (0 + 1) - 1 = 0
  BY <1>1, EmptySeq
<1>3. OfferedBy(e, inputs, 0 + 1) = inputs
  BY <1>2 DEF OfferedBy
<1>4. Wired(e, inputs, inputs, inputs)
  BY <1>2, <1>3 DEF Wired
<1> QED
  BY <1>1, <1>4

LEMMA WiredAppend ==
  ASSUME NEW graph, NEW inputs, NEW labels, NEW unread, Wired(graph, inputs, labels, unread),
         NEW f \in Filters, f.ins \subseteq unread, f.outs \cap labels = {}
  PROVE  Wired(Append(graph, f), inputs, labels \cup f.outs, (unread \ f.ins) \cup f.outs)
<1>1. /\ graph \in Seq(Filters) /\ labels = OfferedBy(graph, inputs, Len(graph) + 1)
      /\ unread \subseteq labels
  BY DEF Wired
<1>2. Len(graph) \in Nat
  BY <1>1
<1>3. PICK L \in Nat : L = Len(graph)
  BY <1>2
<1>4. /\ \A n \in 1 .. L : /\ graph[n].ins \subseteq OfferedBy(graph, inputs, n)
                           /\ graph[n].outs \cap OfferedBy(graph, inputs, n) = {}
      /\ \A label \in unread : \A n \in 1 .. L : label \notin graph[n].ins
      /\ \A label \in labels \ unread :
           \E n \in 1 .. L : \A m \in 1 .. L : label \in graph[m].ins <=> m = n
  BY <1>3 DEF Wired, ReadOnce
<1>5. PICK t : t = Append(graph, f)
  OBVIOUS
<1>6. /\ t \in Seq(Filters) /\ Len(t) = L + 1 /\ t[L + 1] = f
      /\ \A n \in 1 .. L : t[n] = graph[n]
  BY <1>1, <1>3, <1>5, AppendProperties
<1>7. ASSUME NEW n \in 1 .. L + 1
      PROVE  OfferedBy(t, inputs, n) = OfferedBy(graph, inputs, n)
  <2>1. \A m \in 1 .. n - 1 : m \in 1 .. L /\ t[m].outs = graph[m].outs
    BY <1>6
  <2>2. {t[m].outs : m \in 1 .. n - 1} = {graph[m].outs : m \in 1 .. n - 1}
    BY <2>1
  <2> QED
    BY <2>2 DEF OfferedBy
<1>8. OfferedBy(t, inputs, L + 2) = labels \cup f.outs
  <2>1. /\ labels = inputs \cup UNION {graph[m].outs : m \in 1 .. L}
        /\ OfferedBy(t, inputs, L + 2) = inputs \cup UNION {t[m].outs : m \in 1 .. L + 1}
    <3>1. (L + 1) - 1 = L /\ (L + 2) - 1 = L + 1
      OBVIOUS
    <3> QED
      BY <1>1, <1>3, <3>1 DEF OfferedBy
  <2>2. \A m \in 1 .. L + 1 : m \in 1 .. L \/ m = L + 1
    OBVIOUS
  <2>3. {t[m].outs : m \in 1 .. L + 1} = {graph[m].outs : m \in 1 .. L} \cup {f.outs}
    <3>1. 1 .. L \subseteq 1 .. L + 1 /\ L + 1 \in 1 .. L + 1
      OBVIOUS
    <3> QED
      BY <1>6, <2>2, <3>1
  <2> QED
    BY <2>1, <2>3
<1>9. \A n \in 1 .. L + 1 : n \in 1 .. L \/ n = L + 1
  OBVIOUS
<1>10. \A n \in 1 .. L + 1 : /\ t[n].ins \subseteq OfferedBy(t, inputs, n)
                             /\ t[n].outs \cap OfferedBy(t, inputs, n) = {}
  <2>1. L + 1 \in 1 .. L + 1 /\ OfferedBy(t, inputs, L + 1) = labels
    BY <1>1, <1>3, <1>7
  <2> QED
    BY <1>1, <1>4, <1>6, <1>7, <1>9, <2>1
<1>11. \A n \in 1 .. L : graph[n].ins \subseteq labels
  <2>1. ASSUME NEW n \in 1 .. L PROVE OfferedBy(graph, inputs, n) \subseteq labels
    <3>1. \A m \in 1 .. n - 1 : m \in 1 .. L /\ m \in 1 .. (L + 1) - 1
      OBVIOUS
    <3>2. {graph[m].outs : m \in 1 .. n - 1} \subseteq {graph[m].outs : m \in 1 .. (L + 1) - 1}
      BY <3>1
    <3> QED
      BY <1>1, <1>3, <3>2 DEF OfferedBy
  <2> QED
    BY <1>4, <2>1
<1>12. PICK now, rest : now = labels \cup f.outs /\ rest = (unread \ f.ins) \cup f.outs
  OBVIOUS
<1>13. rest \subseteq now
  BY <1>1, <1>12
<1>14. \A label \in rest : \A n \in 1 .. L + 1 : label \notin t[n].ins
  <2>1. ASSUME NEW label \in rest, NEW n \in 1 .. L PROVE label \notin graph[n].ins
    BY <1>4, <1>11, <1>12, <2>1
  <2>2. ASSUME NEW label \in rest PROVE label \notin f.ins
    BY <1>1, <1>12, <2>2
  <2> QED
    BY <1>6, <1>9, <2>1, <2>2
<1>15. ASSUME NEW label \in now \ rest PROVE ReadOnce(t, label)
  <2>1. label \in labels /\ label \notin f.outs /\ (label \in unread => label \in f.ins)
    BY <1>12, <1>15
  <2>2. CASE label \in f.ins
    <3>1. \A m \in 1 .. L : label \notin t[m].ins
      BY <1>4, <1>6, <2>2
    <3>2. L + 1 \in 1 .. L + 1 /\ label \in t[L + 1].ins /\ ~ (L + 1 \in 1 .. L)
      BY <1>6, <2>2
    <3>3. PICK k : k = L + 1
      OBVIOUS
    <3>4. Len(t) = k /\ k \in 1 .. k /\ \A m \in 1 .. k : label \in t[m].ins <=> m = k
      BY <1>6, <1>9, <3>1, <3>2, <3>3
    <3> QED
      BY <3>4 DEF ReadOnce
  <2>3. CASE label \notin f.ins
    <3>1. PICK n \in 1 .. L : \A m \in 1 .. L : label \in graph[m].ins <=> m = n
      BY <1>4, <2>1, <2>3
    <3>2. n \in 1 .. L + 1 /\ n # L + 1
      OBVIOUS
    <3>3. \A m \in 1 .. L + 1 : label \in t[m].ins <=> m = n
      BY <1>6, <1>9, <2>3, <3>1, <3>2
    <3>4. PICK k : k = L + 1
      OBVIOUS
    <3>5. Len(t) = k /\ n \in 1 .. k /\ \A m \in 1 .. k : label \in t[m].ins <=> m = n
      BY <1>6, <3>2, <3>3, <3>4
    <3> QED
      BY <3>5 DEF ReadOnce
  <2> QED
    BY <2>2, <2>3
<1>16. Wired(t, inputs, now, rest)
  <2>1. (L + 1) + 1 = L + 2
    OBVIOUS
  <2> QED
    BY <1>6, <1>8, <1>10, <1>12, <1>13, <1>14, <1>15, <2>1 DEF Wired
<1> QED
  BY <1>5, <1>12, <1>16

(* Filter by filter, keeping count of what is read by nobody yet, of what   *)
(* is offered by nobody yet, and of the kinds of filters.                   *)
Open(graph, inputs, kinds, unread, fresh) ==
  /\ \E labels : Wired(graph, inputs, labels, unread) /\ labels \cap fresh = {}
  /\ \A n \in 1 .. Len(graph) : graph[n].kind \in kinds

LEMMA OpenStep ==
  ASSUME NEW graph, NEW inputs, NEW kinds \in SUBSET Kinds, NEW unread, NEW fresh,
         Open(graph, inputs, kinds, unread, fresh),
         NEW kind \in kinds, NEW ins \in SUBSET Labels, NEW outs \in SUBSET Labels,
         ins \subseteq unread, outs \subseteq fresh,
         NEW next, next = (unread \ ins) \cup outs, NEW left, left \subseteq fresh \ outs
  PROVE  Open(Append(graph, Filter(kind, ins, outs)), inputs, kinds, next, left)
<1>1. PICK f : f = Filter(kind, ins, outs)
  OBVIOUS
<1>2. f \in Filters /\ f.ins = ins /\ f.outs = outs /\ f.kind = kind
  BY <1>1 DEF Filters, Filter
<1>3. PICK labels : Wired(graph, inputs, labels, unread) /\ labels \cap fresh = {}
  BY DEF Open
<1>4. Wired(Append(graph, f), inputs, labels \cup f.outs, (unread \ f.ins) \cup f.outs)
  BY <1>2, <1>3, WiredAppend
<1>5. (labels \cup f.outs) \cap left = {}
  BY <1>2, <1>3
<1>6. \A n \in 1 .. Len(Append(graph, f)) : Append(graph, f)[n].kind \in kinds
  <2>1. graph \in Seq(Filters) /\ Len(graph) \in Nat
    BY <1>3, LenProperties DEF Wired
  <2>2. PICK L \in Nat : L = Len(graph)
    BY <2>1
  <2>3. PICK t : t = Append(graph, f)
    OBVIOUS
  <2>4. Len(t) = L + 1 /\ t[L + 1] = f /\ \A n \in 1 .. L : t[n] = graph[n]
    BY <1>2, <2>1, <2>2, <2>3, AppendProperties
  <2>5. \A n \in 1 .. L + 1 : n \in 1 .. L \/ n = L + 1
    OBVIOUS
  <2>6. \A n \in 1 .. L : graph[n].kind \in kinds
    BY <2>2 DEF Open
  <2>7. \A n \in 1 .. L + 1 : t[n].kind \in kinds
    BY <1>2, <2>4, <2>5, <2>6
  <2> QED
    BY <2>3, <2>4, <2>7
<1> QED
  BY <1>1, <1>2, <1>4, <1>5, <1>6 DEF Open

LEMMA Glued ==
  ASSUME NEW X, NEW s \in Seq(X), NEW a \in X, NEW b \in X, NEW c \in X, NEW d \in X
  PROVE  /\ s \o <<>> = s /\ s \o <<a>> = Append(s, a)
         /\ s \o <<a, b>> = Append(Append(s, a), b)
         /\ s \o <<a, b, c, d>> = Append(Append(Append(Append(s, a), b), c), d)
<1>1. s \o <<>> = s /\ s \o <<a>> = Append(s, a)
  BY ConcatEmptySeq, AppendIsConcat
<1>2. /\ <<a>> \in Seq(X) /\ <<a, b>> \in Seq(X) /\ <<a, b, c>> \in Seq(X)
      /\ <<a, b>> = Append(<<a>>, b) /\ <<a, b, c>> = Append(<<a, b>>, c)
      /\ <<a, b, c, d>> = Append(<<a, b, c>>, d)
  OBVIOUS
<1>3. s \o <<a, b>> = Append(Append(s, a), b)
  BY <1>1, <1>2, ConcatAppend
<1>4. s \o <<a, b, c>> = Append(Append(Append(s, a), b), c)
  BY <1>2, <1>3, ConcatAppend
<1> QED
  BY <1>1, <1>2, <1>3, <1>4, ConcatAppend

(* What is wired and leaves one label unread can be run.                    *)
LEMMA WiredCanBeRun ==
  ASSUME NEW config, NEW found, NEW kinds, NEW fresh,
         Open(FilterGraph(config, found), Inputs(config, found), kinds,
              {FinalLabel(config, found)}, fresh),
         config.authorized \/ {"delogo", "overlay"} \cap kinds = {}
  PROVE  GraphIsWired(config, found)
<1>1. PICK graph, inputs, last : /\ graph = FilterGraph(config, found)
                                 /\ inputs = Inputs(config, found)
                                 /\ last = FinalLabel(config, found)
  OBVIOUS
<1>2. PICK labels : Wired(graph, inputs, labels, {last})
  BY <1>1 DEF Open
<1>3. DOMAIN graph = 1 .. Len(graph) /\ Len(graph) \in Nat
  BY <1>2, LenProperties DEF Wired
<1>4. \A n \in 1 .. Len(graph) :
        graph[n].ins \subseteq OfferedBy(graph, inputs, n)
        /\ graph[n].outs \cap OfferedBy(graph, inputs, n) = {}
  BY <1>2 DEF Wired
<1>5. OfferedBy(graph, inputs, Len(graph) + 1) = labels /\ last \in labels
  BY <1>2 DEF Wired
<1> DEFINE Readers(label) == {n \in DOMAIN graph : label \in graph[n].ins}
<1>6. ASSUME NEW label \in labels
      PROVE  Cardinality(Readers(label)) = IF label = last THEN 0 ELSE 1
  <2>1. CASE label = last
    <3>1. Readers(label) = {}
      BY <1>2, <1>3, <2>1 DEF Wired
    <3> QED
      BY <2>1, <3>1, FS_EmptySet
  <2>2. CASE label # last
    <3>1. PICK n \in 1 .. Len(graph) :
            \A m \in 1 .. Len(graph) : label \in graph[m].ins <=> m = n
      BY <1>2, <2>2 DEF Wired, ReadOnce
    <3>2. Readers(label) = {n}
      BY <1>3, <3>1
    <3> QED
      BY <2>2, <3>2, FS_Singleton
  <2> QED
    BY <2>1, <2>2
<1>7. (\E n \in DOMAIN graph : graph[n].kind \in {"delogo", "overlay"}) => config.authorized
  BY <1>1, <1>3 DEF Open
<1> QED
  BY <1>1, <1>3, <1>4, <1>5, <1>6, <1>7 DEF GraphIsWired, OfferedBy

(* The parts of the graph. *)
RemovalPart(config) ==
  IF config.mode = "authorized_remove" THEN <<Filter("delogo", {"0:v"}, {"delogoed"})>> ELSE <<>>
OverlayPart(config, found) ==
  IF WithOverlay(config, found)
    THEN << Filter("opacity", {"1:v"}, {"wm"}),
            Filter("overlay", {"cropped", "wm"}, {"wmapplied"}) >>
    ELSE <<>>
FpsPart(config, found) ==
  IF config.fps THEN <<Filter("fps", {AfterOverlay(config, found)}, {"fpsed"})>> ELSE <<>>

(* Only who is authorized gets one of the filters that change what is owned. *)
Allowed(config) == IF config.mode = "none" THEN Kinds \ {"delogo", "overlay"} ELSE Kinds

Extra(config, found) == IF WithOverlay(config, found) THEN {"1:v"} ELSE {}

LEMMA RemovalIsOpen ==
  ASSUME NEW config, NEW found
  PROVE  Open(RemovalPart(config), Inputs(config, found), Allowed(config),
              Extra(config, found) \cup {AfterRemoval(config)},
              Labels \ {"0:v", "1:v", "delogoed"})
<1>1. PICK inputs, extra, kinds : /\ inputs = Inputs(config, found)
                                  /\ extra = Extra(config, found) /\ kinds = Allowed(config)
  OBVIOUS
<1>2. inputs = {"0:v"} \cup extra /\ extra \in SUBSET {"1:v"}
  BY <1>1 DEF Inputs, Extra, OverlayPresent, WithOverlay
<1>3. Open(<<>>, inputs, kinds, inputs, Labels \ inputs)
  <2>1. PICK e : e = <<>>
    OBVIOUS
  <2>2. Len(e) = 0 /\ Wired(e, inputs, inputs, inputs)
    BY <2>1, WiredToBegin
  <2>3. Open(e, inputs, kinds, inputs, Labels \ inputs)
    BY <2>2 DEF Open
  <2> QED
    BY <2>1, <2>3
<1>4. CASE config.mode = "authorized_remove"
  <2>1. PICK e : e = <<>>
    OBVIOUS
  <2>2. PICK ins, outs, next, left, fresh :
          /\ ins = {"0:v"} /\ outs = {"delogoed"} /\ next = extra \cup {"delogoed"}
          /\ left = Labels \ {"0:v", "1:v", "delogoed"} /\ fresh = Labels \ inputs
    OBVIOUS
  <2>3. /\ ins \in SUBSET Labels /\ outs \in SUBSET Labels /\ ins \subseteq inputs
        /\ outs \subseteq fresh /\ left \subseteq fresh \ outs
    BY <1>2, <2>2 DEF Labels
  <2>4. next = (inputs \ ins) \cup outs
    BY <1>2, <2>2
  <2>5. kinds \in SUBSET Kinds /\ "delogo" \in kinds
    BY <1>1, <1>4 DEF Allowed, Kinds
  <2>6. Open(Append(e, Filter("delogo", ins, outs)), inputs, kinds, next, left)
    BY <1>3, <2>1, <2>2, <2>3, <2>4, <2>5, OpenStep
  <2>7. RemovalPart(config) = Append(e, Filter("delogo", ins, outs))
    BY <1>4, <2>1, <2>2 DEF RemovalPart
  <2>8. AfterRemoval(config) = "delogoed"
    BY <1>4 DEF AfterRemoval
  <2> QED
    BY <1>1, <2>2, <2>6, <2>7, <2>8
<1>5. CASE config.mode # "authorized_remove"
  <2>1. AfterRemoval(config) = "0:v" /\ RemovalPart(config) = <<>>
    BY <1>5 DEF AfterRemoval, RemovalPart
  <2>2. inputs = extra \cup {"0:v"} /\ Labels \ {"0:v", "1:v", "delogoed"} \subseteq Labels \ inputs
    BY <1>2
  <2>3. Open(<<>>, inputs, kinds, inputs, Labels \ {"0:v", "1:v", "delogoed"})
    BY <1>3, <2>2 DEF Open
  <2> QED
    BY <1>1, <2>1, <2>2, <2>3
<1> QED
  BY <1>4, <1>5

LEMMA OpenIsSeq ==
  ASSUME NEW graph, NEW inputs, NEW kinds, NEW unread, NEW fresh,
         Open(graph, inputs, kinds, unread, fresh)
  PROVE  graph \in Seq(Filters)
BY DEF Open, Wired

LEMMA FilterIs ==
  ASSUME NEW kind \in Kinds, NEW ins \in SUBSET Labels, NEW outs \in SUBSET Labels
  PROVE  Filter(kind, ins, outs) \in Filters
BY DEF Filter, Filters

LEMMA CropIsOpen ==
  ASSUME NEW graph, NEW inputs, NEW kinds \in SUBSET Kinds, NEW extra \in SUBSET {"1:v"},
         {"crop", "split", "blur", "scale", "join"} \subseteq kinds,
         NEW cur \in {"0:v", "delogoed"}, NEW crop,
         Open(graph, inputs, kinds, extra \cup {cur}, Labels \ {"0:v", "1:v", "delogoed"})
  PROVE  Open(graph \o CropFilters(crop, cur), inputs, kinds,
              extra \cup {"cropped"}, {"wm", "wmapplied", "fpsed"})
<1>1. graph \in Seq(Filters)
  BY OpenIsSeq
<1>2. {cur} \in SUBSET Labels
  BY DEF Labels
<1>3. CASE crop = "CENTER_CROP"
  <2>1. PICK ins, outs, unread, fresh, next, left :
          /\ ins = {cur} /\ outs = {"cropped"} /\ unread = extra \cup {cur}
          /\ fresh = Labels \ {"0:v", "1:v", "delogoed"} /\ next = extra \cup {"cropped"}
          /\ left = {"wm", "wmapplied", "fpsed"}
    OBVIOUS
  <2>2. /\ ins \in SUBSET Labels /\ outs \in SUBSET Labels /\ ins \subseteq unread
        /\ outs \subseteq fresh /\ left \subseteq fresh \ outs
    BY <1>2, <2>1 DEF Labels
  <2>3. next = (unread \ ins) \cup outs
    BY <2>1
  <2>4. Open(graph, inputs, kinds, unread, fresh) /\ "crop" \in kinds
    BY <2>1
  <2>5. Open(Append(graph, Filter("crop", ins, outs)), inputs, kinds, next, left)
    BY <2>2, <2>3, <2>4, OpenStep
  <2>6. CropFilters(crop, cur) = <<Filter("crop", ins, outs)>>
    BY <1>3, <2>1 DEF CropFilters
  <2>7. Filter("crop", ins, outs) \in Filters
    BY <2>2, <2>4, FilterIs
  <2>8. graph \o CropFilters(crop, cur) = Append(graph, Filter("crop", ins, outs))
    BY <1>1, <2>6, <2>7, Glued
  <2> QED
    BY <2>1, <2>5, <2>8
<1>4. CASE crop # "CENTER_CROP"
  <2>1. PICK a, b, c, d :
          /\ a = Filter("split", {cur}, {"bgsrc", "fgsrc"})
          /\ b = Filter("blur", {"bgsrc"}, {"bg"})
          /\ c = Filter("scale", {"fgsrc"}, {"fg"})
          /\ d = Filter("join", {"bg", "fg"}, {"cropped"})
    OBVIOUS
  <2>2. /\ {"bgsrc", "fgsrc"} \in SUBSET Labels /\ {"bgsrc"} \in SUBSET Labels
        /\ {"bg"} \in SUBSET Labels /\ {"fgsrc"} \in SUBSET Labels /\ {"fg"} \in SUBSET Labels
        /\ {"bg", "fg"} \in SUBSET Labels /\ {"cropped"} \in SUBSET Labels
    BY DEF Labels
  <2>3. /\ "split" \in kinds /\ "blur" \in kinds /\ "scale" \in kinds /\ "join" \in kinds
    OBVIOUS
  <2>4. a \in Filters /\ b \in Filters /\ c \in Filters /\ d \in Filters
    BY <1>2, <2>1, <2>2, <2>3, FilterIs
  <2>5. graph \o CropFilters(crop, cur) = Append(Append(Append(Append(graph, a), b), c), d)
    <3>1. CropFilters(crop, cur) = <<a, b, c, d>>
      BY <1>4, <2>1 DEF CropFilters
    <3> QED
      BY <1>1, <2>4, <3>1, Glued
  <2>6. PICK f0, f1, f2, f3, f4 :
          /\ f0 = Labels \ {"0:v", "1:v", "delogoed"}
          /\ f1 = {"bg", "fg", "cropped", "wm", "wmapplied", "fpsed"}
          /\ f2 = {"fg", "cropped", "wm", "wmapplied", "fpsed"}
          /\ f3 = {"cropped", "wm", "wmapplied", "fpsed"}
          /\ f4 = {"wm", "wmapplied", "fpsed"}
    OBVIOUS
  <2>7. PICK u0, u1, u2, u3, u4 :
          /\ u0 = extra \cup {cur} /\ u1 = extra \cup {"bgsrc", "fgsrc"}
          /\ u2 = extra \cup {"bg", "fgsrc"} /\ u3 = extra \cup {"bg", "fg"}
          /\ u4 = extra \cup {"cropped"}
    OBVIOUS
  <2>8. Open(Append(graph, a), inputs, kinds, u1, f1)
    <3>1. /\ {cur} \subseteq u0 /\ {"bgsrc", "fgsrc"} \subseteq f0
          /\ f1 \subseteq f0 \ {"bgsrc", "fgsrc"}
      BY <2>6, <2>7 DEF Labels
    <3>2. u1 = (u0 \ {cur}) \cup {"bgsrc", "fgsrc"}
      BY <2>7
    <3>3. Open(graph, inputs, kinds, u0, f0)
      BY <2>6, <2>7
    <3> QED
      BY <1>2, <2>1, <2>2, <2>3, <3>1, <3>2, <3>3, OpenStep
  <2>9. Open(Append(Append(graph, a), b), inputs, kinds, u2, f2)
    <3>1. {"bgsrc"} \subseteq u1 /\ {"bg"} \subseteq f1 /\ f2 \subseteq f1 \ {"bg"}
      BY <2>6, <2>7
    <3>2. u2 = (u1 \ {"bgsrc"}) \cup {"bg"}
      BY <2>7
    <3> QED
      BY <2>1, <2>2, <2>3, <2>8, <3>1, <3>2, OpenStep
  <2>10. Open(Append(Append(Append(graph, a), b), c), inputs, kinds, u3, f3)
    <3>1. {"fgsrc"} \subseteq u2 /\ {"fg"} \subseteq f2 /\ f3 \subseteq f2 \ {"fg"}
      BY <2>6, <2>7
    <3>2. u3 = (u2 \ {"fgsrc"}) \cup {"fg"}
      BY <2>7
    <3> QED
      BY <2>1, <2>2, <2>3, <2>9, <3>1, <3>2, OpenStep
  <2>11. Open(Append(Append(Append(Append(graph, a), b), c), d), inputs, kinds, u4, f4)
    <3>1. {"bg", "fg"} \subseteq u3 /\ {"cropped"} \subseteq f3 /\ f4 \subseteq f3 \ {"cropped"}
      BY <2>6, <2>7
    <3>2. u4 = (u3 \ {"bg", "fg"}) \cup {"cropped"}
      BY <2>7
    <3> QED
      BY <2>1, <2>2, <2>3, <2>10, <3>1, <3>2, OpenStep
  <2> QED
    BY <2>5, <2>6, <2>7, <2>11
<1> QED
  BY <1>3, <1>4

LEMMA OverlayIsOpen ==
  ASSUME NEW graph, NEW inputs, NEW config, NEW found, NEW kinds,
         kinds = Allowed(config),
         Open(graph, inputs, kinds, Extra(config, found) \cup {"cropped"},
              {"wm", "wmapplied", "fpsed"})
  PROVE  Open(graph \o OverlayPart(config, found), inputs, kinds,
              {AfterOverlay(config, found)}, {"fpsed"})
<1>1. graph \in Seq(Filters)
  BY OpenIsSeq
<1>2. CASE WithOverlay(config, found)
  <2>1. PICK a, b : a = Filter("opacity", {"1:v"}, {"wm"})
                    /\ b = Filter("overlay", {"cropped", "wm"}, {"wmapplied"})
    OBVIOUS
  <2>2. /\ {"1:v"} \in SUBSET Labels /\ {"wm"} \in SUBSET Labels
        /\ {"cropped", "wm"} \in SUBSET Labels /\ {"wmapplied"} \in SUBSET Labels
    BY DEF Labels
  <2>3. kinds \in SUBSET Kinds /\ "opacity" \in kinds /\ "overlay" \in kinds
    BY <1>2 DEF WithOverlay, Allowed, Kinds
  <2>4. a \in Filters /\ b \in Filters
    BY <2>1, <2>2, <2>3, FilterIs
  <2>5. graph \o OverlayPart(config, found) = Append(Append(graph, a), b)
    <3>1. OverlayPart(config, found) = <<a, b>>
      BY <1>2, <2>1 DEF OverlayPart
    <3> QED
      BY <1>1, <2>4, <3>1, Glued
  <2>6. PICK u0, u1, u2, f0, f1, f2 :
          /\ u0 = {"1:v", "cropped"} /\ u1 = {"cropped", "wm"} /\ u2 = {"wmapplied"}
          /\ f0 = {"wm", "wmapplied", "fpsed"} /\ f1 = {"wmapplied", "fpsed"} /\ f2 = {"fpsed"}
    OBVIOUS
  <2>7. Open(graph, inputs, kinds, u0, f0)
    <3>1. Extra(config, found) \cup {"cropped"} = u0
      BY <1>2, <2>6 DEF Extra
    <3> QED
      BY <2>6, <3>1
  <2>8. Open(Append(graph, a), inputs, kinds, u1, f1)
    <3>1. {"1:v"} \subseteq u0 /\ {"wm"} \subseteq f0 /\ f1 \subseteq f0 \ {"wm"}
      BY <2>6
    <3>2. u1 = (u0 \ {"1:v"}) \cup {"wm"}
      BY <2>6
    <3> QED
      BY <2>1, <2>2, <2>3, <2>7, <3>1, <3>2, OpenStep
  <2>9. Open(Append(Append(graph, a), b), inputs, kinds, u2, f2)
    <3>1. {"cropped", "wm"} \subseteq u1 /\ {"wmapplied"} \subseteq f1 /\ f2 \subseteq f1 \ {"wmapplied"}
      BY <2>6
    <3>2. u2 = (u1 \ {"cropped", "wm"}) \cup {"wmapplied"}
      BY <2>6
    <3> QED
      BY <2>1, <2>2, <2>3, <2>8, <3>1, <3>2, OpenStep
  <2>10. AfterOverlay(config, found) = "wmapplied"
    BY <1>2 DEF AfterOverlay
  <2> QED
    BY <2>5, <2>6, <2>9, <2>10
<1>3. CASE ~ WithOverlay(config, found)
  <2>1. OverlayPart(config, found) = <<>> /\ AfterOverlay(config, found) = "cropped"
    BY <1>3 DEF OverlayPart, AfterOverlay
  <2>2. graph \o <<>> = graph
    BY <1>1, ConcatEmptySeq
  <2>3. Extra(config, found) \cup {"cropped"} = {"cropped"}
    BY <1>3 DEF Extra
  <2>4. Open(graph, inputs, kinds, {"cropped"}, {"wm", "wmapplied", "fpsed"})
    BY <2>3
  <2>5. Open(graph, inputs, kinds, {"cropped"}, {"fpsed"})
    BY <2>4 DEF Open
  <2> QED
    BY <2>1, <2>2, <2>5
<1> QED
  BY <1>2, <1>3

LEMMA FpsIsOpen ==
  ASSUME NEW graph, NEW inputs, NEW config, NEW found, NEW kinds \in SUBSET Kinds,
         "fps" \in kinds,
         Open(graph, inputs, kinds, {AfterOverlay(config, found)}, {"fpsed"})
  PROVE  Open(graph \o FpsPart(config, found), inputs, kinds, {FinalLabel(config, found)}, {})
<1>1. graph \in Seq(Filters)
  BY OpenIsSeq
<1>2. CASE config.fps
  <2>1. PICK ins, outs, left : /\ ins = {AfterOverlay(config, found)} /\ outs = {"fpsed"}
                               /\ left = {}
    OBVIOUS
  <2>2. ins \in SUBSET Labels /\ outs \in SUBSET Labels
    BY <2>1 DEF AfterOverlay, Labels
  <2>3. Filter("fps", ins, outs) \in Filters
    BY <2>2, FilterIs
  <2>4. /\ ins \subseteq ins /\ outs \subseteq outs /\ left \subseteq outs \ outs
        /\ outs = (ins \ ins) \cup outs /\ Open(graph, inputs, kinds, ins, outs)
    BY <2>1
  <2>5. Open(Append(graph, Filter("fps", ins, outs)), inputs, kinds, outs, left)
    BY <2>2, <2>4, OpenStep
  <2>6. graph \o FpsPart(config, found) = Append(graph, Filter("fps", ins, outs))
    <3>1. FpsPart(config, found) = <<Filter("fps", ins, outs)>>
      BY <1>2, <2>1 DEF FpsPart
    <3> QED
      BY <1>1, <2>3, <3>1, Glued
  <2>7. FinalLabel(config, found) = "fpsed"
    BY <1>2 DEF FinalLabel
  <2> QED
    BY <2>1, <2>5, <2>6, <2>7
<1>3. CASE ~ config.fps
  <2>1. FpsPart(config, found) = <<>> /\ FinalLabel(config, found) = AfterOverlay(config, found)
    BY <1>3 DEF FpsPart, FinalLabel
  <2>2. graph \o <<>> = graph
    BY <1>1, ConcatEmptySeq
  <2>3. Open(graph, inputs, kinds, {AfterOverlay(config, found)}, {})
    BY DEF Open
  <2> QED
    BY <2>1, <2>2, <2>3
<1> QED
  BY <1>2, <1>3

(* The command of every configuration and start is one ffmpeg can run.      *)
THEOREM CommandCanBeRun ==
  ASSUME NEW config \in Configs, NEW found \in BOOLEAN, NEW start \in Nat
  PROVE  GraphIsWired(config, found) /\ SeeksReachStart(start)
<1>1. SeeksReachStart(start)
  BY DEF SeeksReachStart, ResidualSeek, CoarseSeek
<1>2. GraphIsWired(config, found)
  <2> SUFFICES ASSUME ConfigIsAccepted(config) PROVE GraphIsWired(config, found)
    BY DEF GraphIsWired
  <2>1. PICK inputs, kinds : inputs = Inputs(config, found) /\ kinds = Allowed(config)
    OBVIOUS
  <2>2. /\ kinds \in SUBSET Kinds /\ "fps" \in kinds
        /\ {"crop", "split", "blur", "scale", "join"} \subseteq kinds
    BY <2>1 DEF Allowed, Kinds
  <2>3. PICK g1, g2, g3, g4 : /\ g1 = RemovalPart(config)
                              /\ g2 = g1 \o CropFilters(config.crop, AfterRemoval(config))
                              /\ g3 = g2 \o OverlayPart(config, found)
                              /\ g4 = g3 \o FpsPart(config, found)
    OBVIOUS
  <2>4. FilterGraph(config, found) = g4
    BY <2>3 DEF FilterGraph, RemovalPart, OverlayPart, FpsPart
  <2>5. PICK extra, cur : extra = Extra(config, found) /\ cur = AfterRemoval(config)
    OBVIOUS
  <2>6. extra \in SUBSET {"1:v"} /\ cur \in {"0:v", "delogoed"}
    BY <2>5 DEF Extra, AfterRemoval
  <2>7. Open(g1, inputs, kinds, extra \cup {cur}, Labels \ {"0:v", "1:v", "delogoed"})
    BY <2>1, <2>3, <2>5, RemovalIsOpen
  <2>8. Open(g1 \o CropFilters(config.crop, cur), inputs, kinds,
             extra \cup {"cropped"}, {"wm", "wmapplied", "fpsed"})
    BY <2>2, <2>6, <2>7, CropIsOpen
  <2>9. Open(g2 \o OverlayPart(config, found), inputs, kinds,
             {AfterOverlay(config, found)}, {"fpsed"})
    BY <2>1, <2>3, <2>5, <2>8, OverlayIsOpen
  <2>10. Open(g3 \o FpsPart(config, found), inputs, kinds, {FinalLabel(config, found)}, {})
    BY <2>2, <2>3, <2>9, FpsIsOpen
  <2>11. config.authorized \/ {"delogo", "overlay"} \cap kinds = {}
    BY <2>1 DEF ConfigIsAccepted, Allowed
  <2> QED
    BY <2>1, <2>3, <2>4, <2>10, <2>11, WiredCanBeRun
<1> QED
  BY <1>1, <1>2

-----------------------------------------------------------------------------
(* The same, of every input Algorithms picks. *)
LEMMA BoundedIsSeq ==
  ASSUME NEW S, NEW T, S \subseteq T, NEW k \in Nat
  PROVE  BoundedSeq(S, k) \subseteq Seq(T)
<1> SUFFICES ASSUME NEW s \in BoundedSeq(S, k) PROVE s \in Seq(T)
  OBVIOUS
<1>1. PICK n \in 0 .. k : s \in [1 .. n -> S]
  BY DEF BoundedSeq, SeqOf
<1>2. n \in Nat /\ s = [i \in 1 .. n |-> s[i]] /\ \A i \in 1 .. n : s[i] \in T
  BY <1>1
<1>3. [i \in 1 .. n |-> s[i]] \in Seq(T)
  BY <1>2, IsASeq
<1> QED
  BY <1>2, <1>3

Given ==
  /\ case.kind = "foreign" => case.steps \in Seq(Silent)
  /\ case.kind = "native" => case.doc.clips \in Seq(RawClip) /\ case.tenths \in Int
  /\ case.kind = "accounts" =>
       /\ case.platform \in Platforms /\ case.settings \in Settings
       /\ case.accounts \in Seq(Rows(case.platform))
  /\ case.kind = "command" =>
       case.config \in Configs /\ case.found \in BOOLEAN /\ case.start \in Nat

LEMMA InputIsGiven == Spec => []Given
<1>1. Init => Given
  BY DEF Init, Given
<1>2. Given /\ [Next]_case => Given'
  <2> SUFFICES ASSUME Given, [Next]_case PROVE Given'
    OBVIOUS
  <2>1. MaxSteps \in Nat /\ MaxClips \in Nat /\ MaxRows \in Nat
    BY AlgorithmsAssumption
  <2>2. CASE PickSteps
    <3>1. PICK steps \in BoundedSeq(Steps, MaxSteps) :
            case' = [kind |-> "foreign", steps |-> steps]
      BY <2>2 DEF PickSteps
    <3>2. Steps \subseteq Silent
      BY AlgorithmsAssumption DEF Silent
    <3>3. steps \in Seq(Silent)
      BY <2>1, <3>2, BoundedIsSeq
    <3> QED
      BY <3>1, <3>3 DEF Given
  <2>3. CASE PickDocument
    <3>1. PICK doc \in Documents, tenths \in Lengths, wanted \in Wanted :
            case' = [kind |-> "native", doc |-> doc, tenths |-> tenths, wanted |-> wanted]
      BY <2>3 DEF PickDocument
    <3>2. doc.clips \in BoundedSeq(RawClips, MaxClips) /\ tenths \in Int
      BY AlgorithmsAssumption DEF Documents
    <3>3. doc.clips \in Seq(RawClip)
      BY <2>1, <3>2, AlgorithmsAssumption, BoundedIsSeq
    <3> QED
      BY <3>1, <3>2, <3>3 DEF Given
  <2>4. CASE PickCommand
    <3>1. PICK config \in Configs, found \in BOOLEAN, start \in Starts :
            case' = [kind |-> "command", config |-> config, found |-> found, start |-> start]
      BY <2>4 DEF PickCommand
    <3>2. start \in Nat
      BY AlgorithmsAssumption
    <3> QED
      BY <3>1, <3>2 DEF Given
  <2>5. CASE PickAccounts
    <3>0. PICK platform \in Platforms, settings \in Settings :
            \E accounts \in Accounts(platform) :
              case' = [kind |-> "accounts", platform |-> platform, settings |-> settings,
                       accounts |-> accounts]
      BY <2>5 DEF PickAccounts
    <3>1. PICK accounts \in Accounts(platform) :
            case' = [kind |-> "accounts", platform |-> platform, settings |-> settings,
                     accounts |-> accounts]
      BY <3>0
    <3>2. [status : StatusesOf(platform), updated : 0 .. MaxRows, extra : {ExtraOf(platform)},
           readable : BOOLEAN, age : Ages]
            \subseteq Rows(platform)
      <4>1. 0 .. MaxRows \subseteq Int
        BY <2>1
      <4> QED
        BY <4>1 DEF Rows
    <3>3. accounts \in Seq(Rows(platform))
      BY <2>1, <3>2, BoundedIsSeq DEF Accounts
    <3> QED
      BY <3>1, <3>3 DEF Given
  <2>6. CASE UNCHANGED case
    BY <2>6 DEF Given
  <2> QED
    BY <2>2, <2>3, <2>4, <2>5, <2>6 DEF Next
<1> QED
  BY <1>1, <1>2, PTL DEF Spec

(* Every document of the tool that is picked is translated faithfully.      *)
THEOREM ForeignIsFaithfulHolds == Spec => []ForeignIsFaithful
<1>1. Given => ForeignIsFaithful
  BY TranslationFaithful DEF Given, ForeignIsFaithful
<1> QED
  BY <1>1, InputIsGiven, PTL

(* Every document that is picked and accepted can be cut.                   *)
THEOREM NativeIsCuttableHolds == Spec => []NativeIsCuttable
<1>1. Given => NativeIsCuttable
  BY AcceptedCanBeCut DEF Given, NativeIsCuttable
<1> QED
  BY <1>1, InputIsGiven, PTL

(* Every report on the accounts that are picked is an honest one.           *)
THEOREM ReportAgreesHolds == Spec => []ReportAgrees
<1>1. Given => ReportAgrees
  BY ReportIsHonest DEF Given, ReportAgrees
<1> QED
  BY <1>1, InputIsGiven, PTL

(* Every command that is picked is one ffmpeg can run.                      *)
THEOREM CommandIsSoundHolds == Spec => []CommandIsSound
<1>1. Given => CommandIsSound
  BY CommandCanBeRun DEF Given, CommandIsSound
<1> QED
  BY <1>1, InputIsGiven, PTL

=============================================================================
