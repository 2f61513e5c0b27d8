----------------------- MODULE PublishAccountsProofs -----------------------
(***************************************************************************)
(* Proofs about PublishAccounts, for every set of links, callbacks and     *)
(* uploads: the providers keep what PublishAttempt promises, a link        *)
(* connects once, and a token is stored with its own expiry.               *)
(***************************************************************************)
EXTENDS PublishAccounts, TLAPS

USE PublishAccountsAssumption

(* Of the types the arguments need that a callback and an upload are        *)
(* records with the fields of Init, and functions of their ids.             *)
IsCallback(m) ==
  m \in [pc : {m.pc}, flow : {m.flow}, link : {m.link}, old : {m.old}, loaded : {m.loaded}]

IsUpload(m) ==
  m \in [pc : {m.pc}, platform : {m.platform}, account : {m.account},
         loaded : {m.loaded}, polls : {m.polls}]

UpShape ==
  /\ up = [u \in Uploads |-> up[u]]
  /\ \A u \in Uploads : IsUpload(up[u])

CbShape ==
  /\ cb = [c \in Callbacks |-> cb[c]]
  /\ \A c \in Callbacks : IsCallback(cb[c])

-----------------------------------------------------------------------------
(* A step replaces the record of one upload, or of one callback.            *)
LEMMA UpUpdate ==
  ASSUME UpShape, NEW u \in Uploads, NEW m, IsUpload(m), up' = [up EXCEPT ![u] = m]
  PROVE  /\ UpShape' /\ up'[u] = m
         /\ \A v \in Uploads \ {u} : up'[v] = up[v]
<1>1. up'[u] = m /\ \A v \in Uploads \ {u} : up'[v] = up[v]
  BY DEF UpShape
<1>2. up' = [v \in Uploads |-> up'[v]]
  BY DEF UpShape
<1>3. \A v \in Uploads : IsUpload(up'[v])
  BY <1>1 DEF UpShape
<1> QED
  BY <1>1, <1>2, <1>3 DEF UpShape

LEMMA CbUpdate ==
  ASSUME CbShape, NEW c \in Callbacks, NEW m, IsCallback(m), cb' = [cb EXCEPT ![c] = m]
  PROVE  /\ CbShape' /\ cb'[c] = m
         /\ \A d \in Callbacks \ {c} : cb'[d] = cb[d]
<1>1. cb'[c] = m /\ \A d \in Callbacks \ {c} : cb'[d] = cb[d]
  BY DEF CbShape
<1>2. cb' = [d \in Callbacks |-> cb'[d]]
  BY DEF CbShape
<1>3. \A d \in Callbacks : IsCallback(cb'[d])
  BY <1>1 DEF CbShape
<1> QED
  BY <1>1, <1>2, <1>3 DEF CbShape

(* What a step may do to the records of the uploads: it gives one of them a *)
(* new place, and perhaps other fields; what it answers ends it.            *)
UpStays(u) == \A v \in Uploads \ {u} : up'[v] = up[v]

LEMMA UpGoesTo ==
  ASSUME UpShape, NEW u \in Uploads, NEW where, UpGoes(u, where)
  PROVE  /\ UpShape' /\ UpStays(u) /\ up'[u].pc = where
         /\ up'[u].platform = up[u].platform
         /\ up'[u].account = up[u].account /\ up'[u].loaded = up[u].loaded
<1> DEFINE m == [up[u] EXCEPT !.pc = where]
<1>1. IsUpload(m) /\ m.pc = where /\ m.platform = up[u].platform
      /\ m.account = up[u].account /\ m.loaded = up[u].loaded
  BY DEF UpShape, IsUpload
<1>2. up' = [up EXCEPT ![u] = m]
  BY DEF UpGoes
<1> HIDE DEF m
<1> QED
  BY <1>1, <1>2, UpUpdate DEF UpStays

-----------------------------------------------------------------------------
(* What the worker is told: the invariant behind AnswersAreHonest.  An      *)
(* upload that has not ended has answered nothing and posted nothing.       *)
Told ==
  /\ outcome \in [Uploads -> ErrorClass \cup {"none", "posted"}]
  /\ live \in [Uploads -> {0, 1}]
  /\ \A u \in Uploads : up[u].pc # "ended" => outcome[u] = "none" /\ live[u] = 0

UpInv == UpShape /\ Told

AStep == [A!Next]_<<outcome, live>>

LEMMA Moved ==
  ASSUME UpInv, NEW u \in Uploads, up[u].pc # "ended", UpShape', UpStays(u),
         UNCHANGED <<outcome, live>>
  PROVE  UpInv' /\ AStep
BY DEF UpInv, Told, UpStays, AStep

LEMMA WentTo ==
  ASSUME UpInv, NEW u \in Uploads, up[u].pc # "ended", NEW where, UpGoes(u, where),
         UNCHANGED <<outcome, live>>
  PROVE  UpInv' /\ AStep
<1>1. UpShape' /\ UpStays(u)
  BY UpGoesTo DEF UpInv
<1> QED
  BY <1>1, Moved

(* An answer without a post, and one with a post.                           *)
LEMMA AnsweredOnly ==
  ASSUME UpInv, NEW u \in Uploads, up[u].pc # "ended", NEW e \in ErrorClass,
         Answers(u, e), UNCHANGED live
  PROVE  UpInv' /\ AStep
<1>1. UpShape' /\ UpStays(u) /\ up'[u].pc = "ended"
  BY UpGoesTo DEF UpInv, Answers
<1>2. outcome[u] = "none" /\ outcome' = [outcome EXCEPT ![u] = e]
  BY DEF UpInv, Told, Answers
<1>3. Told'
  BY <1>1, <1>2 DEF UpInv, Told, UpStays
<1>4. A!Refused(u)
  BY <1>2 DEF A!Refused, A!Answer, A!ErrorClass, ErrorClass
<1> QED
  BY <1>1, <1>3, <1>4 DEF UpInv, AStep, A!Next

LEMMA AnsweredAndPosted ==
  ASSUME UpInv, NEW u \in Uploads, NEW e \in {"posted", "PERMANENT", "TRANSIENT"},
         Answers(u, e), Lands(u)
  PROVE  UpInv' /\ AStep
<1>1. UpShape' /\ UpStays(u) /\ up'[u].pc = "ended"
  BY UpGoesTo DEF UpInv, Answers
<1>2. outcome[u] = "none" /\ outcome' = [outcome EXCEPT ![u] = e] /\ live[u] = 0
  BY DEF UpInv, Told, Answers, Lands
<1>3. live' = [live EXCEPT ![u] = 1]
  BY <1>2 DEF Lands
<1>4. Told'
  BY <1>1, <1>2, <1>3 DEF UpInv, Told, UpStays, ErrorClass
<1>5. A!Succeeds(u) \/ A!Unanswered(u)
  BY <1>2, <1>3 DEF A!Succeeds, A!Unanswered, A!Answer, A!Post, A!Ambiguous
<1> QED
  BY <1>1, <1>4, <1>5 DEF UpInv, AStep, A!Next

LEMMA ClassesAreClasses ==
  ASSUME NEW p, NEW reply \in Replies, NEW e \in ClassesOf(p)[reply]
  PROVE  /\ e \in ErrorClass
         /\ reply \in {"server", "timeout"} => e = "TRANSIENT"
BY DEF Replies, ClassesOf, Forbidden, ErrorClass

(* Every step of an upload is one of these.                                 *)
LEMMA UploadStepIsHonest ==
  ASSUME UpInv, NEW u \in Uploads, UploadStep(u)
  PROVE  UpInv' /\ AStep
<1> USE DEF IsUpload
<1>1. CASE ExtensionFails(u)
  BY <1>1, AnsweredOnly DEF ExtensionFails, ErrorClass
<1>2. CASE Extended(u)
  <2> DEFINE m == [up[u] EXCEPT !.pc = "store", !.loaded = row[up[u].platform]]
  <2>1. IsUpload(m) /\ up' = [up EXCEPT ![u] = m]
    BY <1>2 DEF Extended, UpInv, UpShape
  <2> HIDE DEF m
  <2>2. UpShape' /\ UpStays(u)
    BY <2>1, UpUpdate DEF UpInv, UpStays
  <2> QED
    BY <1>2, <2>2, Moved DEF Extended
<1>3. CASE StoreToken(u)
  <2> DEFINE m == [up[u] EXCEPT !.pc = "ready", !.account = StoredToken(u)]
  <2>1. IsUpload(m) /\ up' = [up EXCEPT ![u] = m]
    BY <1>3 DEF StoreToken, UpInv, UpShape
  <2> HIDE DEF m
  <2>2. UpShape' /\ UpStays(u)
    BY <2>1, UpUpdate DEF UpInv, UpStays
  <2> QED
    BY <1>3, <2>2, Moved DEF StoreToken
<1>4. CASE RefusedLocally(u)
  <2>1. PICK e \in LocalRefusals(u) : Answers(u, e)
    BY <1>4 DEF RefusedLocally
  <2>2. e \in ErrorClass
    BY DEF LocalRefusals, ErrorClass
  <2> QED
    BY <1>4, <2>1, <2>2, AnsweredOnly DEF RefusedLocally
<1>5. CASE Sends(u)
  BY <1>5, WentTo DEF Sends
<1>6. CASE RequestFails(u)
  <2>1. PICK reply \in Replies : ReplyAnswers(u, reply)
    BY <1>6 DEF RequestFails
  <2>2. PICK e \in ClassesOf(up[u].platform)[reply] : Answers(u, e)
    BY <2>1 DEF ReplyAnswers
  <2>3. e \in ErrorClass
    BY ClassesAreClasses
  <2> QED
    BY <1>6, <2>2, <2>3, AnsweredOnly DEF RequestFails
<1>7. CASE ContainerMade(u)
  <2>1. CASE UpGoes(u, "poll") /\ UNCHANGED outcome
    BY <1>7, <2>1, WentTo DEF ContainerMade
  <2>2. CASE Answers(u, "PERMANENT")
    BY <1>7, <2>2, AnsweredOnly DEF ContainerMade, ErrorClass
  <2> QED
    BY <1>7, <2>1, <2>2 DEF ContainerMade
<1>8. CASE StillProcessing(u)
  <2>1. CASE PollsLeft(u)
    <3> DEFINE m == [up[u] EXCEPT !.polls = (@ + 1) % MaxPolls]
    <3>1. IsUpload(m) /\ up' = [up EXCEPT ![u] = m]
      BY <1>8, <2>1 DEF StillProcessing, UpInv, UpShape
    <3> HIDE DEF m
    <3>2. UpShape' /\ UpStays(u)
      BY <3>1, UpUpdate DEF UpInv, UpStays
    <3> QED
      BY <1>8, <2>1, <3>2, Moved DEF StillProcessing
  <2>2. CASE ~PollsLeft(u)
    BY <1>8, <2>2, AnsweredOnly DEF StillProcessing, ErrorClass
  <2> QED
    BY <2>1, <2>2
<1>9. CASE Processed(u)
  BY <1>9, WentTo DEF Processed
<1>10. CASE ProcessingFailed(u)
  BY <1>10, AnsweredOnly DEF ProcessingFailed, ErrorClass
<1>11. CASE Posted(u)
  BY <1>11, AnsweredAndPosted DEF Posted
<1>12. CASE PostedWithoutId(u)
  BY <1>12, AnsweredAndPosted DEF PostedWithoutId
<1>13. CASE PostedUnanswered(u)
  <2>1. PICK reply \in {"server", "timeout"} : ReplyAnswers(u, reply)
    BY <1>13 DEF PostedUnanswered
  <2>2. PICK e \in ClassesOf(up[u].platform)[reply] : Answers(u, e)
    BY <2>1 DEF ReplyAnswers
  <2>3. e = "TRANSIENT"
    BY ClassesAreClasses DEF Replies
  <2> QED
    BY <1>13, <2>2, <2>3, AnsweredAndPosted DEF PostedUnanswered
<1>14. CASE YouTubeRefused(u)
  <2> DEFINE m == [up[u] EXCEPT !.pc = "expire", !.loaded = row["youtube"]]
  <2>1. IsUpload(m) /\ up' = [up EXCEPT ![u] = m]
    BY <1>14 DEF YouTubeRefused, UpInv, UpShape
  <2> HIDE DEF m
  <2>2. UpShape' /\ UpStays(u)
    BY <2>1, UpUpdate DEF UpInv, UpStays
  <2> QED
    BY <1>14, <2>2, Moved DEF YouTubeRefused
<1>15. CASE MarkExpired(u)
  BY <1>15, AnsweredOnly DEF MarkExpired, ErrorClass
<1> QED
  BY <1>1, <1>2, <1>3, <1>4, <1>5, <1>6, <1>7, <1>8, <1>9, <1>10, <1>11, <1>12, <1>13,
     <1>14, <1>15 DEF UploadStep

LEMMA PickAccountIsHonest ==
  ASSUME UpInv, NEW u \in Uploads, NEW p \in Platforms, PickAccount(u, p)
  PROVE  UpInv' /\ AStep
<1> DEFINE where == IF ~Usable(p, row[p]) THEN "ended"
                    ELSE IF NeedsExtension(p, row[p]) THEN "extend" ELSE "ready"
           m == [up[u] EXCEPT !.platform = p, !.account = row[p], !.pc = where]
<1>1. IsUpload(m) /\ m.pc = where /\ up' = [up EXCEPT ![u] = m]
  BY DEF PickAccount, UpInv, UpShape, IsUpload
<1>2. up[u].pc = "none"
  BY DEF PickAccount
<1> HIDE DEF m
<1>3. UpShape' /\ UpStays(u) /\ up'[u].pc = where
  BY <1>1, UpUpdate DEF UpInv, UpStays
<1>4. CASE Usable(p, row[p])
  BY <1>2, <1>3, <1>4, Moved DEF PickAccount
<1>5. CASE ~Usable(p, row[p])
  <2>1. outcome[u] = "none" /\ outcome' = [outcome EXCEPT ![u] = "AUTH"] /\ live' = live
    BY <1>2, <1>5 DEF PickAccount, UpInv, Told
  <2>2. Told'
    BY <1>3, <1>5, <2>1 DEF UpInv, Told, UpStays, ErrorClass
  <2>3. A!Refused(u)
    BY <2>1 DEF A!Refused, A!Answer, A!ErrorClass
  <2> QED
    BY <1>3, <2>2, <2>3 DEF UpInv, AStep, A!Next
<1> QED
  BY <1>4, <1>5

LEMMA RestartIsHonest == UpInv /\ Restart => UpInv' /\ AStep
<1> SUFFICES ASSUME UpInv, Restart PROVE UpInv' /\ AStep
  OBVIOUS
<1> DEFINE Gone(u) == IF up[u].pc \in {"none", "ended"} THEN up[u]
                      ELSE [up[u] EXCEPT !.pc = "gone"]
<1>1. up' = [u \in Uploads |-> Gone(u)]
  BY DEF Restart
<1>2. \A u \in Uploads : IsUpload(Gone(u)) /\ (up[u].pc = "ended" => Gone(u).pc = "ended")
  BY DEF UpInv, UpShape, IsUpload
<1>3. \A u \in Uploads : up[u].pc # "ended" => Gone(u).pc # "ended"
  BY DEF UpInv, UpShape, IsUpload
<1>4. UNCHANGED <<outcome, live>>
  BY DEF Restart
<1> HIDE DEF Gone
<1>5. \A u \in Uploads : up'[u] = Gone(u)
  BY <1>1
<1>6. UpShape'
  BY <1>1, <1>2, <1>5 DEF UpShape
<1>7. Told'
  BY <1>2, <1>4, <1>5 DEF UpInv, Told
<1> QED
  BY <1>4, <1>6, <1>7 DEF UpInv, AStep

LEMMA UpInvStep == UpInv /\ [Next]_vars => UpInv' /\ AStep
<1> SUFFICES ASSUME UpInv, [Next]_vars PROVE UpInv' /\ AStep
  OBVIOUS
<1>1. CASE UNCHANGED upVars
  BY <1>1 DEF UpInv, UpShape, Told, AStep, upVars
<1>2. CASE \E u \in Uploads : UploadStep(u) \/ \E p \in Platforms : PickAccount(u, p)
  BY <1>2, UploadStepIsHonest, PickAccountIsHonest
<1>3. CASE Restart
  BY <1>3, RestartIsHonest
<1>4. UNCHANGED vars => UNCHANGED upVars
  BY DEF vars, upVars
<1>5. \A s \in Links, f \in Flows : Connect(s, f) \/ LinkAges(s) => UNCHANGED upVars
  BY DEF Connect, LinkAges
<1>6. \A c \in Callbacks, f \in Flows, s \in Links : ReadState(c, f, s) => UNCHANGED upVars
  BY DEF ReadState
<1>7. \A c \in Callbacks : CallbackStep(c) => UNCHANGED upVars
  BY DEF CallbackStep, DeleteState, CallbackFails, Granted, SaveFirst, InstagramSkipped,
         InstagramFound, LoadInstagram, SaveInstagram, Loads, Saves
<1>8. \A t \in Tokens : TokenAges(t) => UNCHANGED upVars
  BY DEF TokenAges
<1>9. \A s \in Links : LinkAges(s) => UNCHANGED upVars
  BY DEF LinkAges
<1> QED
  BY <1>1, <1>2, <1>3, <1>4, <1>5, <1>6, <1>7, <1>8, <1>9 DEF Next

(* What publish() answers is honest for every number of uploads, every      *)
(* budget of polls and any fault of the platforms: one answer, one post at  *)
(* most, and none behind an AUTH, a QUOTA or an UNSUPPORTED.                *)
THEOREM AnswersAreHonestHolds == Spec => AnswersAreHonest
<1>1. Init => UpInv /\ A!Init
  BY DEF Init, UpInv, UpShape, Told, IsUpload, A!Init
<1>2. UpInv /\ [Next]_vars => UpInv' /\ [A!Next]_<<outcome, live>>
  BY UpInvStep DEF AStep
<1> QED
  BY <1>1, <1>2, PTL DEF Spec, AnswersAreHonest, A!Spec


-----------------------------------------------------------------------------
(* A link connects once: the invariant behind StateIsConsumed.  A callback  *)
(* that passed has deleted its link, and a deleted link is never read as    *)
(* live again.                                                              *)
IsLink(l) == l \in [flow : {l.flow}, age : {l.age}]

LinkShape ==
  /\ link = [s \in Links |-> link[s]]
  /\ \A s \in Links : IsLink(link[s])

Reads(c) == cb[c].pc = "delete" \/ Accepted(c)

Consumed ==
  /\ DOMAIN earlier = Callbacks
  /\ \A c \in Callbacks : Reads(c) => cb[c].link \in Links /\ earlier[c] = {}
  /\ \A c \in Callbacks : Accepted(c) => link[cb[c].link].age = "gone"

CbInv == CbShape /\ LinkShape /\ Consumed

CbStays(c) == \A d \in Callbacks \ {c} : cb'[d] = cb[d]

LEMMA CbGoesTo ==
  ASSUME CbShape, NEW c \in Callbacks, NEW where, CbGoes(c, where)
  PROVE  /\ CbShape' /\ CbStays(c) /\ cb'[c].pc = where
         /\ cb'[c].link = cb[c].link /\ cb'[c].loaded = cb[c].loaded /\ cb'[c].flow = cb[c].flow
<1> DEFINE m == [cb[c] EXCEPT !.pc = where]
<1>1. IsCallback(m) /\ m.pc = where /\ m.link = cb[c].link /\ m.loaded = cb[c].loaded
      /\ m.flow = cb[c].flow
  BY DEF CbShape, IsCallback
<1>2. cb' = [cb EXCEPT ![c] = m]
  BY DEF CbGoes
<1> HIDE DEF m
<1> QED
  BY <1>1, <1>2, CbUpdate DEF CbStays

LEMMA LoadsGoesTo ==
  ASSUME CbShape, NEW c \in Callbacks, NEW p, NEW where, Loads(c, p, where)
  PROVE  /\ CbShape' /\ CbStays(c) /\ cb'[c].pc = where
         /\ cb'[c].link = cb[c].link /\ cb'[c].loaded = row[p] /\ cb'[c].flow = cb[c].flow
<1> DEFINE m == [cb[c] EXCEPT !.pc = where, !.loaded = row[p]]
<1>1. IsCallback(m) /\ m.pc = where /\ m.link = cb[c].link /\ m.loaded = row[p]
      /\ m.flow = cb[c].flow
  BY DEF CbShape, IsCallback
<1>2. cb' = [cb EXCEPT ![c] = m]
  BY DEF Loads
<1> HIDE DEF m
<1> QED
  BY <1>1, <1>2, CbUpdate DEF CbStays

(* A callback that has passed goes on, and keeps its link.                  *)
LEMMA PassedGoesOn ==
  ASSUME CbInv, NEW c \in Callbacks, Accepted(c), CbShape', CbStays(c),
         cb'[c].link = cb[c].link, UNCHANGED <<link, earlier>>
  PROVE  CbInv'
BY DEF CbInv, LinkShape, Consumed, CbStays, Accepted, Reads

LEMMA SavesGoesTo ==
  ASSUME CbShape, NEW c \in Callbacks, NEW p, NEW next, Saves(c, p, next)
  PROVE  /\ CbShape' /\ CbStays(c) /\ cb'[c].pc \in {next, "failed"}
         /\ cb'[c].link = cb[c].link /\ cb'[c].loaded = cb[c].loaded /\ cb'[c].flow = cb[c].flow
         /\ UNCHANGED <<link, earlier>>
<1>1. PICK where \in {next, "failed"} : CbGoes(c, where)
  BY DEF Saves
<1> QED
  BY <1>1, CbGoesTo DEF Saves

LEMMA CallbackStepConsumes ==
  ASSUME CbInv, NEW c \in Callbacks, CallbackStep(c)
  PROVE  CbInv'
<1>1. CASE DeleteState(c)
  <2> DEFINE s == cb[c].link
             l == [link[s] EXCEPT !.age = "gone"]
  <2>1. CbShape' /\ CbStays(c) /\ cb'[c].link = s /\ cb'[c].pc \in {"refused", "exchange"}
    BY <1>1, CbGoesTo DEF DeleteState, AfterDelete, CbInv
  <2>2. s \in Links /\ earlier[c] = {}
    BY <1>1 DEF DeleteState, CbInv, Consumed, Reads
  <2>3. IsLink(l) /\ l.age = "gone" /\ link' = [link EXCEPT ![s] = l]
    BY <1>1, <2>2 DEF DeleteState, CbInv, LinkShape, IsLink
  <2> HIDE DEF s, l
  <2>4. link'[s] = l /\ \A t \in Links \ {s} : link'[t] = link[t]
    BY <2>2, <2>3 DEF CbInv, LinkShape
  <2>5. link' = [t \in Links |-> link'[t]]
    BY <2>2, <2>3 DEF CbInv, LinkShape
  <2>6. \A t \in Links : IsLink(link'[t])
    BY <2>3, <2>4 DEF CbInv, LinkShape
  <2>7. \A t \in Links : link[t].age = "gone" => link'[t].age = "gone"
    BY <2>3, <2>4
  <2>8. earlier' = earlier
    BY <1>1 DEF DeleteState
  <2>9. Consumed'
    BY <2>1, <2>2, <2>3, <2>4, <2>7, <2>8 DEF CbInv, Consumed, Reads, Accepted, CbStays
  <2> QED
    BY <2>1, <2>5, <2>6, <2>9 DEF CbInv, LinkShape
<1>2. CASE CallbackFails(c)
  BY <1>2, CbGoesTo, PassedGoesOn DEF CallbackFails, CbInv, Accepted
<1>3. CASE InstagramSkipped(c)
  BY <1>3, CbGoesTo, PassedGoesOn DEF InstagramSkipped, CbInv, Accepted
<1>4. CASE InstagramFound(c)
  BY <1>4, CbGoesTo, PassedGoesOn DEF InstagramFound, CbInv, Accepted
<1>5. CASE Granted(c)
  <2>1. Loads(c, FirstOf(cb[c].flow), "save")
    BY <1>5 DEF Granted
  <2> QED
    BY <1>5, <2>1, LoadsGoesTo, PassedGoesOn DEF Granted, CbInv, Accepted, Loads
<1>6. CASE LoadInstagram(c)
  BY <1>6, LoadsGoesTo, PassedGoesOn DEF LoadInstagram, CbInv, Accepted, Loads
<1>7. CASE SaveFirst(c)
  <2>1. PICK next : Saves(c, FirstOf(cb[c].flow), next)
    BY <1>7 DEF SaveFirst
  <2> QED
    BY <1>7, <2>1, SavesGoesTo, PassedGoesOn DEF SaveFirst, CbInv, Accepted
<1>8. CASE SaveInstagram(c)
  BY <1>8, SavesGoesTo, PassedGoesOn DEF SaveInstagram, CbInv, Accepted
<1> QED
  BY <1>1, <1>2, <1>3, <1>4, <1>5, <1>6, <1>7, <1>8 DEF CallbackStep

LEMMA ReadStateConsumes ==
  ASSUME CbInv, NEW c \in Callbacks, NEW f \in Flows, NEW s \in Links, ReadState(c, f, s)
  PROVE  CbInv'
<1> DEFINE where == IF link[s].age \in {"live", "old"} /\ link[s].flow = f
                      THEN "delete" ELSE "refused"
           m == [cb[c] EXCEPT !.pc = where, !.flow = f, !.link = s, !.old = link[s].age = "old"]
           before == {d \in Callbacks : Accepted(d) /\ cb[d].link = s}
<1>1. IsCallback(m) /\ m.pc = where /\ m.link = s /\ cb' = [cb EXCEPT ![c] = m]
  BY DEF ReadState, CbInv, CbShape, IsCallback
<1> HIDE DEF m
<1>2. CbShape' /\ CbStays(c) /\ cb'[c].pc = where /\ cb'[c].link = s
  BY <1>1, CbUpdate DEF CbInv, CbStays
<1>3. where = "delete" => before = {}
  BY DEF CbInv, Consumed
<1>4. earlier' = [earlier EXCEPT ![c] = before] /\ link' = link
  BY DEF ReadState
<1>5. earlier'[c] = before /\ \A d \in Callbacks \ {c} : earlier'[d] = earlier[d]
  BY <1>4 DEF CbInv, Consumed
<1>6. DOMAIN earlier' = Callbacks
  BY <1>4 DEF CbInv, Consumed
<1> HIDE DEF before
<1>7. \A d \in Callbacks : Reads(d)' => cb'[d].link \in Links /\ earlier'[d] = {}
  <2> SUFFICES ASSUME NEW d \in Callbacks, Reads(d)'
               PROVE  cb'[d].link \in Links /\ earlier'[d] = {}
    OBVIOUS
  <2>1. CASE d = c
    BY <1>2, <1>3, <1>5, <2>1 DEF Reads, Accepted
  <2>2. CASE d # c
    BY <1>2, <1>5, <2>2 DEF CbInv, Consumed, Reads, Accepted, CbStays
  <2> QED
    BY <2>1, <2>2
<1>8. \A d \in Callbacks : Accepted(d)' => link'[cb'[d].link].age = "gone"
  BY <1>2, <1>4 DEF CbInv, Consumed, Accepted, CbStays
<1> QED
  BY <1>2, <1>4, <1>6, <1>7, <1>8 DEF CbInv, Consumed, LinkShape

(* Making a link and its growing old do not concern one that is deleted.    *)
LEMMA LinkChanges ==
  ASSUME CbInv, NEW s \in Links, link[s].age # "gone", NEW l, IsLink(l),
         link' = [link EXCEPT ![s] = l], UNCHANGED <<cb, earlier>>
  PROVE  CbInv'
<1>1. link'[s] = l /\ \A t \in Links \ {s} : link'[t] = link[t]
  BY DEF CbInv, LinkShape
<1>2. link' = [t \in Links |-> link'[t]]
  BY DEF CbInv, LinkShape
<1>3. \A t \in Links : IsLink(link'[t])
  BY <1>1 DEF CbInv, LinkShape
<1>4. \A t \in Links : link[t].age = "gone" => link'[t].age = "gone"
  BY <1>1
<1>5. Consumed'
  BY <1>4 DEF CbInv, Consumed, Reads, Accepted
<1> QED
  BY <1>2, <1>3, <1>5 DEF CbInv, LinkShape, CbShape

LEMMA RestartConsumes == CbInv /\ Restart => CbInv'
<1> SUFFICES ASSUME CbInv, Restart PROVE CbInv'
  OBVIOUS
<1> DEFINE Gone(c) == IF cb[c].pc \in Ended THEN cb[c] ELSE [cb[c] EXCEPT !.pc = "gone"]
<1>1. cb' = [c \in Callbacks |-> Gone(c)]
  BY DEF Restart
<1>2. \A c \in Callbacks : /\ IsCallback(Gone(c)) /\ Gone(c).link = cb[c].link
                           /\ Gone(c).pc \in {cb[c].pc, "gone"}
                           /\ Gone(c).pc # "delete"
  BY DEF CbInv, CbShape, IsCallback, Ended
<1> HIDE DEF Gone
<1>3. \A c \in Callbacks : cb'[c] = Gone(c)
  BY <1>1
<1>4. CbShape'
  BY <1>1, <1>2, <1>3 DEF CbShape
<1>5. UNCHANGED <<link, earlier>>
  BY DEF Restart
<1> QED
  BY <1>2, <1>3, <1>4, <1>5 DEF CbInv, LinkShape, Consumed, Reads, Accepted

LEMMA CbInvStep == CbInv /\ [Next]_vars => CbInv'
<1> SUFFICES ASSUME CbInv, [Next]_vars PROVE CbInv'
  OBVIOUS
<1>1. CASE UNCHANGED cbVars
  BY <1>1 DEF CbInv, CbShape, LinkShape, Consumed, Reads, Accepted, cbVars
<1>2. ASSUME NEW c \in Callbacks, CallbackStep(c) PROVE CbInv'
  BY <1>2, CallbackStepConsumes
<1>3. ASSUME NEW c \in Callbacks, NEW f \in Flows, NEW s \in Links, ReadState(c, f, s) PROVE CbInv'
  BY <1>3, ReadStateConsumes
<1>4. ASSUME NEW s \in Links, NEW f \in Flows, Connect(s, f) PROVE CbInv'
  <2>1. IsLink([flow |-> f, age |-> "live"])
    BY DEF IsLink
  <2> QED
    BY <1>4, <2>1, LinkChanges DEF Connect
<1>5. ASSUME NEW s \in Links, LinkAges(s) PROVE CbInv'
  <2> DEFINE l == [link[s] EXCEPT !.age = "old"]
  <2>1. IsLink(l) /\ link' = [link EXCEPT ![s] = l]
    BY <1>5 DEF LinkAges, CbInv, LinkShape, IsLink
  <2> HIDE DEF l
  <2> QED
    BY <1>5, <2>1, LinkChanges DEF LinkAges
<1>6. \A u \in Uploads : UploadStep(u) => UNCHANGED cbVars
  BY DEF UploadStep, ExtensionFails, Extended, StoreToken, RefusedLocally, Sends, RequestFails,
         ContainerMade, StillProcessing, Processed, ProcessingFailed, Posted, PostedWithoutId,
         PostedUnanswered, YouTubeRefused, MarkExpired
<1>7. \A u \in Uploads, p \in Platforms : PickAccount(u, p) => UNCHANGED cbVars
  BY DEF PickAccount
<1>8. \A t \in Tokens : TokenAges(t) => UNCHANGED cbVars
  BY DEF TokenAges
<1>9. UNCHANGED vars => UNCHANGED cbVars
  BY DEF vars, cbVars
<1> QED
  BY <1>1, <1>2, <1>3, <1>4, <1>5, <1>6, <1>7, <1>8, <1>9, RestartConsumes DEF Next

(* An authorization link connects once, however many callbacks and links    *)
(* there are and wherever the process is restarted.                         *)
THEOREM StateIsConsumedHolds == Spec => []StateIsConsumed
<1>1. Init => CbInv
  <2> DEFINE m == [pc |-> "none", flow |-> "none", link |-> "none", old |-> FALSE, loaded |-> NoRow]
  <2>0. IsCallback(m)
    BY DEF IsCallback
  <2>1. Init => CbShape
    <3>1. Init => cb = [c \in Callbacks |-> m]
      BY DEF Init
    <3> HIDE DEF m
    <3> QED
      BY <2>0, <3>1 DEF CbShape
  <2>2. Init => LinkShape
    BY DEF Init, LinkShape, IsLink
  <2>3. Init => Consumed
    BY DEF Init, Consumed, Reads, Accepted
  <2> QED
    BY <2>1, <2>2, <2>3 DEF CbInv
<1>2. CbInv => StateIsConsumed
  BY DEF CbInv, Consumed, Reads, StateIsConsumed
<1> QED
  BY <1>1, <1>2, CbInvStep, PTL DEF Spec

-----------------------------------------------------------------------------
(* A token is stored with its own expiry: the invariant behind              *)
(* TokenMatchesExpiry.  Who writes a token has not written it before, so    *)
(* the row it loaded does not name it, and its flush writes both columns.   *)
IsRow(r) == r \in [status : {r.status}, token : {r.token}, expiry : {r.expiry}]

Names(r, t) == t \in {r.token, r.expiry}

Matched(r) ==
  r.status # "none" =>
    r.token \in Tokens /\ (age[r.token] # "undated" => r.expiry = r.token)

RowShape ==
  /\ row = [p \in Platforms |-> row[p]]
  /\ \A p \in Platforms : IsRow(row[p])

AgeShape == age = [t \in Tokens |-> age[t]]

CbFresh(c) ==
  /\ cb[c].pc \in {"none", "delete", "exchange", "save"} =>
       \A p \in Platforms : ~Names(row[p], c)
  /\ cb[c].pc \in {"instagram", "username", "save_instagram"} => ~Names(row["instagram"], c)
  /\ cb[c].pc \in {"save", "save_instagram"} => ~Names(cb[c].loaded, c)
  /\ cb[c].pc # "none" => cb[c].flow \in Flows
  /\ IsRow(cb[c].loaded)

Busy == {"extend", "store", "ready", "container", "poll", "publish", "post", "expire"}

UpFresh(u) ==
  /\ up[u].pc \in {"none", "extend", "store"} => \A p \in Platforms : ~Names(row[p], u)
  /\ up[u].pc = "store" => ~Names(up[u].loaded, u)
  /\ up[u].pc \in Busy => up[u].platform \in Platforms /\ row[up[u].platform].status # "none"
  /\ up[u].pc \in {"store", "expire"} => up[u].loaded.status # "none"
  /\ up[u].pc = "expire" => up[u].platform = "youtube"
  /\ IsRow(up[u].loaded)

TokInv ==
  /\ CbShape /\ UpShape /\ RowShape /\ AgeShape
  /\ \A p \in Platforms : Matched(row[p])
  /\ \A c \in Callbacks : CbFresh(c)
  /\ \A u \in Uploads : UpFresh(u)

(* What a step does to the rows: a row keeps existing, and the only token   *)
(* that comes to be named is that of the writer.                            *)
Rows(t) ==
  /\ RowShape' /\ AgeShape'
  /\ \A p \in Platforms : /\ Matched(row[p])'
                          /\ row[p].status # "none" => row'[p].status # "none"
                          /\ \A x \in Tokens \ {t} : Names(row'[p], x) => Names(row[p], x)

LEMMA RowsUntouched == ASSUME TokInv, UNCHANGED <<row, age>>, NEW t PROVE Rows(t)
BY DEF Rows, TokInv, RowShape, AgeShape, Matched

LEMMA OtherCallbacks ==
  ASSUME TokInv, NEW t, Rows(t), NEW d \in Callbacks, d # t, cb'[d] = cb[d]
  PROVE  CbFresh(d)'
BY DEF TokInv, Rows, CbFresh, Tokens, Platforms

LEMMA OtherUploads ==
  ASSUME TokInv, NEW t, Rows(t), NEW v \in Uploads, v # t, up'[v] = up[v]
  PROVE  UpFresh(v)'
BY DEF TokInv, Rows, UpFresh, Tokens

LEMMA CallbackKeepsTokens ==
  ASSUME TokInv, NEW c \in Callbacks, CbShape', CbStays(c), Rows(c), UNCHANGED up, CbFresh(c)'
  PROVE  TokInv'
<1>1. \A d \in Callbacks : CbFresh(d)'
  BY OtherCallbacks DEF CbStays
<1>2. \A v \in Uploads : UpFresh(v)'
  BY OtherUploads
<1>3. UpShape'
  BY DEF TokInv, UpShape
<1> QED
  BY <1>1, <1>2, <1>3 DEF TokInv, Rows

LEMMA UploadKeepsTokens ==
  ASSUME TokInv, NEW u \in Uploads, UpShape', UpStays(u), Rows(u), UNCHANGED cb, UpFresh(u)'
  PROVE  TokInv'
<1>1. \A d \in Callbacks : CbFresh(d)'
  BY OtherCallbacks
<1>2. \A v \in Uploads : UpFresh(v)'
  BY OtherUploads DEF UpStays
<1>3. CbShape'
  BY DEF TokInv, CbShape
<1> QED
  BY <1>1, <1>2, <1>3 DEF TokInv, Rows

LEMMA FlushFields ==
  ASSUME NEW now, NEW loaded, NEW new, IsRow(now), NEW r, r = Flush(now, loaded, new)
  PROVE  /\ IsRow(r)
         /\ r.status = IF new.status = loaded.status THEN now.status ELSE new.status
         /\ r.token = IF new.token = loaded.token THEN now.token ELSE new.token
         /\ r.expiry = IF new.expiry = loaded.expiry THEN now.expiry ELSE new.expiry
<1>1. DOMAIN now = {"status", "token", "expiry"}
  BY DEF IsRow
<1>2. r = [status |-> IF new.status = loaded.status THEN now.status ELSE new.status,
           token |-> IF new.token = loaded.token THEN now.token ELSE new.token,
           expiry |-> IF new.expiry = loaded.expiry THEN now.expiry ELSE new.expiry]
  BY <1>1 DEF Flush
<1> QED
  BY <1>2 DEF IsRow

(* One row is replaced.                                                     *)
LEMMA RowUpdate ==
  ASSUME RowShape, NEW p \in Platforms, NEW r, IsRow(r), row' = [row EXCEPT ![p] = r]
  PROVE  RowShape' /\ row'[p] = r /\ \A q \in Platforms \ {p} : row'[q] = row[q]
<1>1. row'[p] = r /\ \A q \in Platforms \ {p} : row'[q] = row[q]
  BY DEF RowShape
<1>2. row' = [q \in Platforms |-> row'[q]]
  BY DEF RowShape
<1> QED
  BY <1>1, <1>2 DEF RowShape

(* A callback or a refresh stores its token t over what it loaded.          *)
LEMMA StoresItsToken ==
  ASSUME TokInv, NEW p \in Platforms, NEW t \in Tokens, NEW loaded, NEW new,
         IsRow(new), new.status = "CONNECTED", new.token = t,
         age[t] # "undated" => new.expiry = t,
         new.expiry \in {t, "none"} \/ (loaded.status # "none" /\ new.expiry = loaded.expiry),
         ~Names(loaded, t), Write(p, loaded, new), UNCHANGED age
  PROVE  Rows(t) /\ \A q \in Platforms \ {p} : row'[q] = row[q]
<1> DEFINE r == IF loaded.status = "none" THEN new ELSE Flush(row[p], loaded, new)
<1>1. row' = [row EXCEPT ![p] = r]
  BY DEF Write
<1>2. /\ IsRow(r) /\ r.token = t /\ r.expiry \in {row[p].expiry, t, "none"}
      /\ age[t] # "undated" => r.expiry = t
      /\ row[p].status # "none" => r.status # "none"
  <2>1. CASE loaded.status = "none"
    BY <2>1
  <2>2. CASE loaded.status # "none"
    <3>1. IsRow(row[p]) /\ r = Flush(row[p], loaded, new)
      BY <2>2 DEF TokInv, RowShape
    <3> HIDE DEF r
    <3>2. /\ IsRow(r)
          /\ r.status = IF new.status = loaded.status THEN row[p].status ELSE new.status
          /\ r.token = IF new.token = loaded.token THEN row[p].token ELSE new.token
          /\ r.expiry = IF new.expiry = loaded.expiry THEN row[p].expiry ELSE new.expiry
      BY <3>1, FlushFields
    <3> QED
      BY <2>2, <3>2 DEF Names
  <2> QED
    BY <2>1, <2>2
<1> HIDE DEF r
<1>3. RowShape' /\ row'[p] = r /\ \A q \in Platforms \ {p} : row'[q] = row[q]
  BY <1>1, <1>2, RowUpdate DEF TokInv
<1>4. AgeShape'
  BY DEF TokInv, AgeShape
<1>5. ASSUME NEW q \in Platforms
      PROVE  /\ Matched(row[q])'
             /\ row[q].status # "none" => row'[q].status # "none"
             /\ \A x \in Tokens \ {t} : Names(row'[q], x) => Names(row[q], x)
  <2>1. CASE q = p
    BY <1>2, <1>3, <2>1 DEF Matched, Names, Tokens
  <2>2. CASE q # p
    BY <1>3, <2>2 DEF TokInv, Matched
  <2> QED
    BY <2>1, <2>2
<1> QED
  BY <1>3, <1>4, <1>5 DEF Rows

LEMMA MarksExpired ==
  ASSUME TokInv, NEW u \in Uploads, MarkExpired(u)
  PROVE  Rows(u)
<1> DEFINE old == up[u].loaded
           new == [old EXCEPT !.status = "EXPIRED"]
           r == IF old.status = "none" THEN new ELSE Flush(row["youtube"], old, new)
<1>1. /\ up[u].pc = "expire" /\ UNCHANGED age
      /\ row' = [row EXCEPT !["youtube"] = r]
  BY DEF MarkExpired, Write
<1>2. /\ old.status # "none" /\ IsRow(old) /\ IsRow(row["youtube"])
      /\ row["youtube"].status # "none" /\ "youtube" \in Platforms
  BY <1>1 DEF TokInv, UpFresh, Busy, RowShape, Platforms
<1>3. new.status = "EXPIRED" /\ new.token = old.token /\ new.expiry = old.expiry
  BY <1>2 DEF IsRow
<1>4. r = Flush(row["youtube"], old, new)
  BY <1>2
<1> HIDE DEF r, new, old
<1>5. /\ IsRow(r) /\ r.status # "none"
      /\ r.token = row["youtube"].token /\ r.expiry = row["youtube"].expiry
  BY <1>2, <1>3, <1>4, FlushFields
<1>6. RowShape' /\ row'["youtube"] = r /\ \A q \in Platforms \ {"youtube"} : row'[q] = row[q]
  BY <1>1, <1>2, <1>5, RowUpdate DEF TokInv
<1>7. AgeShape'
  BY <1>1 DEF TokInv, AgeShape
<1>8. ASSUME NEW q \in Platforms
      PROVE  /\ Matched(row[q])'
             /\ row[q].status # "none" => row'[q].status # "none"
             /\ \A x \in Tokens \ {u} : Names(row'[q], x) => Names(row[q], x)
  <2>1. CASE q = "youtube"
    BY <1>1, <1>2, <1>5, <1>6, <2>1 DEF TokInv, Matched, Names
  <2>2. CASE q # "youtube"
    BY <1>1, <1>6, <2>2 DEF TokInv, Matched
  <2> QED
    BY <2>1, <2>2
<1> QED
  BY <1>6, <1>7, <1>8 DEF Rows

LEMMA FreshRow ==
  ASSUME TokInv, NEW t \in Tokens
  PROVE  /\ IsRow(Fresh(t)) /\ Fresh(t).status = "CONNECTED" /\ Fresh(t).token = t
         /\ Fresh(t).expiry = IF age[t] = "undated" THEN "none" ELSE t
BY DEF Fresh, ExpiryOf, IsRow

LEMMA CallbackSaves ==
  ASSUME TokInv, NEW c \in Callbacks, NEW p \in Platforms, NEW next, Saves(c, p, next),
         ~Names(cb[c].loaded, c)
  PROVE  Rows(c) /\ (cb'[c].pc = "failed" \/ \A q \in Platforms \ {p} : row'[q] = row[q])
<1>1. UNCHANGED age
  BY DEF Saves
<1>2. CASE Clashes(p, cb[c].loaded)
  <2>1. cb'[c].pc = "failed"
    BY <1>2, CbGoesTo DEF Saves, TokInv
  <2> QED
    BY <1>1, <1>2, <2>1, RowsUntouched DEF Saves
<1>3. CASE ~Clashes(p, cb[c].loaded)
  BY <1>1, <1>3, FreshRow, StoresItsToken DEF Saves, Tokens
<1> QED
  BY <1>2, <1>3

LEMMA CallbackStepTokens ==
  ASSUME TokInv, NEW c \in Callbacks, CallbackStep(c)
  PROVE  TokInv'
<1>0. CbShape /\ CbFresh(c) /\ RowShape /\ "instagram" \in Platforms
  BY DEF TokInv, Platforms
<1>1. UNCHANGED up
  BY DEF CallbackStep, DeleteState, CallbackFails, Granted, SaveFirst, InstagramSkipped,
         InstagramFound, LoadInstagram, SaveInstagram, Loads, Saves, upVars
<1>2. ASSUME NEW where, CbGoes(c, where), UNCHANGED <<row, age>>,
             where \in {"exchange", "failed", "refused", "connected", "username"},
             where = "exchange" => cb[c].pc = "delete",
             where = "username" => cb[c].pc = "instagram",
             cb[c].pc # "none"
      PROVE  TokInv'
  <2>1. /\ CbShape' /\ CbStays(c) /\ cb'[c].pc = where
        /\ cb'[c].loaded = cb[c].loaded /\ cb'[c].flow = cb[c].flow
    BY <1>0, <1>2, CbGoesTo
  <2>2. CbFresh(c)'
    BY <1>0, <1>2, <2>1 DEF CbFresh
  <2> QED
    BY <1>1, <1>2, <2>1, <2>2, CallbackKeepsTokens, RowsUntouched
<1>3. CASE DeleteState(c)
  BY <1>2, <1>3 DEF DeleteState, AfterDelete, accountVars
<1>4. CASE CallbackFails(c)
  BY <1>2, <1>4 DEF CallbackFails, accountVars
<1>5. CASE InstagramSkipped(c)
  BY <1>2, <1>5 DEF InstagramSkipped, accountVars
<1>6. CASE InstagramFound(c)
  BY <1>2, <1>6 DEF InstagramFound, accountVars
<1>7. CASE Granted(c)
  <2> DEFINE p == FirstOf(cb[c].flow)
  <2>1. cb[c].pc = "exchange" /\ Loads(c, p, "save") /\ UNCHANGED <<row, age>> /\ p \in Platforms
    BY <1>0, <1>7 DEF Granted, Loads, CbFresh, FirstOf, Flows, Platforms
  <2>2. /\ CbShape' /\ CbStays(c) /\ cb'[c].pc = "save"
        /\ cb'[c].loaded = row[p] /\ cb'[c].flow = cb[c].flow
    BY <1>0, <2>1, LoadsGoesTo
  <2>3. CbFresh(c)'
    BY <1>0, <2>1, <2>2 DEF CbFresh, RowShape
  <2> QED
    BY <1>1, <2>1, <2>2, <2>3, CallbackKeepsTokens, RowsUntouched
<1>8. CASE LoadInstagram(c)
  <2>1. cb[c].pc = "username" /\ Loads(c, "instagram", "save_instagram") /\ UNCHANGED <<row, age>>
    BY <1>8 DEF LoadInstagram, Loads
  <2>2. /\ CbShape' /\ CbStays(c) /\ cb'[c].pc = "save_instagram"
        /\ cb'[c].loaded = row["instagram"] /\ cb'[c].flow = cb[c].flow
    BY <1>0, <2>1, LoadsGoesTo
  <2>3. CbFresh(c)'
    BY <1>0, <2>1, <2>2 DEF CbFresh, RowShape
  <2> QED
    BY <1>1, <2>1, <2>2, <2>3, CallbackKeepsTokens, RowsUntouched
<1>9. CASE SaveFirst(c)
  <2> DEFINE p == FirstOf(cb[c].flow)
             next == IF cb[c].flow = "meta" THEN "instagram" ELSE "connected"
  <2>1. cb[c].pc = "save" /\ Saves(c, p, next) /\ p \in Platforms /\ p # "instagram"
    BY <1>0, <1>9 DEF SaveFirst, CbFresh, FirstOf, Flows, Platforms
  <2>2. /\ CbShape' /\ CbStays(c) /\ cb'[c].pc \in {next, "failed"}
        /\ cb'[c].loaded = cb[c].loaded /\ cb'[c].flow = cb[c].flow
    BY <1>0, <2>1, SavesGoesTo
  <2>3. ~Names(cb[c].loaded, c)
    BY <1>0, <2>1 DEF CbFresh
  <2>4. Rows(c) /\ (cb'[c].pc = "failed" \/ row'["instagram"] = row["instagram"])
    BY <1>0, <2>1, <2>3, CallbackSaves
  <2>5. CbFresh(c)'
    BY <1>0, <2>1, <2>2, <2>4 DEF CbFresh
  <2> QED
    BY <1>1, <2>2, <2>4, <2>5, CallbackKeepsTokens
<1>10. CASE SaveInstagram(c)
  <2>1. cb[c].pc = "save_instagram" /\ Saves(c, "instagram", "connected")
    BY <1>10 DEF SaveInstagram
  <2>2. /\ CbShape' /\ CbStays(c) /\ cb'[c].pc \in {"connected", "failed"}
        /\ cb'[c].loaded = cb[c].loaded /\ cb'[c].flow = cb[c].flow
    BY <1>0, <2>1, SavesGoesTo
  <2>3. Rows(c)
    BY <1>0, <2>1, CallbackSaves DEF CbFresh
  <2>4. CbFresh(c)'
    BY <1>0, <2>1, <2>2 DEF CbFresh
  <2> QED
    BY <1>1, <2>2, <2>3, <2>4, CallbackKeepsTokens
<1> QED
  BY <1>3, <1>4, <1>5, <1>6, <1>7, <1>8, <1>9, <1>10 DEF CallbackStep

LEMMA ReadStateTokens ==
  ASSUME TokInv, NEW c \in Callbacks, NEW f \in Flows, NEW s \in Links, ReadState(c, f, s)
  PROVE  TokInv'
<1> DEFINE where == IF link[s].age \in {"live", "old"} /\ link[s].flow = f
                      THEN "delete" ELSE "refused"
           m == [cb[c] EXCEPT !.pc = where, !.flow = f, !.link = s, !.old = link[s].age = "old"]
<1>1. /\ IsCallback(m) /\ m.pc = where /\ m.flow = f /\ m.loaded = cb[c].loaded
      /\ cb' = [cb EXCEPT ![c] = m]
  BY DEF ReadState, TokInv, CbShape, IsCallback
<1>2. cb[c].pc = "none" /\ UNCHANGED <<row, age, up>>
  BY DEF ReadState, accountVars, upVars
<1> HIDE DEF m
<1>3. CbShape' /\ CbStays(c) /\ cb'[c] = m
  BY <1>1, CbUpdate DEF TokInv, CbStays
<1>4. CbFresh(c)
  BY DEF TokInv
<1>5. CbFresh(c)'
  BY <1>1, <1>2, <1>3, <1>4 DEF CbFresh
<1> QED
  BY <1>2, <1>3, <1>5, CallbackKeepsTokens, RowsUntouched

LEMMA UploadStepTokens ==
  ASSUME TokInv, NEW u \in Uploads, UploadStep(u)
  PROVE  TokInv'
<1>0. UpShape /\ UpFresh(u) /\ RowShape /\ u \in Tokens
  BY DEF TokInv, Tokens
<1>1. UNCHANGED cb
  BY DEF UploadStep, ExtensionFails, Extended, StoreToken, RefusedLocally, Sends, RequestFails,
         ContainerMade, StillProcessing, Processed, ProcessingFailed, Posted, PostedWithoutId,
         PostedUnanswered, YouTubeRefused, MarkExpired, cbVars
<1>2. ASSUME NEW where, UpGoes(u, where), Rows(u),
             where \in {"container", "poll", "publish", "post", "ended"},
             up[u].pc \in Busy
      PROVE  TokInv'
  <2>1. /\ UpShape' /\ UpStays(u) /\ up'[u].pc = where
        /\ up'[u].platform = up[u].platform /\ up'[u].loaded = up[u].loaded
    BY <1>0, <1>2, UpGoesTo
  <2>2. UpFresh(u)'
    BY <1>0, <1>2, <2>1 DEF UpFresh, Rows
  <2> QED
    BY <1>1, <1>2, <2>1, <2>2, UploadKeepsTokens
<1>3. CASE ExtensionFails(u)
  BY <1>2, <1>3, RowsUntouched DEF ExtensionFails, Answers, accountVars, Busy
<1>4. CASE RefusedLocally(u)
  BY <1>2, <1>4, RowsUntouched DEF RefusedLocally, Answers, accountVars, Busy
<1>5. CASE Sends(u)
  BY <1>2, <1>5, RowsUntouched DEF Sends, accountVars, Busy
<1>6. CASE RequestFails(u)
  BY <1>2, <1>6, RowsUntouched DEF RequestFails, ReplyAnswers, Answers, accountVars, Busy
<1>7. CASE ContainerMade(u)
  BY <1>2, <1>7, RowsUntouched DEF ContainerMade, Answers, accountVars, Busy
<1>8. CASE Processed(u)
  BY <1>2, <1>8, RowsUntouched DEF Processed, accountVars, Busy
<1>9. CASE ProcessingFailed(u)
  BY <1>2, <1>9, RowsUntouched DEF ProcessingFailed, Answers, accountVars, Busy
<1>10. CASE Posted(u)
  BY <1>2, <1>10, RowsUntouched DEF Posted, Lands, Answers, accountVars, Busy
<1>11. CASE PostedWithoutId(u)
  BY <1>2, <1>11, RowsUntouched DEF PostedWithoutId, Lands, Answers, accountVars, Busy
<1>12. CASE PostedUnanswered(u)
  BY <1>2, <1>12, RowsUntouched DEF PostedUnanswered, Lands, ReplyAnswers, Answers, accountVars, Busy
<1>13. CASE MarkExpired(u)
  BY <1>2, <1>13, MarksExpired DEF MarkExpired, Answers, Busy
<1>14. CASE StillProcessing(u)
  <2>1. up[u].pc = "poll" /\ UNCHANGED <<row, age>> /\ Rows(u)
    BY <1>14, RowsUntouched DEF StillProcessing, accountVars
  <2>2. CASE PollsLeft(u)
    <3> DEFINE m == [up[u] EXCEPT !.polls = (@ + 1) % MaxPolls]
    <3>1. /\ IsUpload(m) /\ up' = [up EXCEPT ![u] = m]
          /\ m.pc = "poll" /\ m.platform = up[u].platform /\ m.loaded = up[u].loaded
      BY <1>0, <1>14, <2>1, <2>2 DEF StillProcessing, UpShape, IsUpload
    <3> HIDE DEF m
    <3>2. UpShape' /\ UpStays(u) /\ up'[u] = m
      BY <1>0, <3>1, UpUpdate DEF UpStays
    <3>3. UpFresh(u)'
      BY <1>0, <2>1, <3>1, <3>2 DEF UpFresh, Busy
    <3> QED
      BY <1>1, <2>1, <3>2, <3>3, UploadKeepsTokens
  <2>3. CASE ~PollsLeft(u)
    BY <1>2, <1>14, <2>1, <2>3 DEF StillProcessing, Answers, Busy
  <2> QED
    BY <2>2, <2>3
<1>15. CASE Extended(u)
  <2> DEFINE m == [up[u] EXCEPT !.pc = "store", !.loaded = row[up[u].platform]]
  <2>1. up[u].pc = "extend" /\ UNCHANGED <<row, age>> /\ Rows(u)
    BY <1>15, RowsUntouched DEF Extended
  <2>2. /\ IsUpload(m) /\ up' = [up EXCEPT ![u] = m]
        /\ m.pc = "store" /\ m.platform = up[u].platform /\ m.loaded = row[up[u].platform]
    BY <1>0, <1>15 DEF Extended, UpShape, IsUpload
  <2> HIDE DEF m
  <2>3. UpShape' /\ UpStays(u) /\ up'[u] = m
    BY <1>0, <2>2, UpUpdate DEF UpStays
  <2>4. UpFresh(u)'
    BY <1>0, <2>1, <2>2, <2>3 DEF UpFresh, RowShape, Busy
  <2> QED
    BY <1>1, <2>1, <2>3, <2>4, UploadKeepsTokens
<1>16. CASE YouTubeRefused(u)
  <2> DEFINE m == [up[u] EXCEPT !.pc = "expire", !.loaded = row["youtube"]]
  <2>1. /\ up[u].pc = "post" /\ up[u].platform = "youtube"
        /\ UNCHANGED <<row, age>> /\ Rows(u)
    BY <1>16, RowsUntouched DEF YouTubeRefused, accountVars
  <2>2. /\ IsUpload(m) /\ up' = [up EXCEPT ![u] = m]
        /\ m.pc = "expire" /\ m.platform = up[u].platform /\ m.loaded = row["youtube"]
    BY <1>0, <1>16 DEF YouTubeRefused, UpShape, IsUpload
  <2> HIDE DEF m
  <2>3. UpShape' /\ UpStays(u) /\ up'[u] = m
    BY <1>0, <2>2, UpUpdate DEF UpStays
  <2>4. UpFresh(u)'
    BY <1>0, <2>1, <2>2, <2>3 DEF UpFresh, RowShape, Busy
  <2> QED
    BY <1>1, <2>1, <2>3, <2>4, UploadKeepsTokens
<1>17. CASE StoreToken(u)
  <2> DEFINE p == up[u].platform
             old == up[u].loaded
             new == StoredToken(u)
             m == [up[u] EXCEPT !.pc = "ready", !.account = new]
  <2>1. up[u].pc = "store" /\ UNCHANGED age /\ Write(p, old, new)
    BY <1>17 DEF StoreToken
  <2>2. p \in Platforms /\ old.status # "none" /\ ~Names(old, u) /\ row[p].status # "none"
    BY <1>0, <2>1 DEF UpFresh, Busy
  <2>3. /\ IsRow(new) /\ new.status = "CONNECTED" /\ new.token = u
        /\ new.expiry = IF age[u] = "undated" THEN old.expiry ELSE u
    BY <1>0, FreshRow DEF StoredToken, IsRow
  <2>4. Rows(u)
    <3> HIDE DEF p, old, new
    <3> QED
      BY <1>0, <2>1, <2>2, <2>3, StoresItsToken
  <2>5. /\ IsUpload(m) /\ up' = [up EXCEPT ![u] = m]
        /\ m.pc = "ready" /\ m.platform = p /\ m.loaded = old
    BY <1>0, <1>17 DEF StoreToken, UpShape, IsUpload
  <2> HIDE DEF m
  <2>6. UpShape' /\ UpStays(u) /\ up'[u] = m
    BY <1>0, <2>5, UpUpdate DEF UpStays
  <2>7. UpFresh(u)'
    BY <1>0, <2>1, <2>2, <2>4, <2>5, <2>6 DEF UpFresh, Busy, Rows
  <2> QED
    BY <1>1, <2>4, <2>6, <2>7, UploadKeepsTokens
<1> QED
  BY <1>3, <1>4, <1>5, <1>6, <1>7, <1>8, <1>9, <1>10, <1>11, <1>12, <1>13, <1>14, <1>15,
     <1>16, <1>17 DEF UploadStep

LEMMA PickAccountTokens ==
  ASSUME TokInv, NEW u \in Uploads, NEW p \in Platforms, PickAccount(u, p)
  PROVE  TokInv'
<1> DEFINE where == IF ~Usable(p, row[p]) THEN "ended"
                    ELSE IF NeedsExtension(p, row[p]) THEN "extend" ELSE "ready"
           m == [up[u] EXCEPT !.platform = p, !.account = row[p], !.pc = where]
<1>1. /\ IsUpload(m) /\ up' = [up EXCEPT ![u] = m]
      /\ m.pc = where /\ m.platform = p /\ m.loaded = up[u].loaded
  BY DEF PickAccount, TokInv, UpShape, IsUpload
<1> HIDE DEF m
<1>2. up[u].pc = "none" /\ UNCHANGED <<cb, row, age>> /\ Rows(u)
  BY RowsUntouched DEF PickAccount, cbVars, accountVars
<1>3. UpShape' /\ UpStays(u) /\ up'[u] = m
  BY <1>1, UpUpdate DEF TokInv, UpStays
<1>4. where # "ended" => row[p].status # "none"
  BY DEF Usable
<1>5. where \in {"ended", "extend", "ready"}
  OBVIOUS
<1> HIDE DEF where
<1>6. UpFresh(u)'
  BY <1>1, <1>2, <1>3, <1>4, <1>5 DEF TokInv, UpFresh, Busy
<1> QED
  BY <1>2, <1>3, <1>6, UploadKeepsTokens

(* Tokens grow old, but none comes to have an expiry or loses it.           *)
LEMMA TokenAgesTokens ==
  ASSUME TokInv, NEW t \in Tokens, TokenAges(t)
  PROVE  TokInv'
<1>1. UNCHANGED <<row, cb, up>>
  BY DEF TokenAges, cbVars, upVars
<1>2. AgeShape' /\ \A x \in Tokens : age'[x] # "undated" => age[x] # "undated"
  BY DEF TokInv, AgeShape, TokenAges
<1>3. \A p \in Platforms : Matched(row[p])'
  BY <1>1, <1>2 DEF TokInv, Matched
<1>4. RowShape' /\ CbShape' /\ UpShape'
  BY <1>1 DEF TokInv, RowShape, CbShape, UpShape
<1>5. \A c \in Callbacks : CbFresh(c)'
  BY <1>1 DEF TokInv, CbFresh
<1>6. \A u \in Uploads : UpFresh(u)'
  BY <1>1 DEF TokInv, UpFresh
<1> QED
  BY <1>2, <1>3, <1>4, <1>5, <1>6 DEF TokInv

LEMMA RestartTokens == TokInv /\ Restart => TokInv'
<1> SUFFICES ASSUME TokInv, Restart PROVE TokInv'
  OBVIOUS
<1> DEFINE GoneCb(c) == IF cb[c].pc \in Ended THEN cb[c] ELSE [cb[c] EXCEPT !.pc = "gone"]
           GoneUp(u) == IF up[u].pc \in {"none", "ended"} THEN up[u]
                        ELSE [up[u] EXCEPT !.pc = "gone"]
<1>1. /\ cb' = [c \in Callbacks |-> GoneCb(c)] /\ up' = [u \in Uploads |-> GoneUp(u)]
      /\ UNCHANGED <<row, age>>
  BY DEF Restart
<1>2. \A c \in Callbacks :
        /\ IsCallback(GoneCb(c)) /\ GoneCb(c).loaded = cb[c].loaded
        /\ GoneCb(c).flow = cb[c].flow
        /\ \/ GoneCb(c).pc = cb[c].pc /\ cb[c].pc \in Ended
           \/ GoneCb(c).pc = "gone" /\ cb[c].pc # "none"
  BY DEF TokInv, CbShape, IsCallback, Ended
<1>3. \A u \in Uploads :
        /\ IsUpload(GoneUp(u)) /\ GoneUp(u).loaded = up[u].loaded
        /\ GoneUp(u).platform = up[u].platform
        /\ GoneUp(u).pc \in {up[u].pc, "gone"}
  BY DEF TokInv, UpShape, IsUpload
<1> HIDE DEF GoneCb, GoneUp
<1>4. /\ \A c \in Callbacks : cb'[c] = GoneCb(c)
      /\ \A u \in Uploads : up'[u] = GoneUp(u)
  BY <1>1
<1>5. CbShape' /\ UpShape' /\ RowShape' /\ AgeShape' /\ \A p \in Platforms : Matched(row[p])'
  BY <1>1, <1>2, <1>3, <1>4 DEF TokInv, CbShape, UpShape, RowShape, AgeShape, Matched
<1>6. \A c \in Callbacks : CbFresh(c)'
  BY <1>1, <1>2, <1>4 DEF TokInv, CbFresh, Ended
<1>7. \A u \in Uploads : UpFresh(u)'
  BY <1>1, <1>3, <1>4 DEF TokInv, UpFresh, Busy
<1> QED
  BY <1>5, <1>6, <1>7 DEF TokInv

LEMMA TokInvStep == TokInv /\ [Next]_vars => TokInv'
<1> SUFFICES ASSUME TokInv, [Next]_vars PROVE TokInv'
  OBVIOUS
<1>1. CASE UNCHANGED <<row, age, cb, up>>
  BY <1>1 DEF TokInv, CbShape, UpShape, RowShape, AgeShape, Matched, CbFresh, UpFresh
<1>2. \A s \in Links, f \in Flows : Connect(s, f) => UNCHANGED <<row, age, cb, up>>
  BY DEF Connect, accountVars, upVars
<1>3. \A s \in Links : LinkAges(s) => UNCHANGED <<row, age, cb, up>>
  BY DEF LinkAges, accountVars, upVars
<1>4. UNCHANGED vars => UNCHANGED <<row, age, cb, up>>
  BY DEF vars
<1> QED
  BY <1>1, <1>2, <1>3, <1>4, CallbackStepTokens, ReadStateTokens, UploadStepTokens,
     PickAccountTokens, TokenAgesTokens, RestartTokens DEF Next

(* A token is stored with its own expiry, for every number of callbacks and *)
(* refreshes that load and commit across each other.                        *)
THEOREM TokenMatchesExpiryHolds == Spec => []TokenMatchesExpiry
<1>1. Init => TokInv
  <2> SUFFICES ASSUME Init PROVE TokInv
    OBVIOUS
  <2> DEFINE m == [pc |-> "none", flow |-> "none", link |-> "none", old |-> FALSE, loaded |-> NoRow]
             w == [pc |-> "none", platform |-> "none", account |-> NoRow, loaded |-> NoRow, polls |-> 0]
  <2>1. IsCallback(m) /\ m.pc = "none" /\ m.loaded = NoRow
    BY DEF IsCallback
  <2>2. IsUpload(w) /\ w.pc = "none" /\ w.loaded = NoRow
    BY DEF IsUpload
  <2>3. /\ cb = [c \in Callbacks |-> m] /\ up = [u \in Uploads |-> w]
        /\ row = [p \in Platforms |-> NoRow] /\ age = [t \in Tokens |-> age[t]]
    BY DEF Init
  <2>4. /\ IsRow(NoRow) /\ NoRow.status = "none"
        /\ \A t \in Tokens : ~Names(NoRow, t)
    BY DEF NoRow, IsRow, Names, Tokens
  <2> HIDE DEF m, w
  <2>5. CbShape /\ UpShape /\ RowShape /\ AgeShape
    BY <2>1, <2>2, <2>3, <2>4 DEF CbShape, UpShape, RowShape, AgeShape
  <2>6. /\ \A p \in Platforms : row[p] = NoRow
        /\ \A c \in Callbacks : cb[c] = m
        /\ \A u \in Uploads : up[u] = w
    BY <2>3
  <2>7. \A c \in Callbacks : CbFresh(c)
    BY <2>1, <2>4, <2>6 DEF CbFresh, Tokens
  <2>8. \A u \in Uploads : UpFresh(u)
    BY <2>2, <2>4, <2>6 DEF UpFresh, Busy, Tokens
  <2> QED
    BY <2>4, <2>5, <2>6, <2>7, <2>8 DEF TokInv, Matched
<1>2. TokInv => TokenMatchesExpiry
  BY DEF TokInv, Matched, TokenMatchesExpiry
<1> QED
  BY <1>1, <1>2, TokInvStep, PTL DEF Spec
=============================================================================
