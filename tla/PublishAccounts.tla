--------------------------- MODULE PublishAccounts ---------------------------
(***************************************************************************)
(* The connected accounts and those who read and write them: the OAuth     *)
(* callbacks of YouTube and Meta (oauth/), and the uploads of the worker   *)
(* through the three providers, with the refresh of Meta's tokens.         *)
(*                                                                         *)
(* One account for each platform.  A handler that loads a row and assigns  *)
(* to it commits later, in another step, and writes the columns that then  *)
(* differ from what it loaded.  A request to a platform is a step, with    *)
(* every answer the code tells apart.                                      *)
(***************************************************************************)
EXTENDS Naturals, FiniteSets

CONSTANTS
  Links,         \* state tokens of authorization links
  Callbacks,     \* requests to the callback routes; each is a grant of its own
  Uploads,       \* calls of publish() by the worker
  MayLackExpiry, \* tokens that may come without expires_in
  MaxPolls,      \* _MAX_POLL_ATTEMPTS
  PublicUrl,     \* whether PUBLIC_BASE_URL is set
  EphemeralKey,  \* whether TOKEN_ENCRYPTION_KEY is missing
  MaxRestarts    \* bound: restarts of the process

ASSUME PublishAccountsAssumption ==
  /\ MaxPolls \in Nat \ {0} /\ MaxRestarts \in Nat
  /\ {PublicUrl, EphemeralKey} \subseteq BOOLEAN
  /\ Callbacks \cap Uploads = {} /\ MayLackExpiry \subseteq Callbacks \cup Uploads
  /\ "none" \notin Links \cup Callbacks \cup Uploads

Platforms == {"youtube", "facebook", "instagram"}
Flows == {"youtube", "meta"}
ErrorClass == {"AUTH", "QUOTA", "UNSUPPORTED", "TRANSIENT", "PERMANENT"}

(* Every grant and every refresh makes a token, named after who made it.    *)
Tokens == Callbacks \cup Uploads

VARIABLES
  link,      \* oauth_states: the flow and the age of each state token
  cb,        \* a callback: where it is, its flow, its link, the row it loaded
  row,       \* social_accounts
  age,       \* of each token: "far", "soon" (7 days left), "over"; "undated"
  readable,  \* tokens encrypted with the key the process has now
  up,        \* an upload: where it is, its platform, its account, the row it loaded
  outcome,   \* what publish() answered
  live,      \* posts an upload has made
  earlier,   \* history: callbacks that were through with the link when this one came
  restarts

vars == <<link, cb, row, age, readable, up, outcome, live, earlier, restarts>>
accountVars == <<row, age, readable>>
cbVars == <<link, cb, earlier>>
upVars == <<up, outcome, live>>

NoRow == [status |-> "none", token |-> "none", expiry |-> "none"]
ExpiryOf(t) == IF age[t] = "undated" THEN "none" ELSE t
Fresh(t) == [status |-> "CONNECTED", token |-> t, expiry |-> ExpiryOf(t)]

Init ==
  /\ link = [s \in Links |-> [flow |-> "none", age |-> "none"]]
  /\ cb = [c \in Callbacks |->
             [pc |-> "none", flow |-> "none", link |-> "none", old |-> FALSE, loaded |-> NoRow]]
  /\ row = [p \in Platforms |-> NoRow]
  /\ age \in [Tokens -> {"far", "undated"}]
  /\ \A t \in Tokens \ MayLackExpiry : age[t] = "far"
  /\ readable = {}
  /\ up = [u \in Uploads |->
             [pc |-> "none", platform |-> "none", account |-> NoRow, loaded |-> NoRow, polls |-> 0]]
  /\ outcome = [u \in Uploads |-> "none"] /\ live = [u \in Uploads |-> 0]
  /\ earlier = [c \in Callbacks |-> {}]
  /\ restarts = 0

-----------------------------------------------------------------------------
(* The unit of work writes the columns whose value differs from the loaded. *)
Flush(now, loaded, new) ==
  [col \in DOMAIN now |-> IF new[col] = loaded[col] THEN now[col] ELSE new[col]]

(* A row that was missing when it was looked for is inserted; the primary   *)
(* key refuses the second of two inserts.                                   *)
Clashes(p, loaded) == loaded.status = "none" /\ row[p].status # "none"

Write(p, loaded, new) ==
  row' = [row EXCEPT ![p] = IF loaded.status = "none" THEN new ELSE Flush(@, loaded, new)]

-----------------------------------------------------------------------------
(* Authorization links and callbacks. *)
Connect(s, f) ==
  /\ link[s].age = "none"
  /\ link' = [link EXCEPT ![s] = [flow |-> f, age |-> "live"]]
  /\ UNCHANGED <<cb, earlier, accountVars, upVars, restarts>>

LinkAges(s) ==
  /\ link[s].age = "live"
  /\ link' = [link EXCEPT ![s].age = "old"]
  /\ UNCHANGED <<cb, earlier, accountVars, upVars, restarts>>

CbGoes(c, where) == cb' = [cb EXCEPT ![c].pc = where]

Ended == {"none", "refused", "failed", "connected", "gone"}
Accepted(c) == cb[c].pc \notin {"none", "refused", "delete", "gone"}

(* The SELECT of _consume_state, at the start of the request.               *)
ReadState(c, f, s) ==
  /\ cb[c].pc = "none"
  /\ cb' = [cb EXCEPT ![c] =
       [@ EXCEPT !.pc = IF link[s].age \in {"live", "old"} /\ link[s].flow = f
                          THEN "delete" ELSE "refused",
                 !.flow = f, !.link = s, !.old = link[s].age = "old"]]
  /\ earlier' = [earlier EXCEPT ![c] = {d \in Callbacks : Accepted(d) /\ cb[d].link = s}]
  /\ UNCHANGED <<link, accountVars, upVars, restarts>>

AfterDelete(c) == IF cb[c].old THEN "refused" ELSE "exchange"

(* Mutant: only an expired state is deleted. *)
DeleteStateIfOld(c) ==
  /\ cb[c].pc = "delete"
  /\ link' = IF cb[c].old THEN [link EXCEPT ![cb[c].link].age = "gone"] ELSE link
  /\ CbGoes(c, AfterDelete(c))
  /\ UNCHANGED <<earlier, accountVars, upVars, restarts>>

(* Its DELETE, which does not look at the number of rows.                   *)
DeleteState(c) ==
  /\ cb[c].pc = "delete"
  /\ link' = [link EXCEPT ![cb[c].link].age = "gone"]
  /\ CbGoes(c, AfterDelete(c))
  /\ UNCHANGED <<earlier, accountVars, upVars, restarts>>

(* A request fails, there is no page or channel; or, after Facebook was     *)
(* saved, the name of the Instagram account cannot be read.                 *)
CallbackFails(c) ==
  /\ cb[c].pc \in {"exchange", "username"}
  /\ CbGoes(c, "failed")
  /\ UNCHANGED <<link, earlier, accountVars, upVars, restarts>>

Loads(c, p, where) ==
  /\ cb' = [cb EXCEPT ![c].pc = where, ![c].loaded = row[p]]
  /\ readable' = readable \cup {c}
  /\ UNCHANGED <<link, earlier, row, age, upVars, restarts>>

FirstOf(f) == IF f = "meta" THEN "facebook" ELSE f

Granted(c) == cb[c].pc = "exchange" /\ Loads(c, FirstOf(cb[c].flow), "save")

Saves(c, p, next) ==
  /\ IF Clashes(p, cb[c].loaded)
       THEN CbGoes(c, "failed") /\ UNCHANGED row
       ELSE CbGoes(c, next) /\ Write(p, cb[c].loaded, Fresh(c))
  /\ UNCHANGED <<link, earlier, age, readable, upVars, restarts>>

SaveFirst(c) ==
  /\ cb[c].pc = "save"
  /\ Saves(c, FirstOf(cb[c].flow), IF cb[c].flow = "meta" THEN "instagram" ELSE "connected")

(* No permission, no answer, or no professional account: a warning.         *)
InstagramSkipped(c) ==
  /\ cb[c].pc = "instagram"
  /\ CbGoes(c, "connected")
  /\ UNCHANGED <<link, earlier, accountVars, upVars, restarts>>

InstagramFound(c) ==
  /\ cb[c].pc = "instagram"
  /\ CbGoes(c, "username")
  /\ UNCHANGED <<link, earlier, accountVars, upVars, restarts>>

LoadInstagram(c) == cb[c].pc = "username" /\ Loads(c, "instagram", "save_instagram")

SaveInstagram(c) == cb[c].pc = "save_instagram" /\ Saves(c, "instagram", "connected")

-----------------------------------------------------------------------------
(* Uploads. *)
UpGoes(u, where) == up' = [up EXCEPT ![u].pc = where]

(* publish() returns or raises.                                             *)
Answers(u, what) ==
  /\ UpGoes(u, "ended")
  /\ outcome' = [outcome EXCEPT ![u] = what]

(* The start of refresh_meta_account_if_needed.  YouTube's credentials are  *)
(* built without an expiry, so they never count as expired.                 *)
NeedsExtension(p, account) ==
  p # "youtube" /\ account.expiry # "none" /\ age[account.expiry] # "far"

Extendable(account) == account.token \in readable /\ age[account.expiry] = "soon"

Usable(p, account) ==
  account.status = "CONNECTED" /\ (NeedsExtension(p, account) => Extendable(account))

(* _get_connected_account, and what publish() does with it before its first *)
(* request.                                                                 *)
PickAccount(u, p) ==
  /\ up[u].pc = "none"
  /\ up' = [up EXCEPT ![u] =
       [@ EXCEPT !.platform = p, !.account = row[p],
                 !.pc = IF ~Usable(p, row[p]) THEN "ended"
                        ELSE IF NeedsExtension(p, row[p]) THEN "extend" ELSE "ready"]]
  /\ outcome' = IF Usable(p, row[p]) THEN outcome ELSE [outcome EXCEPT ![u] = "AUTH"]
  /\ UNCHANGED <<live, cbVars, accountVars, restarts>>

(* Any failure of the exchange, a timeout too, counts as expired; the row   *)
(* is left as it is.                                                        *)
ExtensionFails(u) ==
  /\ up[u].pc = "extend"
  /\ Answers(u, "AUTH")
  /\ UNCHANGED <<live, cbVars, accountVars, restarts>>

Extended(u) ==
  /\ up[u].pc = "extend"
  /\ up' = [up EXCEPT ![u].pc = "store", ![u].loaded = row[up[u].platform]]
  /\ readable' = readable \cup {u}
  /\ UNCHANGED <<outcome, live, cbVars, row, age, restarts>>

(* Mutant: the new token is stored and its expiry is not. *)
StoredTokenOnly(u) == [Fresh(u) EXCEPT !.expiry = up[u].loaded.expiry]

(* What the refresh assigns: the token, its expiry if it has one, the status. *)
StoredToken(u) ==
  [Fresh(u) EXCEPT !.expiry = IF age[u] = "undated" THEN up[u].loaded.expiry ELSE @]

StoreToken(u) ==
  /\ up[u].pc = "store"
  /\ Write(up[u].platform, up[u].loaded, StoredToken(u))
  /\ up' = [up EXCEPT ![u].pc = "ready", ![u].account = StoredToken(u)]
  /\ UNCHANGED <<outcome, live, cbVars, age, readable, restarts>>

(* What publish() refuses without a request: no public address, a token it  *)
(* cannot decrypt, no file.                                                 *)
LocalRefusals(u) ==
  IF up[u].platform = "instagram" /\ ~PublicUrl THEN {"UNSUPPORTED"}
  ELSE IF up[u].account.token \notin readable THEN {"AUTH"}
  ELSE IF up[u].platform = "instagram" THEN {} ELSE {"PERMANENT"}

RefusedLocally(u) ==
  /\ up[u].pc = "ready"
  /\ \E e \in LocalRefusals(u) : Answers(u, e)
  /\ UNCHANGED <<live, cbVars, accountVars, restarts>>

Sends(u) ==
  /\ up[u].pc = "ready"
  /\ LocalRefusals(u) \subseteq {"PERMANENT"}
  /\ UpGoes(u, IF up[u].platform = "instagram" THEN "container" ELSE "post")
  /\ UNCHANGED <<outcome, live, cbVars, accountVars, restarts>>

(* The answers to a request that classify_graph_error and                   *)
(* _classify_http_error tell apart; the latter reads AUTH or UNSUPPORTED    *)
(* out of the words of a 403.                                               *)
Replies == {"token", "limit", "server", "forbidden", "rejected", "timeout"}

Forbidden(p) == IF p = "youtube" THEN {"AUTH", "UNSUPPORTED"} ELSE {"UNSUPPORTED"}

(* Mutant: an answer 5xx is taken for a rate limit. *)
ClassesOfAsLimit(p) ==
  [token |-> {"AUTH"}, limit |-> {"QUOTA"}, server |-> {"QUOTA"},
   forbidden |-> Forbidden(p), rejected |-> {"PERMANENT"}, timeout |-> {"TRANSIENT"}]

ClassesOf(p) ==
  [token |-> {"AUTH"}, limit |-> {"QUOTA"}, server |-> {"TRANSIENT"},
   forbidden |-> Forbidden(p), rejected |-> {"PERMANENT"}, timeout |-> {"TRANSIENT"}]

ReplyAnswers(u, reply) == \E e \in ClassesOf(up[u].platform)[reply] : Answers(u, e)

RequestFails(u) ==
  /\ up[u].pc \in {"container", "poll", "publish", "post"}
  /\ \E reply \in Replies : ReplyAnswers(u, reply)
  /\ UNCHANGED <<live, cbVars, accountVars, restarts>>

(* Instagram: a container, its state asked for again and again, the post.   *)
ContainerMade(u) ==
  /\ up[u].pc = "container"
  /\ \/ UpGoes(u, "poll") /\ UNCHANGED outcome
     \/ Answers(u, "PERMANENT")
  /\ UNCHANGED <<live, cbVars, accountVars, restarts>>

(* Mutant: polls without end. *)
PollsLeftAlways(u) == TRUE

PollsLeft(u) == up[u].polls + 1 < MaxPolls

StillProcessing(u) ==
  /\ up[u].pc = "poll"
  /\ IF PollsLeft(u)
       THEN up' = [up EXCEPT ![u].polls = (@ + 1) % MaxPolls] /\ UNCHANGED outcome
       ELSE Answers(u, "TRANSIENT")
  /\ UNCHANGED <<live, cbVars, accountVars, restarts>>

Processed(u) ==
  /\ up[u].pc = "poll"
  /\ UpGoes(u, "publish")
  /\ UNCHANGED <<outcome, live, cbVars, accountVars, restarts>>

ProcessingFailed(u) ==
  /\ up[u].pc = "poll"
  /\ Answers(u, "PERMANENT")
  /\ UNCHANGED <<live, cbVars, accountVars, restarts>>

(* The request that posts: media_publish, the upload to Facebook, to YouTube. *)
Lands(u) == up[u].pc \in {"publish", "post"} /\ live' = [live EXCEPT ![u] = @ + 1]

Posted(u) ==
  /\ Lands(u)
  /\ Answers(u, "posted")
  /\ UNCHANGED <<cbVars, accountVars, restarts>>

PostedWithoutId(u) ==
  /\ Lands(u)
  /\ Answers(u, "PERMANENT")
  /\ UNCHANGED <<cbVars, accountVars, restarts>>

(* It landed, but the answer was lost or was an error of the server.        *)
PostedUnanswered(u) ==
  /\ Lands(u)
  /\ \E reply \in {"server", "timeout"} : ReplyAnswers(u, reply)
  /\ UNCHANGED <<cbVars, accountVars, restarts>>

(* YouTube's client refreshes its token inside the upload; Google refuses.  *)
YouTubeRefused(u) ==
  /\ up[u].pc = "post" /\ up[u].platform = "youtube"
  /\ up' = [up EXCEPT ![u].pc = "expire", ![u].loaded = row["youtube"]]
  /\ UNCHANGED <<outcome, live, cbVars, accountVars, restarts>>

MarkExpired(u) ==
  /\ up[u].pc = "expire"
  /\ Write("youtube", up[u].loaded, [up[u].loaded EXCEPT !.status = "EXPIRED"])
  /\ Answers(u, "AUTH")
  /\ UNCHANGED <<live, cbVars, age, readable, restarts>>

-----------------------------------------------------------------------------
(* Time, while a row names the token. *)
TokenAges(t) ==
  /\ \E p \in Platforms \ {"youtube"} : row[p].expiry = t
  /\ age[t] \in {"far", "soon"}
  /\ age' = [age EXCEPT ![t] = IF @ = "far" THEN "soon" ELSE "over"]
  /\ UNCHANGED <<row, readable, cbVars, upVars, restarts>>

Restart ==
  /\ restarts < MaxRestarts
  /\ restarts' = restarts + 1
  /\ readable' = IF EphemeralKey THEN {} ELSE readable
  /\ cb' = [c \in Callbacks |-> IF cb[c].pc \in Ended THEN cb[c] ELSE [cb[c] EXCEPT !.pc = "gone"]]
  /\ up' = [u \in Uploads |->
              IF up[u].pc \in {"none", "ended"} THEN up[u] ELSE [up[u] EXCEPT !.pc = "gone"]]
  /\ UNCHANGED <<link, row, age, outcome, live, earlier>>

CallbackStep(c) ==
  \/ DeleteState(c) \/ CallbackFails(c) \/ Granted(c) \/ SaveFirst(c)
  \/ InstagramSkipped(c) \/ InstagramFound(c) \/ LoadInstagram(c) \/ SaveInstagram(c)

UploadStep(u) ==
  \/ ExtensionFails(u) \/ Extended(u) \/ StoreToken(u)
  \/ RefusedLocally(u) \/ Sends(u) \/ RequestFails(u)
  \/ ContainerMade(u) \/ StillProcessing(u) \/ Processed(u) \/ ProcessingFailed(u)
  \/ Posted(u) \/ PostedWithoutId(u) \/ PostedUnanswered(u)
  \/ YouTubeRefused(u) \/ MarkExpired(u)

Next ==
  \/ \E s \in Links : LinkAges(s) \/ \E f \in Flows : Connect(s, f)
  \/ \E c \in Callbacks : \/ CallbackStep(c)
                          \/ \E f \in Flows, s \in Links : ReadState(c, f, s)
  \/ \E u \in Uploads : UploadStep(u) \/ \E p \in Platforms : PickAccount(u, p)
  \/ \E t \in Tokens : TokenAges(t)
  \/ Restart

Spec == Init /\ [][Next]_vars

(* Requests to Meta have timeouts (meta_base.py:51, facebook_provider.py    *)
(* :56), and the database answers.  YouTube's upload runs in a thread that  *)
(* is awaited without one (youtube_provider.py:115): that it returns, with  *)
(* an answer or an error of the connection, is an assumption.               *)
Fairness ==
  /\ \A c \in Callbacks : WF_vars(CallbackStep(c))
  /\ \A u \in Uploads : WF_vars(UploadStep(u))

FairSpec == Spec /\ Fairness

-----------------------------------------------------------------------------
(* Properties *)

Row == [status : {"none", "CONNECTED", "EXPIRED"},
        token : Tokens \cup {"none"}, expiry : Tokens \cup {"none"}]

(* The values the variables take; a row names tokens once it exists, and    *)
(* nothing but YouTube's ever stops being CONNECTED.                        *)
TypeOK ==
  /\ link \in [Links -> [flow : Flows \cup {"none"}, age : {"none", "live", "old", "gone"}]]
  /\ cb \in [Callbacks -> [pc : {"none", "refused", "delete", "exchange", "save", "instagram",
                                 "username", "save_instagram", "failed", "connected", "gone"},
                           flow : Flows \cup {"none"}, link : Links \cup {"none"},
                           old : BOOLEAN, loaded : Row]]
  /\ row \in [Platforms -> Row]
  /\ age \in [Tokens -> {"far", "soon", "over", "undated"}]
  /\ readable \subseteq Tokens
  /\ up \in [Uploads -> [pc : {"none", "extend", "store", "ready", "container", "poll", "publish",
                               "post", "expire", "ended", "gone"},
                         platform : Platforms \cup {"none"}, account : Row, loaded : Row,
                         polls : 0 .. MaxPolls - 1]]
  /\ outcome \in [Uploads -> ErrorClass \cup {"none", "posted"}]
  /\ live \in [Uploads -> 0 .. 1]
  /\ earlier \in [Callbacks -> SUBSET Callbacks]
  /\ restarts \in 0 .. MaxRestarts
  /\ \A p \in Platforms : row[p].status = "EXPIRED" => p = "youtube"

(* An authorization link connects once: a callback that comes when another  *)
(* one with the same state is through is refused ("a stale/replayed         *)
(* callback link", meta_oauth.py:91).  Two that come together both pass.    *)
StateIsConsumed == \A c \in Callbacks : Accepted(c) => earlier[c] = {}

(* A token that came with an expiry is stored with it and with no other's,  *)
(* however reconnections and refreshes load and commit across each other,   *)
(* each writing only the columns it changed.  (One that came without may    *)
(* keep the expiry of its predecessor, meta_base.py:114.)                   *)
TokenMatchesExpiry ==
  \A p \in Platforms : row[p].status # "none" /\ age[row[p].token] # "undated" =>
    row[p].expiry = row[p].token

(* What publish() answers is what the worker takes it for (PublishAttempt). *)
A == INSTANCE PublishAttempt
AnswersAreHonest == A!Spec

(* No request hangs: each callback ends in a redirect and each upload in an *)
(* answer, unless the process is restarted; Instagram is polled only so     *)
(* often.                                                                   *)
EveryRequestIsAnswered ==
  /\ \A u \in Uploads : up[u].pc # "none" ~> up[u].pc \in {"ended", "gone"}
  /\ \A c \in Callbacks : cb[c].pc # "none" ~> cb[c].pc \in Ended
=============================================================================
