------------------------------ MODULE CostGuard ------------------------------
(***************************************************************************)
(* The capability report (cost_guard.py, get_capabilities) and what the    *)
(* worker and the providers ask for before they send anything.             *)
(*                                                                         *)
(* accounts are the rows of one platform in the order of the table; each   *)
(* has a status, the time of its last update, and a token that the key in  *)
(* use reads or does not and whose expiry is not known, far, within seven  *)
(* days or past; extra holds what the callbacks put there: a page for      *)
(* Facebook, a page and a business account for Instagram, nothing for      *)
(* YouTube.                                                                *)
(***************************************************************************)
EXTENDS Integers, Sequences, FiniteSets

Platforms == {"youtube", "facebook", "instagram"}
Settings == [google : BOOLEAN, meta : BOOLEAN, login : BOOLEAN, url : BOOLEAN]

Ages == {"undated", "far", "soon", "past"}

NoAccount == [status |-> "none", updated |-> 0, extra |-> {}, readable |-> FALSE, age |-> "undated"]

(* What else publish() meets: a clip with a title and its file, and whether *)
(* Meta extends a token when it is asked to.                                *)
Attempts == [titled : BOOLEAN, file : BOOLEAN, extended : BOOLEAN]

(* What the table holds: only YouTube's provider stores another status.     *)
StatusesOf(platform) == IF platform = "youtube" THEN {"CONNECTED", "EXPIRED"} ELSE {"CONNECTED"}

ExtraOf(platform) ==
  CASE platform = "youtube" -> {}
    [] platform = "facebook" -> {"page_id"}
    [] platform = "instagram" -> {"page_id", "ig_business_account_id"}

Configured(platform, settings) ==
  IF platform = "youtube" THEN settings.google ELSE settings.meta /\ settings.login

Needs(platform) == IF platform = "instagram" THEN {"ig_business_account_id"}
                   ELSE IF platform = "facebook" THEN {"page_id"} ELSE {}

(* Mutant: the public address is not asked for. *)
CapabilityWithoutUrl(platform, settings, account) ==
  IF ~ Configured(platform, settings) \/ account.status # "CONNECTED" THEN "NOT_AVAILABLE"
  ELSE IF ~ (Needs(platform) \subseteq account.extra) THEN "CHECK_REQUIRED"
  ELSE "AVAILABLE"

(* youtube_capability, facebook_capability, instagram_capability            *)
Capability(platform, settings, account) ==
  IF ~ Configured(platform, settings) \/ account.status # "CONNECTED" THEN "NOT_AVAILABLE"
  ELSE IF ~ (Needs(platform) \subseteq account.extra) THEN "CHECK_REQUIRED"
  ELSE IF platform = "instagram" /\ ~ settings.url THEN "NOT_AVAILABLE"
  ELSE "AVAILABLE"

(* get_capabilities: the last row of the platform.                          *)
Reported(platform, settings, accounts) ==
  Capability(platform, settings, IF accounts = <<>> THEN NoAccount ELSE accounts[Len(accounts)])

(* _get_connected_account: of the connected ones the newest.                *)
Candidates(accounts) == {n \in DOMAIN accounts : accounts[n].status = "CONNECTED"}
Picked(accounts) ==
  {accounts[n] : n \in {n \in Candidates(accounts) :
                          \A m \in Candidates(accounts) : accounts[m].updated <= accounts[n].updated}}

(* refresh_token_if_needed.  YouTube's credentials are built without an     *)
(* expiry, so they only have to be readable.                                *)
StatusAfterRefresh(platform, account, attempt) ==
  IF platform = "youtube" THEN IF account.readable THEN account.status ELSE "REVOKED"
  ELSE IF account.age \in {"undated", "far"} THEN account.status
  ELSE IF account.readable /\ account.age = "soon" /\ attempt.extended THEN "CONNECTED"
  ELSE "EXPIRED"

(* publish() of the three providers, up to the first request that posts     *)
(* (facebook_provider.py:31-47, instagram_provider.py:42-60 and             *)
(* youtube_provider.py:85-98): each its own questions in this order.        *)
LocalOutcome(platform, settings, account, attempt) ==
  IF platform = "youtube" /\ ~ attempt.titled THEN "PERMANENT"
  ELSE IF StatusAfterRefresh(platform, account, attempt) # "CONNECTED" THEN "AUTH"
  ELSE IF ~ (Needs(platform) \subseteq account.extra) THEN "UNSUPPORTED"
  ELSE IF platform = "instagram" /\ ~ settings.url THEN "UNSUPPORTED"
  ELSE IF ~ account.readable THEN "AUTH"
  ELSE IF platform # "instagram" /\ ~ attempt.file THEN "PERMANENT"
  ELSE "sends"

-----------------------------------------------------------------------------
(* Properties *)

(* What the report does not speak of: the token and the clip.               *)
TokenServes(platform, account, attempt) ==
  /\ account.readable
  /\ platform # "youtube" =>
       account.age # "past" /\ (account.age = "soon" => attempt.extended)

ClipServes(platform, attempt) ==
  /\ platform = "youtube" => attempt.titled
  /\ platform # "instagram" => attempt.file

(* cost_guard.py:11-16 promises a report on whether it is "even worth       *)
(* trying", and that runtime failures surface later.  What is reported      *)
(* AVAILABLE is kept from a post only by the token or by the clip, never by *)
(* the settings or by what the account lacks, though the report looks at    *)
(* the last row of the platform, the worker at the newest connected one and *)
(* the provider asks again in an order of its own; and what is reported     *)
(* otherwise on a configured platform is not posted, unless a row that is   *)
(* not connected stands last and hides one that is (routes_publishing.py    *)
(* :78-80).                                                                 *)
ReportIsWorthTrying(platform, settings, accounts) ==
  /\ Reported(platform, settings, accounts) = "AVAILABLE" =>
       /\ Picked(accounts) # {}
       /\ \A a \in Picked(accounts), attempt \in Attempts :
            LET outcome == LocalOutcome(platform, settings, a, attempt) IN
            /\ outcome # "UNSUPPORTED"
            /\ outcome = "sends" <=> TokenServes(platform, a, attempt) /\ ClipServes(platform, attempt)
  /\ Configured(platform, settings)
       /\ Reported(platform, settings, accounts) # "AVAILABLE"
       /\ (\E a \in Picked(accounts), attempt \in Attempts :
             LocalOutcome(platform, settings, a, attempt) = "sends") =>
       accounts[Len(accounts)].status # "CONNECTED"
  /\ Reported(platform, settings, accounts) # "CHECK_REQUIRED"
=============================================================================
