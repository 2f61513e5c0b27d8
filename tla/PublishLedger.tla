---------------------------- MODULE PublishLedger ----------------------------
(***************************************************************************)
(* What the publishing queue promises about the outside world: a post uses *)
(* up a permit.  An item is queued with one permit.  A request that reopens*)
(* it while it is posted, or about to be, adds one, and so does a post     *)
(* whose success the provider's client does not report.  PublishQueue      *)
(* implements this specification.                                          *)
(***************************************************************************)
EXTENDS Naturals

CONSTANT Items

VARIABLES
  posts,    \* posts of each item on its platform
  permits   \* posts of each item that are accounted for

Init ==
  /\ posts = [i \in Items |-> 0]
  /\ permits = [i \in Items |-> 1]

Post(i) ==
  /\ posts[i] < permits[i]
  /\ posts' = [posts EXCEPT ![i] = @ + 1]
  /\ UNCHANGED permits

(* The post lands and nobody is told: what follows may post again. *)
PostUnacknowledged(i) ==
  /\ posts[i] < permits[i]
  /\ posts' = [posts EXCEPT ![i] = @ + 1]
  /\ permits' = [permits EXCEPT ![i] = @ + 1]

Reopen ==
  /\ \E S \in SUBSET Items :
       permits' = [i \in Items |-> IF i \in S THEN permits[i] + 1 ELSE permits[i]]
  /\ UNCHANGED posts

Next == Reopen \/ \E i \in Items : Post(i) \/ PostUnacknowledged(i)

Spec == Init /\ [][Next]_<<posts, permits>>

(* No item is posted more often than its permits allow.                     *)
WithinPermits == \A i \in Items : posts[i] <= permits[i]
=============================================================================
