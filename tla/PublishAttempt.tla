---------------------------- MODULE PublishAttempt ----------------------------
(***************************************************************************)
(* What PublishingProvider.publish promises to the worker (provider.py,    *)
(* states.py): one answer for each attempt and one post at most.  AUTH,    *)
(* QUOTA and UNSUPPORTED, after which the item rests, say that nothing was *)
(* posted; TRANSIENT and PERMANENT do not say that.                        *)
(***************************************************************************)
EXTENDS Naturals

CONSTANT Uploads

VARIABLES outcome, live

ErrorClass == {"AUTH", "QUOTA", "UNSUPPORTED", "TRANSIENT", "PERMANENT"}
Ambiguous == {"TRANSIENT", "PERMANENT"}

Init == outcome = [u \in Uploads |-> "none"] /\ live = [u \in Uploads |-> 0]

Answer(u, what) == outcome[u] = "none" /\ outcome' = [outcome EXCEPT ![u] = what]
Post(u) == live[u] = 0 /\ live' = [live EXCEPT ![u] = 1]

Succeeds(u) == Answer(u, "posted") /\ Post(u)
Refused(u) == (\E e \in ErrorClass : Answer(u, e)) /\ UNCHANGED live
Unanswered(u) == (\E e \in Ambiguous : Answer(u, e)) /\ Post(u)

Next == \E u \in Uploads : Succeeds(u) \/ Refused(u) \/ Unanswered(u)

Spec == Init /\ [][Next]_<<outcome, live>>
=============================================================================
