--------------------------- MODULE MCPublishQueue ---------------------------
(* Small instances of PublishQueue for TLC.                                 *)
EXTENDS PublishQueue, TLC

Key(clip, platform) == [job |-> "job", clip |-> clip, platform |-> platform]

OneItem  == {Key("clip1", "youtube")}
TwoClips == {Key("clip1", "youtube"), Key("clip2", "youtube")}

(* Workers and requests are interchangeable; used by safety runs only.      *)
Symmetry == Permutations(Workers) \cup Permutations(Clients)
=============================================================================
