-------------------------- MODULE MCQueueCreation --------------------------
(* Small instances of QueueCreation for TLC: four clips, all but the third  *)
(* of one rank; by its score the fourth comes between the others of its     *)
(* rank, and a copyright warning blocks it.                                 *)
EXTENDS QueueCreation

FourClips == 1 .. 4
Ranks  == <<2, 2, 1, 2>>
Scores == <<70, 90, 80, 85>>

(* Repeated submissions and submissions for another platform. *)
Apart == {<<"youtube", "facebook">>, <<"instagram">>}

(* A submission that adds a platform to an earlier one. *)
Overlapping == {<<"youtube">>, <<"youtube", "facebook">>}
=============================================================================
