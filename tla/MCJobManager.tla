---------------------------- MODULE MCJobManager ----------------------------
(* Small instances of JobManager for TLC.                                   *)
EXTENDS JobManager, TLC

AllClips == [k \in Keys |-> Clips]

(* Job ids and clips are interchangeable; used by safety runs only.         *)
Symmetry == Permutations(JobIds) \cup Permutations(Clips)
=============================================================================
