----------------------------- MODULE MCAutoQueue -----------------------------
(* Small instances of AutoQueue for TLC: a key with all the clips, another  *)
(* with none.                                                               *)
EXTENDS AutoQueue

CONSTANTS k1, k2

SomeClips == [k \in Keys |-> IF k = k1 THEN Clips ELSE {}]
=============================================================================
