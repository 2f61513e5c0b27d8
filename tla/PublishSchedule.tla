--------------------------- MODULE PublishSchedule ---------------------------
(***************************************************************************)
(* queue_scheduler.py: which clip is published when.  Times and intervals  *)
(* are natural numbers of one unit.                                        *)
(***************************************************************************)
EXTENDS Naturals, FiniteSets

CONSTANTS
  Clips,      \* the clips of the job, numbered in the order of job.clips
  Rank,       \* [Clips -> Nat]
  ViralScore  \* [Clips -> Nat]

ASSUME ClipsAssumption ==
  /\ Clips \subseteq Nat /\ IsFiniteSet(Clips)
  /\ Rank \in [Clips -> Nat]
  /\ ViralScore \in [Clips -> Nat]

(* Mutant: the score, not the rank, comes first.                            *)
BeforeByScore(c, d) ==
  \/ ViralScore[c] > ViralScore[d]
  \/ ViralScore[c] = ViralScore[d] /\ Rank[c] < Rank[d]
  \/ ViralScore[c] = ViralScore[d] /\ Rank[c] = Rank[d] /\ c < d

(* The sort key (rank, -viral_score); Python's sort keeps equal keys in the *)
(* order of its input.                                                      *)
Before(c, d) ==
  \/ Rank[c] < Rank[d]
  \/ Rank[c] = Rank[d] /\ ViralScore[c] > ViralScore[d]
  \/ Rank[c] = Rank[d] /\ ViralScore[c] = ViralScore[d] /\ c < d

(* How many clips of S come before c; sorted(S)[Position(S, c)] is c.       *)
Position(S, c) == Cardinality({d \in S : Before(d, c)})

OrderClips(S) ==
  [k \in 1 .. Cardinality(S) |-> CHOOSE c \in S : Position(S, c) = k - 1]

AssignSlots(S, start_at, interval) ==
  [c \in S |-> start_at + interval * Position(S, c)]
=============================================================================
