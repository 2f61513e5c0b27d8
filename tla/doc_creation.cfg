CONSTANTS
  None = None
  Clips <- FourClips
  Rank <- Ranks
  ViralScore <- Scores
  Callers = {a, b}
  PlatformChoices <- Overlapping
  Intervals = {1, 2}
  BlockWarnings = TRUE
  Flagged = {4}
  MaxTime = 1
SPECIFICATION Spec
CHECK_DEADLOCK FALSE
INVARIANTS EveryClipIsQueued
