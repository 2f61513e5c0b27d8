CONSTANTS
  None = None
  JobIds = {j1}
  k1 = k1
  k2 = k2
  Keys = {k1, k2}
  Clips = {c1, c2, c3}
  ClipsOf <- SomeClips
  MaxConcurrent = 1
  MaxRestarts = 1
  MaxFaults = 1
  Watchers = {w1, w2}
SPECIFICATION FairAutoSpec
INVARIANTS WatcherMissesNothing
PROPERTIES QueuedHasItsFile EveryClipEnds EveryWatcherEnds
CHECK_DEADLOCK FALSE
