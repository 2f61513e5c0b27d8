CONSTANTS
  None = None
  JobIds = {j1, j2}
  Keys = {k1}
  Clips = {c1, c2}
  ClipsOf <- AllClips
  MaxConcurrent = 1
  MaxRestarts = 1
  MaxFaults = 1
SPECIFICATION Spec
SYMMETRY Symmetry
INVARIANTS TypeOK RunningHasTask EndedIsResolved ReusedIsAtRest MemoryMatchesDisk ProcessesAreAccountedFor
PROPERTIES CancelSticks
CHECK_DEADLOCK FALSE
