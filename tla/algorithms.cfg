CONSTANTS
  Steps <- SomeSteps
  MaxSteps = 4
  RawClips <- SomeClips
  MaxClips = 2
  Versions = {"absent", "null", "1.0", "2.0"}
  Lengths <- SomeLengths
  Wanted <- SomeWanted
  Starts = {0, 1, 2, 3, 4, 5}
  MaxRows = 2
SPECIFICATION Spec
INVARIANTS ForeignIsFaithful NativeIsCuttable CommandIsSound ReportAgrees
CHECK_DEADLOCK FALSE
