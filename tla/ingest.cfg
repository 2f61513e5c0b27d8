CONSTANTS
  Ids = {i1, i2}
  Kinds <- AllKinds
  MaxDownloads = 1
  Threads = 1
  MaxRedirects = 1
  MaxUpload = 1
  YtMax = 2
  Quota = 2
  MaxRestarts = 1
SPECIFICATION FairSpec
INVARIANTS TypeOK ToldIsWhole RedirectLimitIsExact OvershootIsBounded
PROPERTIES EveryIngestEnds LeftoversGo
CHECK_DEADLOCK FALSE
