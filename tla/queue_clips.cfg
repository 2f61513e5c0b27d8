CONSTANTS
  None = None
  Items <- TwoClips
  Workers = {w1, w2}
  Clients = {c1}
  Ops = {"pause", "resume"}
  MaxAttempts = 2
  ClaimLimit = 1
  MaxRequests = 2
  MaxUnknown = 0
  MaxQuota = 1
  MaxCrashes = 0
  MaxDbErrors = 0
SPECIFICATION FairSpec
PROPERTIES EventuallySettles
