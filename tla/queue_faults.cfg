CONSTANTS
  None = None
  Items <- OneItem
  Workers = {w1, w2}
  Clients = {c1}
  Ops = {"retry", "skip", "publish_now", "pause", "resume"}
  MaxAttempts = 2
  ClaimLimit = 5
  MaxRequests = 1
  MaxUnknown = 1
  MaxQuota = 1
  MaxCrashes = 1
  MaxDbErrors = 1
SPECIFICATION Spec
SYMMETRY Symmetry
INVARIANTS PublishedWasPosted InFlightIsHeld RetryIsSafe
PROPERTIES PostsArePermitted
