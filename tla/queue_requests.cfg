CONSTANTS
  None = None
  Items <- OneItem
  Workers = {w1, w2}
  Clients = {c1, c2}
  Ops = {"retry", "cancel", "publish_now", "pause", "resume"}
  MaxAttempts = 2
  ClaimLimit = 5
  MaxRequests = 2
  MaxUnknown = 1
  MaxQuota = 0
  MaxCrashes = 0
  MaxDbErrors = 0
SPECIFICATION CountedSpec
SYMMETRY Symmetry
INVARIANTS TypeOK OneHolder 
PROPERTIES PostsArePermitted RestsUntilAsked
