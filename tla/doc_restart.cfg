CONSTANTS
  None = None
  Items <- OneItem
  Workers = {w1}
  Clients = {c1}
  Ops = {"cancel"}
  MaxAttempts = 3
  ClaimLimit = 5
  MaxRequests = 0
  MaxUnknown = 0
  MaxQuota = 0
  MaxCrashes = 1
  MaxDbErrors = 0
SPECIFICATION FairSpec
PROPERTIES InFlightEnds
