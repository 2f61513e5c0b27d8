CONSTANTS
  None = None
  Items <- OneItem
  Workers = {w1}
  Clients = {c1}
  Ops = {"retry"}
  MaxAttempts = 3
  ClaimLimit = 5
  MaxRequests = 1
  MaxUnknown = 0
  MaxQuota = 0
  MaxCrashes = 0
  MaxDbErrors = 0
SPECIFICATION Spec
PROPERTIES PublishedNeverReverts
