CONSTANTS
  Links = {s1}
  Callbacks = {c1, c2}
  Uploads = {u1}
  MayLackExpiry = {c1, u1}
  MaxPolls = 2
  PublicUrl = TRUE
  EphemeralKey = TRUE
  MaxRestarts = 1
SPECIFICATION FairSpec
INVARIANTS StateIsConsumed TokenMatchesExpiry
PROPERTIES AnswersAreHonest EveryRequestIsAnswered
CHECK_DEADLOCK FALSE
