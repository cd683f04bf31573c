SPECIFICATION FairSpec
CONSTANTS
  k1 = k1 k2 = k2 v1 = v1
  Deleted = Deleted
  Confirmed = Confirmed
  Keys = {k1, k2}
  Values = {v1}
  Together = {}
  MaxAttempts = 3
  MaxDepth = 2
  WriteArgs = {TRUE, FALSE}
  AllowFailures = TRUE
  AllowStops = TRUE
PROPERTIES ImplementsStore FlushTimerFreed
