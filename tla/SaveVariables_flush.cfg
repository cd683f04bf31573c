SPECIFICATION FairSpec
CONSTANTS
  status = status material = material spool = spool v1 = v1 v2 = v2
  Deleted = Deleted
  Confirmed = Confirmed
  Keys = {status, material, spool}
  Values = {v1, v2}
  Together = {material, spool}
  MaxAttempts = 3
  MaxDepth = 1
  WriteArgs = {TRUE}
  AllowFailures = FALSE
  AllowStops = FALSE
INVARIANTS LandTogether
PROPERTIES FlushServed
