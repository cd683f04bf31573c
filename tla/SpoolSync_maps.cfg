SPECIFICATION FairSpec
CONSTANTS
  g0 = g0
  g1 = g1
  s1 = s1
  s2 = s2
  Gates = {g0, g1}
  Spools = {s1, s2}
  Modes = {"push", "pull", "readonly"}
  FreshSpools = FALSE
  Budget = 2
INVARIANTS SettledMapsAgree CacheTrue OneGatePerSpool
PROPERTY Settles
CHECK_DEADLOCK FALSE
