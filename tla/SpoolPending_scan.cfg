SPECIFICATION FairSpec
CONSTANTS
  g0 = g0
  g1 = g1
  t1 = t1
  t2 = t2
  s1 = s1
  s2 = s2
  r0 = r0
  r1 = r1
  Gates = {g0, g1}
  Tags <- MCTags
  Spools <- MCSpools
  Known <- MCKnown
  SpoolOf <- MCSpoolOf
  Readers = {r0, r1}
  Modes = {"off", "push", "pull"}
  MaxRequests = 2
  Budget = 4
INVARIANTS Paired ReadersFollow JustLoadedIgnored
PROPERTY NothingHangs
CHECK_DEADLOCK FALSE
