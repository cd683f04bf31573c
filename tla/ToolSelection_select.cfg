SPECIFICATION Spec
CONSTANTS
  NumGates = 3
  Group <- Groups
  UnitTypes <- BothUnits
  EndlessSpool = TRUE
  OnLoad = TRUE
  Recovery = FALSE
  Retry = TRUE
  UserMaps <- ThirdToFirst
  BulkMaps <- ThirdForSecond
INVARIANTS RunoutHandled
PROPERTIES AgreementKept ChangeEndsAsAsked RemapsWithinGroup LoadSpared
VIEW View
