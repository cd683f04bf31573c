SPECIFICATION FairSpec
CONSTANTS
  Gates = {0, 1}
  Units = {0}
  UnitOf <- OneUnit
  BypassUnit = 0
  Fitted <- LaneSensors
  Autoload = TRUE
  AllowReset = FALSE
  MaxEvents = 1
PROPERTIES SensorsReopen RunoutWhileMonitored NoInsertWhilePreloading
