SPECIFICATION Spec
CONSTANTS
  Gates = {0, 1}
  Units = {0, 1}
  UnitOf <- TwoUnits
  BypassUnit = 0
  Fitted <- ArmedSensors
  Autoload = FALSE
  AllowReset = TRUE
  MaxEvents = 1
INVARIANTS ArmedInScope

