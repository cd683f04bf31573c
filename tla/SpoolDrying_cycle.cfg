SPECIFICATION FairSpec
CONSTANTS
  NumGates = 2
  AssistGates = {0, 1}
  RespoolGates = {0, 1}
  MaxDuty = 1
  MaxBursts = 2
  MaxHeaters = 1
  MaxSteps = 4
INVARIANTS MotorsAccounted AssistAlone HeatersAccounted
PROPERTIES TurnsEnd
CHECK_DEADLOCK FALSE
