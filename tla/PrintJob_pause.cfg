SPECIFICATION FairSpec
CONSTANTS
  MaxPending = 1
  MaxRunouts = 1
  MacroPauses = FALSE
  ParkingMoves = TRUE
  AllowForce = FALSE
  AllowBoot = FALSE
INVARIANTS GuardsInPlace
PROPERTIES HandlersResumeOrPause OnlyResumeOrRunoutContinues PausedJobEndsCold ResumeRestores PauseHolds RunoutServed
