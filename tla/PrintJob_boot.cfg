SPECIFICATION Spec
CONSTANTS
  MaxPending = 1
  MaxRunouts = 1
  MacroPauses = TRUE
  ParkingMoves = TRUE
  AllowForce = TRUE
  AllowBoot = TRUE
INVARIANTS HotendGuarded
