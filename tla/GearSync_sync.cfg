SPECIFICATION Spec
CONSTANTS
  g1 = g1 g2 = g2 u1 = u1 u2 = u2
  Gates = {g1, g2}
  Units = {u1, u2}
  None = None
  Tuned = Tuned
  Layouts <- Machines
INVARIANTS OneFollower NoForgottenBoost RotationKnown
