SPECIFICATION Spec
CONSTANTS
  p1 = p1
  p2 = p2
  p3 = p3
  b1 = b1
  b2 = b2
  Procs = {p1, p2, p3}
  BuildOf <- MCBuildOf
  Nobody = Nobody
SYMMETRY SameBuild
INVARIANTS
  OneOwner
  LoneLaunchTakesOver
