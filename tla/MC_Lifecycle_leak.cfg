\* Full set of entry points and platforms; one driver failure.
CONSTANTS
  MatrixEntryPoints <- MC_MatrixEntryPoints
  ActivationEntryPoints <- MC_ActivationEntryPoints
  Platforms <- MC_Platforms
  MaxFaults = 1

SPECIFICATION Spec
INVARIANT ReleasedAtExit
CHECK_DEADLOCK FALSE
