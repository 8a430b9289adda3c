CONSTANTS
  MatrixEntryPoints <- MC_MatrixEntryPoints
  ActivationEntryPoints <- MC_ActivationEntryPoints
  Platforms <- MC_Platforms
  MaxFaults = 1

SPECIFICATION Spec
INVARIANT TypeOK
INVARIANT DeviceSelection
INVARIANT ReleasedAtNormalExit
\* main returns: every behaviour ends in a state where status is 0 or 1.
CHECK_DEADLOCK FALSE
