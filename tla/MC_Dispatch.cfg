CONSTANTS
  Activations = {"relu"}
  MatDims = {1, 2}
  VecLens = {0, 5, 256}
  Devices <- MC_Devices
  MaxCalls = 2
  MaxFaults = 1
  NoArg = NoArg
  Uninit = Uninit
  Garbage = Garbage
  None = None

SPECIFICATION Spec
INVARIANT TypeOK
INVARIANT ResultMatchesCPU
INVARIANT BuffersScopedToCall
PROPERTY LaunchUsesOwnBuffers
PROPERTY ImplementsGpuCall
CHECK_DEADLOCK FALSE
