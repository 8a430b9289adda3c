\* reluGPU on the 5-element vector of testActivationFunctions, on the empty
\* vector and on 256 elements, on a device that requires uniform work-groups
\* or one whose work-group limit is below 256; no driver failure.
CONSTANTS
  Activations = {"relu"}
  MatDims = {1}
  VecLens = {0, 5, 256}
  Devices <- MC_RestrictedDevices
  MaxCalls = 1
  MaxFaults = 0
  NoArg = NoArg
  Uninit = Uninit
  Garbage = Garbage
  None = None

SPECIFICATION Spec
INVARIANT ActivationGPUTotal
CHECK_DEADLOCK FALSE
