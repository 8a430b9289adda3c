\* main's three test functions: twelve GPU calls on the sizes main uses,
\* at most one driver failure, on either kind of device.
CONSTANTS
  Activations = {"relu", "sigmoid", "tanh"}
  MatDims = {1}
  VecLens = {5}
  Devices <- MC_Devices
  MaxCalls = 12
  MaxFaults = 1
  NoArg = NoArg
  Uninit = Uninit
  Garbage = Garbage
  None = None

SPECIFICATION MainSpec
INVARIANT MainChecksMatch
INVARIANT DemoOutputIsForwardPass
INVARIANT BenchmarkReportComplete
PROPERTY MainTerminates
CHECK_DEADLOCK FALSE
