\* A client that benchmarks the same matrix size twice.
CONSTANTS
    MatrixRanges <- MC_OverlappingRanges
    VectorSizes = {5}
    LayerShapes <- MC_LayerShapes
    MaxBenchCalls = 2
SPECIFICATION Spec
INVARIANT LinesPairCpuWithGpu
CHECK_DEADLOCK FALSE
