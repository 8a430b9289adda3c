\* Up to three benchmark calls in any order with scaled-down arguments;
\* the two matrix loops cover disjoint sizes, the two vector sizes differ.
CONSTANTS
    MatrixRanges <- MC_MatrixRanges
    VectorSizes = {5, 6}
    LayerShapes <- MC_LayerShapes
    MaxBenchCalls = 3
SPECIFICATION Spec
INVARIANT LinesCompareSameSize
CHECK_DEADLOCK FALSE
