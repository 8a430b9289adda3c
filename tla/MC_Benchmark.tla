---------------------------- MODULE MC_Benchmark ----------------------------
EXTENDS Benchmark

\* benchmarkMatrixMultiplication(64, 512, 64) scaled down: a loop over two
\* sizes, and a second loop over sizes of its own.
MC_MatrixRanges == {<<1, 2, 1>>, <<3, 4, 2>>}

\* A second loop that revisits size 2 of the first.
MC_OverlappingRanges == {<<1, 2, 1>>, <<2, 2, 1>>}

\* benchmarkNeuralLayer(1000, 500, 10) scaled down.
MC_LayerShapes == {<<1, 2, 3>>}
=============================================================================
