-------------------------- MODULE MC_KernelSource --------------------------
EXTENDS KernelSource

\* The name MatrixOps::initializeKernels passes; initializeKernels of
\* ActivationFunctions passes one of the same shape.
MC_Filenames == {<<"kernels", "matrix_ops.cl">>}
=============================================================================
