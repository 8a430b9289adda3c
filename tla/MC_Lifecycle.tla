---------------------------- MODULE MC_Lifecycle ----------------------------
EXTENDS Lifecycle

\* The entry points MatrixOps and ActivationFunctions compile.
MC_MatrixEntryPoints == <<"matrix_multiply", "matrix_add", "matrix_transpose">>
MC_ActivationEntryPoints ==
  <<"relu", "sigmoid", "tanh", "relu_derivative", "sigmoid_derivative",
    "tanh_derivative">>

\* First platforms with a GPU and a CPU device, only a GPU, only a CPU, or
\* no device of either type.
MC_Platforms ==
  { [gpus |-> 1, cpus |-> 1], [gpus |-> 1, cpus |-> 0],
    [gpus |-> 0, cpus |-> 1], [gpus |-> 0, cpus |-> 0] }
=============================================================================
