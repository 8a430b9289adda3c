---------------------------- MODULE MC_MainTests ----------------------------
EXTENDS MainTests

\* A GPU with non-uniform work-groups, and one that requires the global size
\* to be a multiple of the local size (OpenCL C 1.x semantics).
MC_Devices ==
  { [nonUniform |-> TRUE,  maxWorkGroup |-> 1024],
    [nonUniform |-> FALSE, maxWorkGroup |-> 256] }
=============================================================================
