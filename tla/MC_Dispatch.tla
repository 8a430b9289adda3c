---------------------------- MODULE MC_Dispatch ----------------------------
EXTENDS Dispatch

\* A GPU with non-uniform work-groups, and one that requires the global size
\* to be a multiple of the local size (OpenCL C 1.x semantics).
MC_Devices ==
  { [nonUniform |-> TRUE,  maxWorkGroup |-> 1024],
    [nonUniform |-> FALSE, maxWorkGroup |-> 256] }

\* A device that requires uniform work-groups (OpenCL C 1.x kernels), and
\* one with non-uniform work-groups on which the kernel's work-group limit
\* (CL_KERNEL_WORK_GROUP_SIZE, bounded by CL_DEVICE_MAX_WORK_GROUP_SIZE) is
\* 128.
MC_RestrictedDevices ==
  { [nonUniform |-> FALSE, maxWorkGroup |-> 1024],
    [nonUniform |-> TRUE,  maxWorkGroup |-> 128] }
=============================================================================
