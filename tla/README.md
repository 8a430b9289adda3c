# TLA+ models of OpenCL-Neural-Network

These modules model the host side of `src/OpenCL-Neural-Network-main`. That host code is a small C++ layer over the OpenCL C API. It provides three things:

- a device context;
- kernels compiled from source files;
- device buffers, with GPU versions of matrix multiply/add/transpose and of six activation functions.

A demo `main` and a `Benchmark` harness use these. The models are checked with TLC. Every definition is translated from the source lines listed under `map` in `PROJECT.json`. Definitions marked `spec_modelled` stand for the kernel sources (`kernels/*.cl`). Those files are not part of the repository, so those definitions follow `spec.md`.

## 1. Inventory of the system

| Part | Code | State | Operations that change state |
|---|---|---|---|
| Device context | `OpenCLContext` (opencl_utils.cpp 7-97) | platform, device, context, queue handles | `selectPlatform`, `selectDevice` (GPU with CPU fallback), `createContext`, `createCommandQueue`, destructor |
| Kernel | `OpenCLKernel` (99-137) | program and kernel handles; the kernel's argument slots | `compileProgram` (create + build, with a build log on failure), `createKernel`, destructor; `clSetKernelArg` on the kernel from the operations |
| Buffer | `OpenCLBuffer` (139-162) | one `cl_mem`, its size | constructor (`clCreateBuffer`), `writeData`/`readData` (blocking), destructor |
| Source loader | `readKernelSource` (164-184) | none (reads files) | tries five paths in order, returns the first one `std::ifstream` opens, else throws |
| Error check | `checkOpenCLError` (186-191) | none | throws `std::runtime_error` on any non-success status |
| Matrix ops | `MatrixOps` (matrix_ops.cpp) | three `unique_ptr<OpenCLKernel>` | `multiplyGPU`, `addGPU`, `transposeGPU`, `setMatrixMultArgs`; the CPU versions are pure |
| Activations | `ActivationFunctions` (fix_activation_functions.cpp) | six kernels | six `xxxGPU` methods with local size 256; the CPU versions are pure |
| Benchmark | `Benchmark` (benchmark.cpp) | a `MatrixOps`, an `ActivationFunctions`, the result rows | the benchmarks append rows; `printResults` sorts and pairs them; `saveResultsToFile` writes CSV |
| Driver | `main` (main.cpp 194-221) | the context, the components of each test | constructs, uses and destroys, in a fixed order; catches every exception and returns 1 |

How the parts interact:

- The components hold a reference to the one context. Every GPU method runs the same sequence:
  1. it constructs its buffers (RAII locals);
  2. it writes the operands with a blocking write;
  3. it sets the kernel's arguments on a `cl_kernel` that is shared by every call;
  4. it enqueues the N-D range without waiting;
  5. it reads the result with a blocking read on the same queue.
- The device runs the queue asynchronously to the host. The queue is in-order because `createCommandQueue` passes only `CL_QUEUE_PROFILING_ENABLE`.
- Any failing call throws. The exception unwinds through the locals (buffers and `unique_ptr`s) up to `main`.

What makes the code hard to test:

- the host and the device interleave;
- argument values stay on the kernel object from one call to the next;
- any of about twenty driver calls can fail, each at a different point of partial construction;
- a C++ constructor that throws never runs its own destructor;
- some work sizes are valid on one device and invalid on another.

## 2. Modules

### `Dispatch.tla`: one GPU operation against the asynchronous queue

State:

| Variable | What it models |
|---|---|
| `hpc` | the host's position in the method |
| `call` | the current call: the kernel, its dims and its plan |
| `step` | the index into the plan |
| `live` | the buffers constructed so far, in construction order |
| `freed` | the buffers already released |
| `mem` | device memory: the symbolic contents of each `cl_mem` |
| `kargs` | the argument slots of every `cl_kernel`. These persist across calls. |
| `queue` | the commands enqueued and not yet executed |
| `result` | what `readData` returned |
| `last` | the outcome of the last call |
| `faults`, `injected` | fault-injection bookkeeping |
| `device` | the device kind: whether it supports non-uniform work-groups, and its maximum work-group size |

A plan (`MultiplyPlan`, `AddPlan`, `TransposePlan`, `ActivationPlan`) is the translation of one method. It records:

- the buffers created and their sizes;
- which buffers are written;
- the positional arguments;
- the global and local size;
- the output buffer.

The host actions are the C++ steps in source order:

- `Call`
- `CreateBuffer`
- `WriteData`/`WriteDone`
- `SetKernelArg`
- `EnqueueNDRangeKernel`
- `ReadData`
- `Return`

The device action `DeviceExecute` runs the head of the queue: `ExecWrite`, `ExecKernel` or `ExecRead`.

Failures:

- Every driver call may fail. `Fails` chooses either the real error condition or an injected one, up to `MaxFaults` injected failures.
- `Raise` models `checkOpenCLError` throwing: `Unwind` destroys the live buffers and the call ends with no result.
- `EnqueueError` holds OpenCL's own rejection rules: an argument that was never set, a local size above the device maximum, and a local size that does not divide the global size when the device requires uniform work-groups.

The six activation methods (`reluGPU` ... `tanhDerivativeGPU`) are identical but for their kernel object, so each is `ActivationPlan` on its own entry of `kargs`; `Activations` says which of them a run exercises.

Data is symbolic. A call carries its host operands (`ins`). `Call` makes a call on fresh operands, the tokens `<<n, j>>` (call n, operand j); `CallWith` lets a composing module pass a vector an earlier call returned. A kernel result records which kernel ran on which tokens and with which dims. This is exactly what the CPU reference `RefResult` (multiplyCPU and the other CPU functions) computes from the same inputs. If an operand is unwritten or the N-D range does not cover the output, the result is `Garbage`.

### `Lifecycle.tla`: construction and destruction across `main`

State:

| Variable | What it models |
|---|---|
| `pc` | the position in `Program`, the straight-line sequence of driver steps `main` performs |
| `stack` | the C++ objects alive, innermost last; each records the handles it owns |
| `pending` | handles created by a constructor that has not finished |
| `live` | the driver handles not yet released |
| `selected` | the device type chosen |
| `status` | `running`, `exit0` or `exit1` |

`Program` is built from `ContextCtor` and `ComponentCtor` (`MatrixOpsCtor`, `ActivationCtor`), the `Use` of the GPU calls, and `Dtor` steps in the reverse order of construction. The actions are the driver calls:

- `SelectPlatform`
- `SelectDevice` (with all four queries and the CPU fallback)
- `CreateContext`
- `CreateCommandQueue`
- `ReadKernelSource`
- `CreateProgram`
- `BuildProgram`
- `CreateKernel`
- `GPUCalls`
- `Destroy`
- `Return`

Any of these can fail, in which case `Throw` takes effect:

- it releases what the fully constructed objects own;
- the handles of a constructor that has not finished stay live, because C++ runs no destructor for a partially constructed object;
- the program exits 1.

### `GpuCall.tla`: the promise of one GPU call

This is the abstract view of an `xxxGPU` method, with the queue, the buffers and the kernel objects hidden:

- `Begin` starts a call;
- `Succeed` returns `Ref(call)`, the CPU reference result;
- `Fail` returns by throwing.

Weak fairness on `Succeed \/ Fail` says that a call always returns; spec section 5 provides no timeout.

`Dispatch` instantiates it as `GC`, with this refinement mapping:

- `busy` is `hpc # "idle"`;
- `current` is `call` without its operands;
- `count` is `calls`;
- `outcome` is `last` without its fault bookkeeping.

`ImplementsGpuCall == GC!Spec` is checked as a temporal property.

### `MatrixCPU.tla`: the loops of `multiplyCPU`

The state is the loop variables `i`, `j`, `k` and `sum`, plus the result vector `C`. There is one action per loop test or body: `RowLoop`, `ColLoop` (which resets `sum`), `DotStep` and `Store`. They use the code's row-major index formulas. Floats become small integers, so the reference `Product` (a RECURSIVE dot product over the row-major decodings) is exact.

### `CompareVectors.tla`: `compareMatrices` / `compareVectors`

The two functions have the same body. The module has three actions:

- `SizeCheck` is the size test and its early return;
- `LoopStep` is one iteration, including the early return;
- `LoopEnd` returns true.

`Exceeds` models `std::abs(a-b) > tol` the way IEEE evaluates it: it is false whenever an operand is NaN (a model value).

### `Benchmark.tla`: the result table and `printResults`

The three benchmark methods append CPU/GPU pairs of rows `[op, impl, size]`; timings are not modelled. `printResults` runs in three steps:

- `PrintResults` starts the summary. `Operations` is the list the first loop builds: each operation at the position of its first row (`FirstRow`);
- `SortSize` is part of the `std::sort` of one operation's rows (`OpResults`). It appends the rows of the smallest size not yet placed to `sorted`, in any order (`EqualSizeOrders`), because an unstable sort may leave equal sizes in any order. Taking one size per step keeps TLC from enumerating every sorted table of eight sizes at once;
- `PrintOperation` fires once `sorted` holds all the operation's rows. It pairs rows `i` and `i+1` with the code's CPU/GPU ternaries (`Lines`), then moves to the next operation;
- `PrintDone` ends the loop.

`Operations` is written with `CHOOSE` rather than as a fold with an accumulator. TLC evaluates `ENABLED` by substituting operator arguments, so a fold that names its accumulator three times costs time exponential in the number of rows, and `MainTests` evaluates `ENABLED` under fairness.

`SaveResultsToFile` is `saveResultsToFile`. Either the stream opens, or it does not. If it opens, the rows are written with no check on any write, so after a failed write (a full disk) the file holds only the first `k` rows of `results_`, and "Results saved to" is printed all the same. If it does not open, and the method returns leaving whatever file was there (`"none"`, or `"earlier"` for a file an earlier run left). `saved` records whether "Results saved to" was printed. The header line and the number formatting are constant text and are not modelled.

### `KernelSource.tla`: the search loop of `readKernelSource`

A path is a sequence of segments. `fs` says what sits at each place the file may be: a regular file, a directory, a file the process may not read, or nothing. `SearchPaths` is the code's vector of five paths, with `Basename` for `substr(find_last_of('/') + 1)`. For the names the callers pass (`kernels/matrix_ops.cl`), the last two paths repeat the first two. `TryPath` is one loop iteration: `Opens` is `is_open()`, true for a file and for a directory (Linux lets `open(2)` open a directory read-only), and the stream of a directory yields the empty string. `Throw` is the final throw. Its message is not modelled.

### `MainTests.tla`: `main`'s test functions on top of `Dispatch`

This module extends `Dispatch` and drives it as `main` does. `MainProgram` is `TestMatrixOperations`, `TestActivationFunctions` and `DemonstrateNeuralNetwork`, then `RunBenchmarks`, in the order `main` calls them. Each of the test functions is a list of statements on the functions' host vectors, of four kinds:

- `Gpu`: a GPU call. `Invoke` starts it with `CallWith` on the current contents of `host`. `Assign` waits until the host is idle again, then stores the returned vector or lets the exception end `main`'s try block. In between, the dispatch steps (`CallStep`, `DeviceStep`) run unchanged.
- `Cpu`: `multiplyCPU`, `reluCPU`, `sigmoidCPU` or `tanhCPU`. `CpuCall` stores the CPU reference term `RefResult`.
- `Compare`: `compareMatrices`/`compareVectors` and the printed verdict. `CompareStep` appends `[name, match]` to `reports`. Two terms match when their canonical forms are equal. `Canon` removes a transpose of a transpose whose dimensions are swapped back.
- `Construct`: a `MatrixOps` or `ActivationFunctions` is constructed. `ConstructStep` gives its kernels fresh argument tables.

`RunBenchmarks` is `runBenchmarks`. It uses `main`'s own arguments, 64..512 step 64, 10^6 and 1000-500-10, through the instance `B == INSTANCE Benchmark WITH ...`. The Benchmark variables are renamed (`bresults`, ...), and so the object lives beside the test state. `BenchStep` is one benchmark method. Its GPU calls are the Dispatch plans repeated by `measureTime`. Either they all return and the rows are appended (`BenchAction`), or one throws and the exception leaves `main`'s try block. A call throws when the device rejects the activation plan on the benchmark's vector size (`BenchRejected`: 10^6 elements, or the 500-element hidden layer, with local size 256), or through a driver fault (`Fails`). `PrintStep` runs `printResults` to its end, and `SaveStep` runs `saveResultsToFile`.

The vectors that `createRandomMatrix` fills (`A`, `B`, `W1`, `W2`, `input`) are leaf terms (`Leaf`), and so is the literal 5-element input of `testActivationFunctions`. The code's `D_CPU` is in fact a second `addGPU` call, and the model keeps it that way.

## 3. Runs

| Run | Config | Expect | What it shows |
|---|---|---|---|
| `dispatch_safety` | `MC_Dispatch.cfg` | pass | See below (about 134k states). |
| `activation_total` | `MC_Dispatch_total.cfg` | violation | See below. |
| `lifecycle_safety` | `MC_Lifecycle.cfg` | pass | See below. |
| `lifecycle_leak` | `MC_Lifecycle_leak.cfg` | violation | See below. |
| `multiply_cpu` | `MC_MatrixCPU.cfg` | pass | See below. |
| `compare_vectors` | `MC_CompareVectors.cfg` | pass | See below. |
| `compare_vectors_nan` | `MC_CompareVectors_nan.cfg` | violation | See below. |
| `benchmark_lines` | `MC_Benchmark.cfg` | pass | See below. |
| `benchmark_pairs` | `MC_Benchmark_pairs.cfg` | violation | See below. |
| `main_tests` | `MC_MainTests.cfg` | pass | See below. |
| `kernel_source` | `MC_KernelSource.cfg` | pass | See below. |
| `kernel_source_dir` | `MC_KernelSource_dir.cfg` | violation | See below. |

**`dispatch_safety`** covers two calls of every operation with one injected fault, on two device kinds. It checks five properties:

- `ResultMatchesCPU`: every successful GPU call returns what the CPU function returns on the same inputs.
- `LaunchUsesOwnBuffers`: every kernel launch binds only buffers of the current call, never a stale `cl_mem` left in the kernel's argument slots by an earlier call.
- `BuffersScopedToCall`: when the host is between calls, every buffer has been released, on the success path and on every exception path.
- `TypeOK`: buffer handles are unique.
- `ImplementsGpuCall`: the dispatch path implements `GpuCall`. Every call returns, although the device runs asynchronously, and a call that returns without an exception returns the CPU result. A device that runs a command only when another is queued behind it, which happens with a missing flush, breaks this property.

**`activation_total`** checks `ActivationGPUTotal`, which says that an activation call with no driver failure succeeds. TLC refutes it:

- With 5 elements (`testActivationFunctions`) and a local size of 256, the enqueue is rejected on OpenCL C 1.x devices.
- With 0 elements, `clCreateBuffer` is rejected.
- With 256 elements on a device whose work-group limit for the kernel is 128, the enqueue is rejected even though non-uniform work-groups are supported. The code never queries `CL_KERNEL_WORK_GROUP_SIZE`.

**`lifecycle_safety`** checks three properties:

- `DeviceSelection`: the device type chosen is the one the spec's preference order gives: the GPU if there is one, otherwise the CPU. This holds unless a query failed.
- `ReleasedAtNormalExit`: a run that returns 0 has released every handle.
- `TypeOK`: every live handle has exactly one owner.

**`lifecycle_leak`** checks `ReleasedAtExit`, which says that every handle is released however `main` exits. TLC refutes it: a failing `createCommandQueue` leaks the context, and a failing build or `createKernel` leaks the program.

**`multiply_cpu`** checks `FilledInOrder` and `TypeOK`. `FilledInOrder` says that at every step the elements before the loop's position hold the reference product and the elements after it still hold 0; when the loops end, the whole result is the product. It runs over all operands up to 2x2 with entries in {0,1,2}. Non-square shapes are included, so a stride mix-up or a missing reset of `sum` shows.

**`compare_vectors`** checks `ReturnsMatch` on vectors of size 0 to 2 over {0,1,2}, with tolerance 1. `ReturnsMatch` says the function returns true exactly when the sizes agree and every pair is within the tolerance. The tolerance value 1 makes the boundary `|a-b| = tol` occur.

**`compare_vectors_nan`** refutes `ReturnsMatch` once NaN is among the values: `[NaN]` compares equal to `[0]`.

**`benchmark_lines`** allows any three benchmark calls with scaled-down arguments. `printResults` and `saveResultsToFile` may be called between the benchmark calls in any order. It checks one property:

- `LinesCompareSameSize`: every printed line pairs rows of the same operation and size, and every row is printed.

**`benchmark_pairs`** refutes `LinesPairCpuWithGpu` once a matrix size is benchmarked twice: one line then holds two CPU rows.

**`main_tests`** runs `main` on both device kinds with one injected fault: the three test functions (twelve GPU calls, three CPU calls and six checks), then `runBenchmarks` with its real arguments. It checks four properties:

- `MainChecksMatch`: every check prints a match, in program order, and all six have been printed when the tests return. This includes the transpose round trip of spec section 8, which needs `A^T` to reach the second call with its dimensions swapped, and the two back-to-back `addGPU` calls on one kernel object. A second transpose applied to `A` instead of `A^T` breaks it.
- `DemoOutputIsForwardPass`: when the tests return normally, `output` is `sigmoid(relu(input x W1) x W2)` as the CPU reference composes it. A ReLU result assigned to the wrong vector breaks it.
- `BenchmarkReportComplete`: when `main` returns normally, the summary holds exactly the lines of `main`'s benchmarks. These are the eight matrix sizes 64..512 in ascending order, then ReLU, Sigmoid and Tanh at 10^6 and the layer at 5*10^6, each line with its CPU and its GPU row. A loop that stops before `maxSize` breaks it.
- `MainTerminates`: `main` always ends, by returning or by throwing. This includes the benchmark loops and the loop of `printResults`.

On the device that requires uniform work-groups, `main` always throws at `reluGPU` on the 5-element input; this is the `activation_total` finding. The matrix checks before it still all match. On the other device, `main` completes unless the fault hits. By the `activation_total` finding, a build without `-cl-std` never gets that device, so `DemoOutputIsForwardPass` and `BenchmarkReportComplete` check the call sequence on a device the real build does not reach. That device only adds behaviour to the model. In both cases a fault inside a benchmark leaves the rows already measured unprinted and unsaved.

**`kernel_source`** tries every mix of readable files, unreadable files and missing files at the three distinct places. It checks `LoadsFirstExistingFile`: the loader returns the first readable file in the order of spec section 4.2, and throws only when there is none. This covers the spec's case of a file present only two directories up.

**`kernel_source_dir`** refutes `LoadsFirstExistingFile` once a directory may sit at a search path: a directory at `kernels/matrix_ops.cl` is opened and yields an empty source, although `../kernels/matrix_ops.cl` exists.

Bounds:

- `MatDims = {1,2}` gives square and non-square multiplies and transposes where the operand order matters (2x1 times 1x2).
- `VecLens = {0,5,256}` covers the empty vector, a length that 256 does not divide, and one it does.
- `MaxCalls = 2` is the smallest bound at which a second call can see the first call's kernel arguments.
- `MaxFaults = 1` places one failure at every step. Two failures in one run add no new code path: the first one ends the call.
- The four platform shapes of `MC_Lifecycle` are every combination of "has a GPU" and "has a CPU". With one fault, every driver call of `main` fails once in some behaviour.
- `benchmark_lines` uses loops over one or two sizes instead of eight. The pairing depends only on how many rows each size has, not on how many sizes there are. `main_tests` runs the real eight sizes once.
- The unstable sort is modelled as any order of equal sizes. libstdc++ sorts ranges of up to 16 elements by insertion sort, which keeps equal elements in order. A reorder therefore needs the longer tables of the real arguments; for example, two calls of the 64..512 loop give 32 rows.

## 4. Fairness

- `Dispatch` and `MainTests` assume weak fairness of the host step and of device execution. A device eventually executes an enqueued command, and the host thread is never descheduled forever.
- `Lifecycle`, `MatrixCPU`, `CompareVectors` and `KernelSource` are single-threaded code, with weak fairness on `Next`.
- `Benchmark` alone has no fairness: the client may stop calling at any time. Inside `MainTests` its steps are host steps, covered by the host's fairness.
- `main`, the dispatch client and the benchmark client all stop: `main` returns, and the clients make only `MaxCalls` or `MaxBenchCalls` calls. The configs of `Dispatch`, `Lifecycle`, `Benchmark`, `MainTests` and `KernelSource` therefore set `CHECK_DEADLOCK FALSE`, because each function or client really stops.
- `MatrixCPU` and `CompareVectors` end in an explicit `Done` step that stutters once the function has returned.

## 5. Not modelled, and the plan

Not modelled:

- The float arithmetic of the CPU functions and of the kernels. `exp`, `tanh` and tolerances are out of TLC's reach. Operands are symbolic instead.
- `printMatrix`/`printVector`/`printDeviceInfo`, which are console output. `createRandomMatrix` is only a source of fresh symbols (`Leaf`).
- The error messages. Spec section 8 says a failed source lookup names every path tried; the code names only the argument, which matches section 4.2's weaker wording.
- `benchmarkMatrixMultiplication` with `step <= 0`, which never ends, and the `offset` argument of `writeData`/`readData`. No caller passes either: the benchmark is called with step 64, and every transfer uses offset 0.
- The clock readings of `measureTime`. The times and speedups are dropped from the rows. Its repetition of the GPU calls is kept only as "all return or one throws" (`BenchStep`).
- The exit status after a failed save. When the CSV does not open, `saveResultsToFile` writes to `cerr` and returns, and `main` exits 0 with an old or missing CSV. Spec sections 7 and 8 say every error is fatal and exits non-zero. The model has the branch (`SaveResultsToFile`, reached by `main_tests` through `SaveStep`). The same method also prints "Results saved to" after writes it never checked (lines 223-229), so a CSV reported saved may hold only the first rows. No passing property can state what the file holds, and no run reports this divergence. No run checks the exit status, because `MainTests` is not composed with `Lifecycle`.
- The kernel files, which are not in the repository.

Plan for the following steps, in order:

1. `MainTests` composed with `Lifecycle`, so that the exit status of `main` after a failed save, and after an exception, can be stated.
2. Each GPU call of a benchmark stepped through `Dispatch` separately, rather than as one step.
