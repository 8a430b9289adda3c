------------------------------ MODULE Dispatch ------------------------------
(***************************************************************************)
(* The GPU dispatch path of MatrixOps (src/matrix_ops.cpp) and            *)
(* ActivationFunctions (fix_activation_functions.cpp), with the            *)
(* OpenCLBuffer wrapper and checkOpenCLError of src/opencl_utils.cpp.      *)
(*                                                                         *)
(* Two actors run concurrently:                                            *)
(*   - the host thread, which steps through one xxxGPU call at a time:     *)
(*     create the device buffers, write the operands (blocking), bind      *)
(*     every kernel argument, enqueue the N-D range, read the result back  *)
(*     (blocking), return; any non-success status throws, and the C++     *)
(*     destructors release the buffers created so far;                     *)
(*   - the device, which executes the commands of the command queue        *)
(*     created by OpenCLContext::createCommandQueue asynchronously.        *)
(*                                                                         *)
(* The argument table of a cl_kernel persists from one call to the next:  *)
(* each MatrixOps / ActivationFunctions owns one kernel object per entry   *)
(* point and rebinds its arguments on every call.                          *)
(*                                                                         *)
(* Data is abstracted to symbols: a call carries its host operands (ins); *)
(* a fresh operand of call n at position j is Token(n, j); a kernel        *)
(* computes a record of the kernel name, the operands it read and the      *)
(* dimensions it was given, which is what the CPU reference computes from  *)
(* the same call.  A result can be the operand of a later call.            *)
(***************************************************************************)
EXTENDS Naturals, Sequences, SequencesExt

CONSTANTS
  Activations,  \* activation entry points modelled ("relu", "sigmoid", ...)
  MatDims,      \* the row / column counts a matrix operand may have
  VecLens,      \* the lengths of an activation input vector
  Devices,      \* capabilities of the device OpenCLContext may select
  MaxCalls,     \* bound: the xxxGPU calls the client makes
  MaxFaults,    \* bound: driver calls that return a non-success status
  NoArg,        \* an argument slot of a cl_kernel never set
  Uninit,       \* contents of a cl_mem nothing has written
  Garbage,      \* output of a kernel run on unwritten operands or a wrong range
  None          \* no value

ASSUME MatDims \subseteq Nat /\ VecLens \subseteq Nat
ASSUME Devices \subseteq [nonUniform : BOOLEAN, maxWorkGroup : Nat]
ASSUME MaxCalls \in Nat \ {0} /\ MaxFaults \in Nat

VARIABLES
  hpc,       \* the host's position in the current call
  call,      \* the current call: entry point, dimensions, sequence number
  calls,     \* number of calls made so far
  step,      \* operand / argument index within the current phase
  live,      \* OpenCLBuffer objects in scope, in construction order
  nextH,     \* next cl_mem handle the driver hands out
  freed,     \* handles released by ~OpenCLBuffer
  mem,       \* device memory: contents of every cl_mem
  kargs,     \* argument table of every cl_kernel object
  queue,     \* the command queue: enqueued, not yet executed commands
  result,    \* the host vector the blocking read copies into
  faults,    \* driver failures injected so far
  injected,  \* whether the current call met an injected failure
  device,    \* the device OpenCLContext selected
  last       \* the outcome of the most recently finished call

vars == <<hpc, call, calls, step, live, nextH, freed, mem, kargs, queue,
          result, faults, injected, device, last>>

MatrixKernels == {"matrix_multiply", "matrix_add", "matrix_transpose"}
Kernels == MatrixKernels \cup Activations
Handles == 1 .. 3 * MaxCalls
ArgIndex == 0 .. 5
NullLocal == 0

Token(n, j) == <<n, j>>
MemArg(i) == [kind |-> "mem", v |-> i]
IntArg(x) == [kind |-> "int", v |-> x]

(***************************************************************************)
(* The plan of each xxxGPU method: the buffers it constructs (access flag *)
(* and element count), which of them it writes from host operands, the     *)
(* kernel arguments in positional order (MemArg(i) is the i-th buffer), the   *)
(* global and local work sizes, and the buffer it reads back.              *)
(***************************************************************************)
MultiplyPlan(d) ==
  LET rowsA == d[1]  colsA == d[2]  colsB == d[3] IN
  [bufs   |-> << [flags |-> "RO", size |-> rowsA * colsA],
                 [flags |-> "RO", size |-> colsA * colsB],
                 [flags |-> "WO", size |-> rowsA * colsB] >>,
   writes |-> <<1, 2>>,
   args   |-> <<MemArg(1), MemArg(2), MemArg(3), IntArg(rowsA), IntArg(colsA), IntArg(colsB)>>,
   global |-> <<colsB, rowsA>>,
   local  |-> NullLocal,
   out    |-> 3]

AddPlan(d) ==
  LET size == d[1] IN
  [bufs   |-> << [flags |-> "RO", size |-> size],
                 [flags |-> "RO", size |-> size],
                 [flags |-> "WO", size |-> size] >>,
   writes |-> <<1, 2>>,
   args   |-> <<MemArg(1), MemArg(2), MemArg(3), IntArg(size)>>,
   global |-> <<size>>,
   local  |-> NullLocal,
   out    |-> 3]

TransposePlan(d) ==
  LET rows == d[1]  cols == d[2] IN
  [bufs   |-> << [flags |-> "RO", size |-> rows * cols],
                 [flags |-> "WO", size |-> rows * cols] >>,
   writes |-> <<1>>,
   args   |-> <<MemArg(1), MemArg(2), IntArg(rows), IntArg(cols)>>,
   global |-> <<cols, rows>>,
   local  |-> NullLocal,
   out    |-> 2]

\* reluGPU, sigmoidGPU, tanhGPU and the three derivative variants are the
\* same sequence of calls on different kernel objects.
LocalWorkSize == 256
ActivationPlan(d) ==
  LET size == d[1] IN
  [bufs   |-> << [flags |-> "RO", size |-> size],
                 [flags |-> "WO", size |-> size] >>,
   writes |-> <<1>>,
   args   |-> <<MemArg(1), MemArg(2), IntArg(size)>>,
   global |-> <<size>>,
   local  |-> LocalWorkSize,
   out    |-> 2]

Plan(c) ==
  CASE c.k = "matrix_multiply"  -> MultiplyPlan(c.dims)
    [] c.k = "matrix_add"       -> AddPlan(c.dims)
    [] c.k = "matrix_transpose" -> TransposePlan(c.dims)
    [] c.k \in Activations      -> ActivationPlan(c.dims)

\* The kernel objects ActivationFunctions owns, one per GPU method.
ActivationKernels ==
  {"relu", "sigmoid", "tanh", "relu_derivative", "sigmoid_derivative", "tanh_derivative"}
ASSUME Activations \subseteq ActivationKernels

\* The calls of one activation GPU method: a vector of any length.
ActivationCalls(a) == {[k |-> a, dims |-> <<n>>] : n \in VecLens}

\* Each of the six methods is ActivationPlan on its own kernel object.
reluGPU == ActivationCalls("relu")
sigmoidGPU == ActivationCalls("sigmoid")
tanhGPU == ActivationCalls("tanh")
reluDerivativeGPU == ActivationCalls("relu_derivative")
sigmoidDerivativeGPU == ActivationCalls("sigmoid_derivative")
tanhDerivativeGPU == ActivationCalls("tanh_derivative")

\* The calls a client makes: addGPU is called on two rows*cols matrices.
CallInputs ==
       {[k |-> "matrix_multiply", dims |-> d] : d \in MatDims \X MatDims \X MatDims}
  \cup {[k |-> "matrix_add", dims |-> <<r * c>>] : r, c \in MatDims}
  \cup {[k |-> "matrix_transpose", dims |-> <<r, c>>] : r, c \in MatDims}
  \cup {c \in reluGPU \cup sigmoidGPU \cup tanhGPU \cup reluDerivativeGPU
           \cup sigmoidDerivativeGPU \cup tanhDerivativeGPU : c.k \in Activations}

(***************************************************************************)
(* The kernels of kernels/*.cl, which are not in the repository: for each *)
(* entry point, the argument positions it reads operands from, writes its *)
(* result to and takes its dimensions from, and the N-D range that gives   *)
(* one work-item per output element (spec sections 4.4, 4.5 and 6).       *)
(***************************************************************************)
KernelIns(k) == IF k \in {"matrix_multiply", "matrix_add"} THEN <<0, 1>> ELSE <<0>>
KernelOut(k) == IF k \in {"matrix_multiply", "matrix_add"} THEN 2 ELSE 1
KernelDims(k) ==
  CASE k = "matrix_multiply"  -> <<3, 4, 5>>
    [] k = "matrix_add"       -> <<3>>
    [] k = "matrix_transpose" -> <<2, 3>>
    [] k \in Activations      -> <<2>>
KernelRange(k, a) ==
  CASE k = "matrix_multiply"  -> <<a[5].v, a[3].v>>
    [] k = "matrix_add"       -> <<a[3].v>>
    [] k = "matrix_transpose" -> <<a[3].v, a[2].v>>
    [] k \in Activations      -> <<a[2].v>>

\* What the device computes: defined only when every operand buffer has
\* been written and every work-item of the output exists.
KernelResult(k, a, global, m) ==
  LET ins == [i \in DOMAIN KernelIns(k) |-> a[KernelIns(k)[i]]] IN
  IF /\ \A i \in DOMAIN ins : ins[i].kind = "mem" /\ m[ins[i].v] \notin {Uninit, Garbage}
     /\ \A i \in DOMAIN KernelDims(k) : a[KernelDims(k)[i]].kind = "int"
     /\ global = KernelRange(k, a)
  THEN [k    |-> k,
        in   |-> [i \in DOMAIN ins |-> m[ins[i].v]],
        dims |-> [i \in DOMAIN KernelDims(k) |-> a[KernelDims(k)[i]].v]]
  ELSE Garbage

\* What the CPU reference (multiplyCPU, reluCPU, ...) computes for a call.
RefResult(c) == [k |-> c.k, in |-> c.ins, dims |-> c.dims]

\* The operands of a call made on freshly filled host vectors.
FreshInputs(c, no) == [j \in DOMAIN Plan(c).writes |-> Token(no, j)]

(***************************************************************************)
(* The command queue. OpenCLContext::createCommandQueue passes only        *)
(* CL_QUEUE_PROFILING_ENABLE, so the queue is in order: the device runs   *)
(* the oldest command first.                                               *)
(***************************************************************************)
\* Mutant: a queue created with CL_QUEUE_OUT_OF_ORDER_EXEC_MODE_ENABLE.
RunnableOutOfOrder(q) == DOMAIN q

\* Mutant: a command is submitted only once a later one is queued behind it
\* (a blocking call that does not flush the queue).
RunnableOnlyBehind(q) == IF Len(q) < 2 THEN {} ELSE {1}

Runnable(q) == IF q = <<>> THEN {} ELSE {1}

Pending(tag) == \E i \in DOMAIN queue : queue[i].tag = tag

(***************************************************************************)
(* Failure of a driver call. An error the call's arguments determine      *)
(* (err) always fails it; any call may also fail for the driver's own     *)
(* reasons (CL_OUT_OF_RESOURCES, ...), at most MaxFaults times.           *)
(***************************************************************************)
Fails(err) ==
  \/ /\ err
     /\ UNCHANGED <<faults, injected>>
  \/ /\ ~err
     /\ faults < MaxFaults
     /\ faults' = faults + 1
     /\ injected' = TRUE

\* checkOpenCLError throws; the exception leaves the xxxGPU method, whose
\* OpenCLBuffer locals are destroyed and release their cl_mem.
\* Mutant: raw cl_mem handles released only on the return path.
UnwindKeepsBuffers ==
  /\ freed' = freed
  /\ live' = <<>>
  /\ hpc' = "idle"
  /\ last' = [no |-> call.no, k |-> call.k, dims |-> call.dims, ins |-> call.ins,
              ok |-> FALSE, result |-> None, injected |-> injected']

Unwind ==
  /\ freed' = freed \cup Range(live)
  /\ live' = <<>>
  /\ hpc' = "idle"
  /\ last' = [no |-> call.no, k |-> call.k, dims |-> call.dims, ins |-> call.ins,
              ok |-> FALSE, result |-> None, injected |-> injected']

Raise(err) ==
  /\ Fails(err)
  /\ Unwind
  /\ UNCHANGED <<call, calls, step, nextH, mem, kargs, queue, result, device>>

\* clEnqueueNDRangeKernel: CL_INVALID_KERNEL_ARGS for an argument never set;
\* CL_INVALID_WORK_GROUP_SIZE for a local size above the device maximum, or
\* one that does not divide the global size on a device (or OpenCL C
\* version, the build passes no -cl-std) without non-uniform work-groups.
EnqueueError(snapshot, p, dev) ==
  \/ \E i \in DOMAIN snapshot : snapshot[i] = NoArg
  \/ /\ p.local # NullLocal
     /\ \/ p.local > dev.maxWorkGroup
        \/ ~dev.nonUniform /\ \E g \in Range(p.global) : g % p.local # 0

(***************************************************************************)
(* Host actions.                                                           *)
(***************************************************************************)

\* A client invokes multiplyGPU / addGPU / transposeGPU / xxxGPU on the
\* host vectors ins.
CallWith(c, ins) ==
  /\ hpc = "idle"
  /\ calls < MaxCalls
  /\ call' = [k |-> c.k, dims |-> c.dims, no |-> calls + 1, ins |-> ins]
  /\ calls' = calls + 1
  /\ hpc' = "create"
  /\ injected' = FALSE
  /\ result' = None
  /\ UNCHANGED <<step, live, nextH, freed, mem, kargs, queue, faults, device, last>>

Call(c) == CallWith(c, FreshInputs(c, calls + 1))

\* Mutant: the handle counter is not advanced, two buffers share a cl_mem.
CreateBufferReusesHandle ==
  LET p == Plan(call)
      b == p.bufs[Len(live) + 1]
  IN /\ hpc = "create"
     /\ \/ /\ b.size > 0
           /\ live' = Append(live, nextH)
           /\ hpc' = IF Len(live') = Len(p.bufs) THEN "write" ELSE "create"
           /\ step' = 1
           /\ UNCHANGED <<nextH, call, calls, freed, mem, kargs, queue, result,
                          faults, injected, device, last>>
        \/ Raise(b.size = 0)

\* OpenCLBuffer::OpenCLBuffer: clCreateBuffer, CL_INVALID_BUFFER_SIZE for 0.
CreateBuffer ==
  LET p == Plan(call)
      b == p.bufs[Len(live) + 1]
  IN /\ hpc = "create"
     /\ \/ /\ b.size > 0
           /\ live' = Append(live, nextH)
           /\ nextH' = nextH + 1
           /\ hpc' = IF Len(live') = Len(p.bufs) THEN "write" ELSE "create"
           /\ step' = 1
           /\ UNCHANGED <<call, calls, freed, mem, kargs, queue, result, faults,
                          injected, device, last>>
        \/ Raise(b.size = 0)

\* OpenCLBuffer::writeData: a blocking clEnqueueWriteBuffer of the whole
\* buffer (offset 0); the host then waits for the transfer.
WriteData ==
  LET p == Plan(call) IN
  /\ hpc = "write"
  /\ \/ /\ queue' = Append(queue, [op |-> "write", h |-> live[p.writes[step]],
                                  data |-> call.ins[step],
                                  tag |-> <<call.no, "write", step>>])
        /\ hpc' = "writing"
        /\ UNCHANGED <<call, calls, step, live, nextH, freed, mem, kargs, result,
                       faults, injected, device, last>>
     \/ Raise(FALSE)

WriteDone ==
  LET p == Plan(call) IN
  /\ hpc = "writing"
  /\ ~Pending(<<call.no, "write", step>>)
  /\ IF step < Len(p.writes)
       THEN step' = step + 1 /\ hpc' = "write"
       ELSE step' = 0 /\ hpc' = "arg"
  /\ UNCHANGED <<call, calls, live, nextH, freed, mem, kargs, queue, result,
                 faults, injected, device, last>>

\* Mutant: arguments bound once, when the slot is still unset, and kept.
SetKernelArgOnce ==
  LET p == Plan(call)
      a == p.args[step + 1]
      v == IF a.kind = "mem" THEN MemArg(live[a.v]) ELSE a
  IN /\ hpc = "arg"
     /\ \/ /\ kargs' = [kargs EXCEPT ![call.k][step] = IF @ = NoArg THEN v ELSE @]
           /\ step' = step + 1
           /\ hpc' = IF step + 1 = Len(p.args) THEN "enqueue" ELSE "arg"
           /\ UNCHANGED <<call, calls, live, nextH, freed, mem, queue, result,
                          faults, injected, device, last>>
        \/ Raise(FALSE)

\* clSetKernelArg for argument `step`, buffers first, then the dimensions.
SetKernelArg ==
  LET p == Plan(call)
      a == p.args[step + 1]
      v == IF a.kind = "mem" THEN MemArg(live[a.v]) ELSE a
  IN /\ hpc = "arg"
     /\ \/ /\ kargs' = [kargs EXCEPT ![call.k][step] = v]
           /\ step' = step + 1
           /\ hpc' = IF step + 1 = Len(p.args) THEN "enqueue" ELSE "arg"
           /\ UNCHANGED <<call, calls, live, nextH, freed, mem, queue, result,
                          faults, injected, device, last>>
        \/ Raise(FALSE)

\* clEnqueueNDRangeKernel: the device takes the argument values as they are
\* at this moment.
EnqueueNDRangeKernel ==
  LET p == Plan(call)
      snapshot == [i \in 0 .. Len(p.args) - 1 |-> kargs[call.k][i]]
  IN /\ hpc = "enqueue"
     /\ \/ /\ ~EnqueueError(snapshot, p, device)
           /\ queue' = Append(queue, [op |-> "kernel", k |-> call.k,
                                     args |-> snapshot, global |-> p.global,
                                     tag |-> <<call.no, "kernel">>])
           /\ hpc' = "read"
           /\ UNCHANGED <<call, calls, step, live, nextH, freed, mem, kargs,
                          result, faults, injected, device, last>>
        \/ Raise(EnqueueError(snapshot, p, device))

\* OpenCLBuffer::readData on the output buffer: a blocking read.
ReadData ==
  LET p == Plan(call) IN
  /\ hpc = "read"
  /\ \/ /\ queue' = Append(queue, [op |-> "read", h |-> live[p.out],
                                  tag |-> <<call.no, "read">>])
        /\ hpc' = "reading"
        /\ UNCHANGED <<call, calls, step, live, nextH, freed, mem, kargs, result,
                       faults, injected, device, last>>
     \/ Raise(FALSE)

\* The read has completed: the method returns its vector and the buffers
\* go out of scope.
Return ==
  /\ hpc = "reading"
  /\ ~Pending(<<call.no, "read">>)
  /\ freed' = freed \cup Range(live)
  /\ live' = <<>>
  /\ hpc' = "idle"
  /\ last' = [no |-> call.no, k |-> call.k, dims |-> call.dims, ins |-> call.ins,
              ok |-> TRUE, result |-> result, injected |-> injected]
  /\ UNCHANGED <<call, calls, step, nextH, mem, kargs, queue, result, faults,
                 injected, device>>

(***************************************************************************)
(* Device actions: execute a runnable command of the queue.               *)
(***************************************************************************)
ExecWrite(i) ==
  /\ queue[i].op = "write"
  /\ mem' = [mem EXCEPT ![queue[i].h] = queue[i].data]
  /\ UNCHANGED result

ExecKernel(i) ==
  LET c == queue[i]
      o == c.args[KernelOut(c.k)]
  IN /\ c.op = "kernel"
     /\ mem' = IF o.kind = "mem"
                 THEN [mem EXCEPT ![o.v] = KernelResult(c.k, c.args, c.global, mem)]
                 ELSE mem
     /\ UNCHANGED result

ExecRead(i) ==
  /\ queue[i].op = "read"
  /\ result' = mem[queue[i].h]
  /\ UNCHANGED mem

DeviceExecute ==
  \E i \in Runnable(queue) :
    /\ ExecWrite(i) \/ ExecKernel(i) \/ ExecRead(i)
    /\ queue' = RemoveAt(queue, i)
    /\ UNCHANGED <<hpc, call, calls, step, live, nextH, freed, kargs, faults,
                   injected, device, last>>

(***************************************************************************)
(* Specification.                                                          *)
(***************************************************************************)
Init ==
  /\ hpc = "idle"
  /\ call = [k |-> None, dims |-> <<>>, no |-> 0, ins |-> <<>>]
  /\ calls = 0
  /\ step = 0
  /\ live = <<>>
  /\ nextH = 1
  /\ freed = {}
  /\ mem = [h \in Handles |-> Uninit]
  /\ kargs = [k \in Kernels |-> [i \in ArgIndex |-> NoArg]]
  /\ queue = <<>>
  /\ result = None
  /\ faults = 0
  /\ injected = FALSE
  /\ device \in Devices
  /\ last = None

HostStep ==
  \/ CreateBuffer \/ WriteData \/ WriteDone \/ SetKernelArg
  \/ EnqueueNDRangeKernel \/ ReadData \/ Return

Next ==
  \/ \E c \in CallInputs : Call(c)
  \/ HostStep
  \/ DeviceExecute

\* The host thread runs whenever it is not blocked; the driver eventually
\* executes every enqueued command. Clients need not call again.
Spec == Init /\ [][Next]_vars /\ WF_vars(HostStep) /\ WF_vars(DeviceExecute)

(***************************************************************************)
(* Properties.                                                             *)
(***************************************************************************)
Arg == {NoArg} \cup [kind : {"mem"}, v : Handles] \cup [kind : {"int"}, v : Nat]
IsCommand(c) ==
  \/ /\ DOMAIN c = {"op", "h", "data", "tag"}
     /\ c.op = "write" /\ c.h \in Handles /\ c.tag \in Nat \X {"write"} \X Nat
  \/ c \in [op : {"read"}, h : Handles, tag : Nat \X {"read"}]
  \/ /\ DOMAIN c = {"op", "k", "args", "global", "tag"}
     /\ c.op = "kernel" /\ c.k \in Kernels /\ c.global \in Seq(Nat)
     /\ DOMAIN c.args \subseteq ArgIndex /\ \A i \in DOMAIN c.args : c.args[i] \in Arg

TypeOK ==
  /\ hpc \in {"idle", "create", "write", "writing", "arg", "enqueue", "read", "reading"}
  /\ calls \in 0 .. MaxCalls
  /\ live \in Seq(Handles) /\ Len(live) <= 3 /\ IsInjective(live)
  /\ nextH \in 1 .. 3 * MaxCalls + 1
  /\ freed \subseteq 1 .. nextH - 1
  /\ DOMAIN kargs = Kernels
  /\ \A k \in Kernels : DOMAIN kargs[k] = ArgIndex /\ \A i \in ArgIndex : kargs[k][i] \in Arg
  /\ \A i \in DOMAIN queue : IsCommand(queue[i])
  /\ faults \in 0 .. MaxFaults
  /\ device \in Devices

\* Every xxxGPU call that returns hands back what the CPU reference computes
\* from the same operands and dimensions: the operands were on the device
\* before the kernel ran, every argument was bound to this call's buffers
\* and dimensions in the kernel's order, the N-D range covered the output,
\* and the read-back ran after the kernel (spec section 8, CPU == GPU).
ResultMatchesCPU ==
  last # None /\ last.ok => last.result = RefResult(last)

\* A kernel is launched only with buffers the launching call constructed
\* and still holds: no argument left bound to an earlier call's (released)
\* cl_mem in the persistent argument table of the kernel object.
LaunchUsesOwnBuffers ==
  [][ hpc = "enqueue" /\ hpc' = "read" =>
        \A i \in 0 .. Len(Plan(call).args) - 1 :
          kargs[call.k][i] # NoArg /\ kargs[call.k][i].kind = "mem" =>
            kargs[call.k][i].v \in Range(live) ]_vars

\* Buffers are created and destroyed per call, on the return path and on
\* every error path alike: between calls no cl_mem is held.
BuffersScopedToCall ==
  hpc = "idle" => 1 .. nextH - 1 \subseteq freed

\* Spec section 8: for all input vectors reluGPU agrees with reluCPU. Here:
\* an activation call on which the driver injected no failure returns.
ActivationGPUTotal ==
  last # None /\ last.k \in Activations /\ ~last.injected => last.ok

(***************************************************************************)
(* Refinement: the dispatch path implements the promise of GpuCall.  A    *)
(* call is in progress while the host is not idle; the outcome is the     *)
(* last call's record without the fault-injection bookkeeping.            *)
(***************************************************************************)
AbstractOutcome ==
  IF last = None THEN None
  ELSE [no |-> last.no, k |-> last.k, dims |-> last.dims, ok |-> last.ok,
        result |-> last.result]

\* Calls of this module are made on fresh operands.
FreshRef(c) == [k |-> c.k, in |-> FreshInputs(c, c.no), dims |-> c.dims]

GC == INSTANCE GpuCall
        WITH Calls <- CallInputs, Ref <- FreshRef, busy <- hpc # "idle",
             current <- [k |-> call.k, dims |-> call.dims, no |-> call.no],
             count <- calls, outcome <- AbstractOutcome

\* Every xxxGPU call returns, whatever the queue, the device and the driver
\* failures do, and returns the CPU reference result or throws: the host's
\* blocking reads and writes wait only on commands the device will run.
ImplementsGpuCall == GC!Spec
=============================================================================
