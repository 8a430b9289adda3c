------------------------------ MODULE Lifecycle -----------------------------
(***************************************************************************)
(* Acquisition and release of the OpenCL objects over one run of main     *)
(* (src/main.cpp): OpenCLContext selects a platform and a device and       *)
(* creates the context and the command queue; each MatrixOps and           *)
(* ActivationFunctions reads its kernel file and compiles one OpenCLKernel *)
(* per entry point (program, build, kernel); the GPU calls run; the        *)
(* components and the context go out of scope. Any driver call may fail,  *)
(* and the exception unwinds to the catch in main.                         *)
(*                                                                         *)
(* C++ semantics kept: a constructor that throws runs no destructor of its *)
(* own object, while the members and locals already constructed are       *)
(* destroyed, last constructed first.                                      *)
(***************************************************************************)
EXTENDS Naturals, Sequences, SequencesExt

CONSTANTS
  MatrixEntryPoints,      \* kernels MatrixOps::initializeKernels compiles
  ActivationEntryPoints,  \* kernels ActivationFunctions::initializeKernels compiles
  Platforms,              \* possible device counts of the first platform
  MaxFaults               \* bound: driver calls that fail for the driver's reasons

ASSUME MatrixEntryPoints \in Seq(STRING) /\ ActivationEntryPoints \in Seq(STRING)
ASSUME Platforms \subseteq [gpus : Nat, cpus : Nat]
ASSUME MaxFaults \in Nat

VARIABLES
  pc,         \* index of the next step of main
  status,     \* "running", or the code main returns ("exit0", "exit1")
  stack,      \* fully or partly constructed C++ objects in scope, innermost last
  pending,    \* handles acquired by the constructor now running
  live,       \* handles acquired and not released
  nextId,     \* handle counter
  platform,   \* the device counts of the first platform
  kernelFiles,\* whether readKernelSource finds the .cl files
  selected,   \* the device type selectDevice picked
  faults      \* driver failures injected so far

vars == <<pc, status, stack, pending, live, nextId, platform, kernelFiles,
          selected, faults>>

None == "none"

(***************************************************************************)
(* The steps of main, in order. A component constructor reads its source  *)
(* file and then builds each entry point: clCreateProgramWithSource,      *)
(* clBuildProgram, clCreateKernel. "use" stands for the GPU calls of a    *)
(* test, demonstration or benchmark (module Dispatch).                     *)
(***************************************************************************)
Step(op, obj, k) == [op |-> op, obj |-> obj, k |-> k]

KernelSteps(obj, k) ==
  <<Step("program", obj, k), Step("build", obj, k), Step("createKernel", obj, k)>>

ComponentCtor(obj, entryPoints) ==
  <<Step("source", obj, None)>> \o
  FlattenSeq([i \in DOMAIN entryPoints |-> KernelSteps(obj, entryPoints[i])])

MatrixOpsCtor(obj) == ComponentCtor(obj, MatrixEntryPoints)
ActivationCtor(obj) == ComponentCtor(obj, ActivationEntryPoints)
Use == <<Step("use", None, None)>>
Dtor(obj) == <<Step("destroy", obj, None)>>

ContextCtor ==
  <<Step("platform", "context", None), Step("device", "context", None),
    Step("context", "context", None), Step("queue", "context", None)>>

\* main: the context, then testMatrixOperations, testActivationFunctions,
\* demonstrateNeuralNetwork and runBenchmarks (Benchmark's members), then
\* the end of the try block.
Program ==
  ContextCtor
  \o MatrixOpsCtor("testMatrix") \o Use \o Dtor("testMatrix")
  \o ActivationCtor("testActivation") \o Use \o Dtor("testActivation")
  \o MatrixOpsCtor("demoMatrix") \o ActivationCtor("demoActivation") \o Use
  \o Dtor("demoActivation") \o Dtor("demoMatrix")
  \o MatrixOpsCtor("benchMatrix") \o ActivationCtor("benchActivation") \o Use
  \o Dtor("benchActivation") \o Dtor("benchMatrix")
  \o Dtor("context")

\* The step main is at (a dummy once the try block has ended).
Current == IF pc \in DOMAIN Program THEN Program[pc] ELSE Step("end", None, None)

Handle(kind) == [kind |-> kind, id |-> nextId]
Owned == UNION {stack[i].owns : i \in DOMAIN stack}

\* A driver call fails for the driver's own reasons.
Fault ==
  /\ faults < MaxFaults
  /\ faults' = faults + 1

\* The exception reaches the catch in main: every object on the stack is
\* destroyed and releases what it owns; what the interrupted constructor
\* acquired is owned by nobody and stays live. main returns 1.
Throw ==
  /\ live' = live \ Owned
  /\ stack' = <<>>
  /\ pending' = {}
  /\ status' = "exit1"
  /\ UNCHANGED <<pc, nextId, platform, kernelFiles>>

Advance == pc' = pc + 1 /\ UNCHANGED status

(***************************************************************************)
(* OpenCLContext::OpenCLContext                                            *)
(***************************************************************************)
\* selectPlatform: clGetPlatformIDs for the count, then for the ids.
SelectPlatform ==
  /\ Current.op = "platform"
  /\ \/ /\ Advance
        /\ UNCHANGED <<stack, pending, live, nextId, platform, kernelFiles, faults>>
     \/ Fault /\ Throw
  /\ UNCHANGED selected

\* clGetDeviceIDs on a platform with n devices of the type asked for.
Query(n) == IF n > 0 THEN "ok" ELSE "notfound"

\* Mutant: the device list query does not retry with CL_DEVICE_TYPE_CPU.
SelectDeviceNoCpuRetry ==
  /\ Current.op = "device"
  /\ \E F \in SUBSET (1 .. 4) :
       LET r(i, n) == IF i \in F THEN "fault" ELSE Query(n)
           r1 == r(1, platform.gpus)
           fallback == r1 # "ok"
           r2 == r(2, platform.cpus)
           countFailed == fallback /\ r2 # "ok"
           r3 == r(3, platform.gpus)
           r4 == r(4, platform.cpus)
           made == {1} \cup (IF fallback THEN {2} ELSE {})
                   \cup (IF countFailed THEN {} ELSE {3})
                   \cup (IF countFailed \/ r3 = "ok" THEN {} ELSE {4})
           failed == countFailed \/ r3 # "ok"
           type == IF failed THEN "none" ELSE IF r3 = "ok" THEN "gpu" ELSE "cpu"
       IN /\ F \subseteq made
          /\ faults + Cardinality(F) <= MaxFaults
          /\ faults' = faults + Cardinality(F)
          /\ selected' = [type |-> type, faulted |-> F # {}]
          /\ IF failed
               THEN Throw
               ELSE Advance /\ UNCHANGED <<stack, pending, live, nextId, platform, kernelFiles>>

\* selectDevice: up to four clGetDeviceIDs calls; F is the set of them that
\* fail for the driver's reasons.
SelectDevice ==
  /\ Current.op = "device"
  /\ \E F \in SUBSET (1 .. 4) :
       LET r(i, n) == IF i \in F THEN "fault" ELSE Query(n)
           r1 == r(1, platform.gpus)
           fallback == r1 # "ok"
           r2 == r(2, platform.cpus)
           countFailed == fallback /\ r2 # "ok"
           r3 == r(3, platform.gpus)
           r4 == r(4, platform.cpus)
           made == {1} \cup (IF fallback THEN {2} ELSE {})
                   \cup (IF countFailed THEN {} ELSE {3})
                   \cup (IF countFailed \/ r3 = "ok" THEN {} ELSE {4})
           failed == countFailed \/ (r3 # "ok" /\ r4 # "ok")
           type == IF failed THEN "none" ELSE IF r3 = "ok" THEN "gpu" ELSE "cpu"
       IN /\ F \subseteq made
          /\ faults + Cardinality(F) <= MaxFaults
          /\ faults' = faults + Cardinality(F)
          /\ selected' = [type |-> type, faulted |-> F # {}]
          /\ IF failed
               THEN Throw
               ELSE Advance /\ UNCHANGED <<stack, pending, live, nextId, platform, kernelFiles>>

\* A driver call that creates an object: on success the handle belongs to
\* the constructor now running.
Acquire(kind) ==
  /\ live' = live \cup {Handle(kind)}
  /\ pending' = pending \cup {Handle(kind)}
  /\ nextId' = nextId + 1
  /\ Advance
  /\ UNCHANGED <<stack, platform, kernelFiles, faults>>

\* createContext: clCreateContext for the one selected device.
CreateContext ==
  /\ Current.op = "context"
  /\ \/ Acquire("context")
     \/ Fault /\ Throw
  /\ UNCHANGED selected

\* createCommandQueue; on success the OpenCLContext object is complete and
\* its destructor will release the queue and the context.
CreateCommandQueue ==
  /\ Current.op = "queue"
  /\ \/ /\ live' = live \cup {Handle("queue")}
        /\ stack' = Append(stack, [obj |-> "context", owns |-> pending \cup {Handle("queue")}])
        /\ pending' = {}
        /\ nextId' = nextId + 1
        /\ Advance
        /\ UNCHANGED <<platform, kernelFiles, faults>>
     \/ Fault /\ Throw
  /\ UNCHANGED selected

(***************************************************************************)
(* MatrixOps / ActivationFunctions::initializeKernels and OpenCLKernel    *)
(***************************************************************************)
\* readKernelSource; on success the component's (still empty) unique_ptr
\* members exist and will be destroyed with it.
ReadKernelSource ==
  /\ Current.op = "source"
  /\ \/ /\ kernelFiles
        /\ stack' = Append(stack, [obj |-> Current.obj, owns |-> {}])
        /\ Advance
        /\ UNCHANGED <<pending, live, nextId, platform, kernelFiles, faults>>
     \/ ~kernelFiles /\ Throw /\ UNCHANGED faults
  /\ UNCHANGED selected

\* compileProgram: clCreateProgramWithSource.
CreateProgram ==
  /\ Current.op = "program"
  /\ \/ Acquire("program")
     \/ Fault /\ Throw
  /\ UNCHANGED selected

\* compileProgram: clBuildProgram; on failure the build log is fetched and
\* printed, then checkOpenCLError throws.
BuildProgram ==
  /\ Current.op = "build"
  /\ \/ /\ Advance
        /\ UNCHANGED <<stack, pending, live, nextId, platform, kernelFiles, faults>>
     \/ Fault /\ Throw
  /\ UNCHANGED selected

\* Mutant: the program handle stays with the constructor after the kernel
\* wrapper took it over.
CreateKernelKeepsPending ==
  /\ Current.op = "createKernel"
  /\ \/ /\ live' = live \cup {Handle("kernel")}
        /\ stack' = [stack EXCEPT ![Len(stack)].owns =
                                    @ \cup pending \cup {Handle("kernel")}]
        /\ pending' = pending
        /\ nextId' = nextId + 1
        /\ Advance
        /\ UNCHANGED <<platform, kernelFiles, faults>>
     \/ Fault /\ Throw
  /\ UNCHANGED selected

\* createKernel: clCreateKernel; on success the OpenCLKernel is complete
\* and the component's unique_ptr member owns it.
CreateKernel ==
  /\ Current.op = "createKernel"
  /\ \/ /\ live' = live \cup {Handle("kernel")}
        /\ stack' = [stack EXCEPT ![Len(stack)].owns =
                                    @ \cup pending \cup {Handle("kernel")}]
        /\ pending' = {}
        /\ nextId' = nextId + 1
        /\ Advance
        /\ UNCHANGED <<platform, kernelFiles, faults>>
     \/ Fault /\ Throw
  /\ UNCHANGED selected

\* The GPU calls of a test, the demonstration or the benchmarks.
GPUCalls ==
  /\ Current.op = "use"
  /\ \/ /\ Advance
        /\ UNCHANGED <<stack, pending, live, nextId, platform, kernelFiles, faults>>
     \/ Fault /\ Throw
  /\ UNCHANGED selected

\* Mutant: ~OpenCLKernel releases the kernel but not the program.
DestroyKeepsPrograms ==
  /\ Current.op = "destroy"
  /\ Last(stack).obj = Current.obj
  /\ live' = live \ {h \in Last(stack).owns : h.kind # "program"}
  /\ stack' = Front(stack)
  /\ Advance
  /\ UNCHANGED <<pending, nextId, platform, kernelFiles, selected, faults>>

\* An object goes out of scope: ~MatrixOps / ~ActivationFunctions destroy
\* their OpenCLKernel members (~OpenCLKernel releases kernel and program);
\* ~OpenCLContext releases the queue and the context.
Destroy ==
  /\ Current.op = "destroy"
  /\ Last(stack).obj = Current.obj
  /\ live' = live \ Last(stack).owns
  /\ stack' = Front(stack)
  /\ Advance
  /\ UNCHANGED <<pending, nextId, platform, kernelFiles, selected, faults>>

\* main returns 0 after the try block.
Return ==
  /\ pc = Len(Program) + 1
  /\ status' = "exit0"
  /\ UNCHANGED <<pc, stack, pending, live, nextId, platform, kernelFiles, selected, faults>>

Init ==
  /\ pc = 1
  /\ status = "running"
  /\ stack = <<>>
  /\ pending = {}
  /\ live = {}
  /\ nextId = 1
  /\ platform \in Platforms
  /\ kernelFiles \in BOOLEAN
  /\ selected = [type |-> "unselected", faulted |-> FALSE]
  /\ faults = 0

Next ==
  /\ status = "running"
  /\ \/ SelectPlatform \/ SelectDevice \/ CreateContext \/ CreateCommandQueue
     \/ ReadKernelSource \/ CreateProgram \/ BuildProgram \/ CreateKernel
     \/ GPUCalls \/ Destroy \/ Return

\* main is a single thread that runs to its end.
Spec == Init /\ [][Next]_vars /\ WF_vars(Next)

(***************************************************************************)
(* Properties.                                                             *)
(***************************************************************************)
Kinds == {"context", "queue", "program", "kernel"}

\* Every handle has at most one owner, and what is owned is live.
TypeOK ==
  /\ pc \in 1 .. Len(Program) + 1
  /\ status \in {"running", "exit0", "exit1"}
  /\ \A h \in live : h.kind \in Kinds /\ h.id \in 1 .. nextId - 1
  /\ \A i \in DOMAIN stack : stack[i].owns \subseteq live
  /\ \A i, j \in DOMAIN stack : i # j => stack[i].owns \cap stack[j].owns = {}
  /\ pending \subseteq live /\ pending \cap Owned = {}
  /\ faults \in 0 .. MaxFaults

\* The device selectDevice prefers, from spec section 4.1: a GPU if the
\* platform has one, else a CPU device, else none.
Preferred(p) ==
  IF p.gpus > 0 THEN "gpu" ELSE IF p.cpus > 0 THEN "cpu" ELSE "none"

\* When none of its clGetDeviceIDs calls fails for the driver's reasons,
\* selectDevice picks a GPU whenever the platform has one, falls back to a
\* CPU device when it has none, and fails only when it has neither.
DeviceSelection ==
  selected.type # "unselected" /\ ~selected.faulted => selected.type = Preferred(platform)

\* A run of main that returns 0 has released every context, queue, program
\* and kernel it created.
ReleasedAtNormalExit ==
  status = "exit0" => live = {}

\* Spec section 9: handles are acquired on construction and released
\* deterministically on destruction. Here: whichever way main returns, no
\* handle is left unreleased.
ReleasedAtExit ==
  status # "running" => live = {}
=============================================================================
