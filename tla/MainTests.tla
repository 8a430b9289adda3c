------------------------------ MODULE MainTests ------------------------------
(***************************************************************************)
(* The test functions of src/main.cpp composed with the dispatch path of  *)
(* Dispatch: testMatrixOperations, testActivationFunctions and            *)
(* demonstrateNeuralNetwork, in the order main calls them.  Each function  *)
(* is a list of statements on its local host vectors: a GPU call (one     *)
(* xxxGPU method, stepped through by Dispatch while the device runs the    *)
(* queue), a CPU call (multiplyCPU, reluCPU, ...), a comparison whose      *)
(* verdict is printed, or the construction of a MatrixOps or an           *)
(* ActivationFunctions, whose kernel objects start with no argument set.  *)
(* An exception of any GPU call leaves main's try block.                  *)
(*                                                                         *)
(* Host data is symbolic: a vector createRandomMatrix fills, or the       *)
(* literal input of testActivationFunctions, is a leaf term; a CPU or GPU  *)
(* result is the term of its kernel, operands and dimensions (RefResult). *)
(* The failure of a constructor is modelled in Lifecycle, the printing of *)
(* the vectors not at all.                                                  *)
(***************************************************************************)
EXTENDS Dispatch

VARIABLES
  stage,    \* index of the statement main is at
  phase,    \* "call", "wait" for a GPU call to return, "done" or "threw"
  host,     \* the host vectors of the test functions
  reports,  \* the verdicts printed so far: [name, match]
  bresults, bcalls, bprinted, bshown, bpc, bopIndex, bsorted, csv, saved
            \* the Benchmark object of runBenchmarks (module Benchmark)

benchVars == <<bresults, bcalls, bprinted, bshown, bpc, bopIndex, bsorted, csv, saved>>
testVars == <<vars, stage, phase, host, reports, benchVars>>

\* runBenchmarks' Benchmark, called with the arguments main.cpp passes.
B == INSTANCE Benchmark
       WITH results <- bresults, calls <- bcalls, printed <- bprinted,
            shown <- bshown, pc <- bpc, opIndex <- bopIndex, sorted <- bsorted,
            MatrixRanges <- {<<64, 512, 64>>}, VectorSizes <- {1000000},
            LayerShapes <- {<<1000, 500, 10>>}, MaxBenchCalls <- 3

\* A host vector with values of its own: createRandomMatrix output or a
\* literal initialiser.
Leaf(name) == [k |-> "host", in |-> <<>>, dims |-> <<name>>]

Gpu(k, dims, args, dst) == [op |-> "gpu", k |-> k, dims |-> dims, args |-> args, dst |-> dst]
Cpu(k, dims, args, dst) == [op |-> "cpu", k |-> k, dims |-> dims, args |-> args, dst |-> dst]
Compare(x, y, name) == [op |-> "compare", args |-> <<x, y>>, name |-> name]
Construct(kernels) == [op |-> "construct", kernels |-> kernels]

\* rows = cols = 4; A and B from createRandomMatrix.
TestMatrixOperations ==
  << Construct(MatrixKernels),
     Cpu("matrix_multiply", <<4, 4, 4>>, <<"A", "B">>, "C_CPU"),
     Gpu("matrix_multiply", <<4, 4, 4>>, <<"A", "B">>, "C_GPU"),
     Compare("C_CPU", "C_GPU", "Matrix multiplication"),
     Gpu("matrix_add", <<16>>, <<"A", "A">>, "D_CPU"),
     Gpu("matrix_add", <<16>>, <<"A", "A">>, "D_GPU"),
     Compare("D_CPU", "D_GPU", "Matrix addition"),
     Gpu("matrix_transpose", <<4, 4>>, <<"A">>, "E_GPU"),
     Gpu("matrix_transpose", <<4, 4>>, <<"E_GPU">>, "F_GPU"),
     Compare("A", "F_GPU", "Matrix transpose") >>

\* Each activation on the literal five-element input, CPU against GPU.
ActivationCheck(k) ==
  << Cpu(k, <<5>>, <<"input5">>, "cpu_" \o k),
     Gpu(k, <<5>>, <<"input5">>, "gpu_" \o k),
     Compare("cpu_" \o k, "gpu_" \o k, k) >>

TestActivationFunctions ==
  <<Construct(ActivationKernels)>>
  \o ActivationCheck("relu") \o ActivationCheck("sigmoid") \o ActivationCheck("tanh")

\* Mutant: the ReLU result is assigned to output, not to hidden.
DemonstrateNeuralNetworkLosesRelu ==
  << Construct(MatrixKernels), Construct(ActivationKernels),
     Gpu("matrix_multiply", <<1, 3, 4>>, <<"input", "W1">>, "hidden"),
     Gpu("relu", <<4>>, <<"hidden">>, "output"),
     Gpu("matrix_multiply", <<1, 4, 2>>, <<"hidden", "W2">>, "output"),
     Gpu("sigmoid", <<2>>, <<"output">>, "output") >>

\* A 3 -> 4 -> 2 forward pass; each call reads what the previous returned.
DemonstrateNeuralNetwork ==
  << Construct(MatrixKernels), Construct(ActivationKernels),
     Gpu("matrix_multiply", <<1, 3, 4>>, <<"input", "W1">>, "hidden"),
     Gpu("relu", <<4>>, <<"hidden">>, "hidden"),
     Gpu("matrix_multiply", <<1, 4, 2>>, <<"hidden", "W2">>, "output"),
     Gpu("sigmoid", <<2>>, <<"output">>, "output") >>

\* runBenchmarks: the three benchmarks, the summary, the CSV.
Bench(kind, arg) == [op |-> "bench", kind |-> kind, arg |-> arg]
RunBenchmarks ==
  << Bench("matrix", <<64, 512, 64>>), Bench("activation", 1000000),
     Bench("layer", <<1000, 500, 10>>), [op |-> "print"], [op |-> "save"] >>

\* Mutant: the second transpose is applied to A instead of A^T.
MainProgramTransposesA ==
  SubSeq(TestMatrixOperations, 1, 8)
  \o <<Gpu("matrix_transpose", <<4, 4>>, <<"A">>, "F_GPU"), TestMatrixOperations[10]>>
  \o TestActivationFunctions \o DemonstrateNeuralNetwork \o RunBenchmarks

\* main: the three test functions, then runBenchmarks.
MainProgram ==
  TestMatrixOperations \o TestActivationFunctions \o DemonstrateNeuralNetwork
  \o RunBenchmarks

Random == {"A", "B", "input5", "input", "W1", "W2"}
HostVectors ==
  Random \cup {MainProgram[i].dst : i \in {i \in DOMAIN MainProgram :
                                             MainProgram[i].op \in {"gpu", "cpu"}}}

Operands(s) == [j \in DOMAIN s.args |-> host[s.args[j]]]
Stmt == MainProgram[stage]
Advance ==
  /\ stage' = stage + 1
  /\ phase' = IF stage = Len(MainProgram) THEN "done" ELSE "call"

\* The next statement is a GPU call on the current host vectors.
Invoke ==
  /\ phase = "call" /\ Stmt.op = "gpu"
  /\ CallWith(Stmt, Operands(Stmt))
  /\ phase' = "wait"
  /\ UNCHANGED <<stage, host, reports, benchVars>>

\* The call has returned: assign its vector, or let the exception through.
Assign ==
  /\ phase = "wait"
  /\ hpc = "idle"
  /\ \/ last.ok /\ host' = [host EXCEPT ![Stmt.dst] = last.result] /\ Advance
     \/ ~last.ok /\ phase' = "threw" /\ UNCHANGED <<host, stage>>
  /\ UNCHANGED <<vars, reports, benchVars>>

\* multiplyCPU, reluCPU, sigmoidCPU, tanhCPU: the reference on the host.
CpuCall ==
  /\ phase = "call" /\ Stmt.op = "cpu"
  /\ host' = [host EXCEPT ![Stmt.dst] =
                RefResult([k |-> Stmt.k, ins |-> Operands(Stmt), dims |-> Stmt.dims])]
  /\ Advance
  /\ UNCHANGED <<vars, reports, benchVars>>

\* A transpose of a transpose with the dimensions swapped back is its
\* operand: the element at (i, j) returns to (i, j).
RECURSIVE Canon(_)
Canon(t) ==
  IF t \in {Garbage, None, Uninit} THEN t
  ELSE IF /\ t.k = "matrix_transpose"
          /\ t.in[1] \notin {Garbage, None, Uninit}
          /\ t.in[1].k = "matrix_transpose"
          /\ t.in[1].dims = <<t.dims[2], t.dims[1]>>
       THEN Canon(t.in[1].in[1])
       ELSE [t EXCEPT !.in = [j \in DOMAIN t.in |-> Canon(t.in[j])]]

\* compareMatrices / compareVectors (module CompareVectors) and the verdict
\* printed: vectors of equal terms match, element by element.
CompareStep ==
  /\ phase = "call" /\ Stmt.op = "compare"
  /\ reports' = Append(reports, [name |-> Stmt.name,
                                 match |-> Canon(host[Stmt.args[1]]) = Canon(host[Stmt.args[2]])])
  /\ Advance
  /\ UNCHANGED <<vars, host, benchVars>>

\* A MatrixOps or ActivationFunctions is constructed: new kernel objects.
ConstructStep ==
  /\ phase = "call" /\ Stmt.op = "construct"
  /\ kargs' = [k \in DOMAIN kargs |->
                 IF k \in Stmt.kernels THEN [i \in ArgIndex |-> NoArg] ELSE kargs[k]]
  /\ Advance
  /\ UNCHANGED <<hpc, call, calls, step, live, nextH, freed, mem, queue, result,
                 faults, injected, device, last, host, reports, benchVars>>

(***************************************************************************)
(* runBenchmarks.  A benchmark method is one step here: its GPU calls     *)
(* (multiplyGPU, reluGPU, sigmoidGPU, tanhGPU) are the plans of Dispatch  *)
(* repeated by measureTime, and either all return, and the rows are        *)
(* appended, or one throws and the exception leaves main's try block.     *)
(* One throws when the device rejects its N-D range (the activation plans *)
(* on the vector sizes of the benchmark) or for the driver's reasons.     *)
(***************************************************************************)
ActivationRejected(n) == EnqueueError(<<>>, ActivationPlan(<<n>>), device)
BenchRejected(s) ==
  CASE s.kind = "matrix"     -> FALSE
    [] s.kind = "activation" -> ActivationRejected(s.arg)
    [] s.kind = "layer"      -> ActivationRejected(s.arg[2]) \/ ActivationRejected(s.arg[3])

BenchAction(s) ==
  CASE s.kind = "matrix"     -> B!BenchmarkMatrixMultiplication(s.arg)
    [] s.kind = "activation" -> B!BenchmarkActivationFunctions(s.arg)
    [] s.kind = "layer"      -> B!BenchmarkNeuralLayer(s.arg)

BenchStep ==
  /\ phase = "call" /\ Stmt.op = "bench"
  /\ \/ /\ ~BenchRejected(Stmt) /\ BenchAction(Stmt) /\ Advance
        /\ UNCHANGED vars
     \/ /\ Fails(BenchRejected(Stmt)) /\ phase' = "threw"
        /\ UNCHANGED <<hpc, call, calls, step, live, nextH, freed, mem, kargs, queue,
                       result, device, last, stage, benchVars>>
  /\ UNCHANGED <<host, reports>>

\* printResults: its loop over the operations runs to its end.
PrintStep ==
  /\ \/ phase = "call" /\ Stmt.op = "print" /\ B!PrintResults /\ phase' = "printing"
        /\ UNCHANGED stage
     \/ phase = "printing" /\ (B!SortSize \/ B!PrintOperation) /\ UNCHANGED <<stage, phase>>
     \/ phase = "printing" /\ B!PrintDone /\ Advance
  /\ UNCHANGED <<vars, host, reports>>

SaveStep ==
  /\ phase = "call" /\ Stmt.op = "save"
  /\ B!SaveResultsToFile
  /\ Advance
  /\ UNCHANGED <<vars, host, reports>>

MainInit ==
  /\ Init
  /\ stage = 1
  /\ phase = "call"
  /\ host = [v \in HostVectors |-> IF v \in Random THEN Leaf(v) ELSE None]
  /\ reports = <<>>
  /\ B!Init

\* Steps of the GPU call in progress, which leave the test state alone.
CallStep == HostStep /\ UNCHANGED <<stage, phase, host, reports, benchVars>>
DeviceStep == DeviceExecute /\ UNCHANGED <<stage, phase, host, reports, benchVars>>

HostThread ==
  \/ Invoke \/ Assign \/ CpuCall \/ CompareStep \/ ConstructStep \/ CallStep
  \/ BenchStep \/ PrintStep \/ SaveStep
MainNext == HostThread \/ DeviceStep

\* The host thread runs main to its end; the device runs the queue.
MainSpec ==
  MainInit /\ [][MainNext]_testVars /\ WF_testVars(HostThread) /\ WF_testVars(DeviceStep)

-----------------------------------------------------------------------------
\* The comparisons main makes, in order.
Checks == SelectSeq(MainProgram, LAMBDA s : s.op = "compare")

(* Every "CPU and GPU results match" check of testMatrixOperations and    *)
(* testActivationFunctions prints a match, and when main's tests return    *)
(* all of them have been printed, in program order.  Among them the        *)
(* transpose round trip of spec section 8, which holds only if the first  *)
(* result reaches the second call with the dimensions swapped, and the    *)
(* two addGPU calls, which rebind the arguments of one kernel object.      *)
MainChecksMatch ==
  /\ \A i \in DOMAIN reports : reports[i].match
  /\ \A i \in DOMAIN reports : reports[i].name = Checks[i].name
  /\ phase = "done" => Len(reports) = Len(Checks)

\* sigmoid(relu(input x W1) x W2), as the CPU methods would compute it.
Layer(k, ins, dims) == RefResult([k |-> k, ins |-> ins, dims |-> dims])
Forward ==
  Layer("sigmoid",
        << Layer("matrix_multiply",
                 << Layer("relu", << Layer("matrix_multiply", <<Leaf("input"), Leaf("W1")>>, <<1, 3, 4>>) >>, <<4>>),
                    Leaf("W2") >>,
                 <<1, 4, 2>>) >>,
        <<2>>)

(* When demonstrateNeuralNetwork returns normally, its output vector is    *)
(* the forward pass the CPU reference computes: each GPU call read the     *)
(* vector the previous one returned, through fresh buffers and the kernel *)
(* objects' rebound arguments, and each result was assigned where the      *)
(* next statement reads it.                                                 *)
DemoOutputIsForwardPass ==
  phase = "done" => host["output"] = Forward

\* What runBenchmarks should print: one line per measured size, the sizes of
\* each operation ascending, the operations in the order first measured.
SummaryLine(op, size) ==
  [op |-> op, cpu |-> B!BenchmarkResult(op, "CPU", size),
              gpu |-> B!BenchmarkResult(op, "GPU", size)]
ExpectedSummary ==
  [i \in 1 .. 8 |-> SummaryLine("Matrix Multiplication", 64 * i)]
  \o << SummaryLine("ReLU", 1000000), SummaryLine("Sigmoid", 1000000),
        SummaryLine("Tanh", 1000000), SummaryLine("Neural Layer", 5000000) >>

(* When main returns 0, the benchmark summary printResults printed has    *)
(* exactly one line per size runBenchmarks measured, in ascending size,   *)
(* with the CPU and the GPU measurement of that size in their columns,    *)
(* whatever order the unstable std::sort leaves rows of equal size in.     *)
BenchmarkReportComplete ==
  phase = "done" => bprinted = ExpectedSummary

(* main always ends, returning or throwing: every blocking transfer of     *)
(* its tests' twelve GPU calls waits only on commands the in-order queue  *)
(* runs, and the benchmark loops and printResults' loop are bounded.      *)
MainTerminates == <>(phase \in {"done", "threw"})
=============================================================================
