----------------------------- MODULE Benchmark -----------------------------
(***************************************************************************)
(* The result table of Benchmark (src/benchmark.cpp): the benchmark        *)
(* methods append one CPU and one GPU row per measurement to results_, and *)
(* printResults groups the rows by operation, sorts each group by size     *)
(* with std::sort, which is not stable, and prints rows i and i+1 as one   *)
(* line, taking the CPU time from whichever of the two says "CPU" and the  *)
(* GPU time and speedup from whichever says "GPU".                         *)
(*                                                                         *)
(* Timing is not modelled: a row is its operation, implementation and     *)
(* size.  An exception inside a benchmark leaves the method before either  *)
(* row of its pair is appended (both addResult calls follow both           *)
(* measurements) and destroys the Benchmark, so it is not modelled either. *)
(***************************************************************************)
EXTENDS Naturals, Sequences, SequencesExt, TLC

CONSTANTS
  MatrixRanges,   \* argument triples <<minSize, maxSize, step>>, step > 0
  VectorSizes,    \* arguments of benchmarkActivationFunctions
  LayerShapes,    \* argument triples of benchmarkNeuralLayer
  MaxBenchCalls   \* bound: benchmark methods the client calls

ASSUME \A r \in MatrixRanges : r[3] > 0

VARIABLES
  results,   \* results_: rows [op, impl, size]
  calls,     \* benchmark methods called so far
  printed,   \* the lines of the last printResults: [op, cpu, gpu], or <<>>
  shown,     \* results_ as that printResults saw it
  pc,        \* "idle", or "print" inside printResults
  opIndex,   \* index of the operation printResults is at
  sorted,    \* opResults of that operation as std::sort has ordered it so far
  csv,       \* the results file: [file, rows], file "none", "earlier" (left
             \* by an earlier run) or "written" with the rows written
  saved      \* whether the last saveResultsToFile printed "Results saved to"

vars == <<results, calls, printed, shown, pc, opIndex, sorted, csv, saved>>

-----------------------------------------------------------------------------
\* A row of results_: operation, implementation and size; the time and the
\* speedup are left out.
BenchmarkResult(op, impl, size) == [op |-> op, impl |-> impl, size |-> size]

(* addResult(op, "CPU", size, ...); addResult(op, "GPU", size, ...)         *)
Pair(op, size) == << BenchmarkResult(op, "CPU", size), BenchmarkResult(op, "GPU", size) >>

\* Mutant: the loop condition is size < maxSize.
LoopSizesBelowMax(r) ==
  [x \in 1 .. (r[2] - r[1] - 1) \div r[3] + 1 |-> r[1] + (x - 1) * r[3]]

\* for (int size = minSize; size <= maxSize; size += step)
LoopSizes(r) ==
  [x \in 1 .. ((r[2] - r[1]) \div r[3]) + 1 |-> r[1] + (x - 1) * r[3]]

Bench(pairs) ==
  /\ pc = "idle"
  /\ calls < MaxBenchCalls
  /\ results' = results \o FlattenSeq(pairs)
  /\ calls' = calls + 1
  /\ UNCHANGED <<printed, shown, pc, opIndex, sorted, csv, saved>>

\* benchmarkMatrixMultiplication: one detailed benchmark per size.
BenchmarkMatrixMultiplication(r) ==
  /\ r[1] <= r[2]
  /\ Bench([x \in DOMAIN LoopSizes(r) |->
              Pair("Matrix Multiplication", LoopSizes(r)[x])])

\* benchmarkActivationFunctions: ReLU, Sigmoid, Tanh on one vector.
BenchmarkActivationFunctions(n) ==
  Bench(<< Pair("ReLU", n), Pair("Sigmoid", n), Pair("Tanh", n) >>)

\* benchmarkNeuralLayer: one pair, its size the product of the three sizes.
BenchmarkNeuralLayer(s) ==
  Bench(<< Pair("Neural Layer", s[1] * s[2] * s[3]) >>)

-----------------------------------------------------------------------------
\* The operations in order of first appearance in results_: an operation is
\* appended to the list when a row names it and the list does not hold it.
FirstRow(op) == CHOOSE i \in DOMAIN results :
                  results[i].op = op /\ \A j \in 1 .. i - 1 : results[j].op # op
Operations ==
  LET ops == {r.op : r \in ToSet(results)} IN
  [i \in 1 .. Cardinality(ops) |->
     CHOOSE op \in ops : Cardinality({o \in ops : FirstRow(o) < FirstRow(op)}) = i - 1]

\* opResults: the rows of one operation, in the order of results_.
OpResults(op) == SelectSeq(results, LAMBDA r : r.op = op)

\* std::sort by size leaves the sizes ascending and the rows of one size in
\* any order: the orders of the rows of size sz.
EqualSizeOrders(rows, sz) ==
  LET g == SelectSeq(rows, LAMBDA r : r.size = sz) IN
  {[x \in DOMAIN g |-> g[p[x]]] : p \in Permutations(DOMAIN g)}

\* Mutant: the pairing loop advances by one row instead of two.
LinesStepOne(op, rows) ==
  [x \in 1 .. Len(rows) - 1 |->
     LET a == rows[x]  b == rows[x + 1] IN
     [op |-> op, cpu |-> IF a.impl = "CPU" THEN a ELSE b,
                 gpu |-> IF a.impl = "GPU" THEN a ELSE b]]

(* for (i = 0; i < opResults.size(); i += 2) if (i + 1 < size) { cpu = ...; *)
(* gpu = ...; print }: an odd last row is skipped.                          *)
Lines(op, rows) ==
  [x \in 1 .. Len(rows) \div 2 |->
     LET a == rows[2 * x - 1]  b == rows[2 * x] IN
     [op |-> op, cpu |-> IF a.impl = "CPU" THEN a ELSE b,
                 gpu |-> IF a.impl = "GPU" THEN a ELSE b]]

(* printResults: collect the operations, then one iteration per operation *)
(* of the loop: select its rows, sort them by size, print the lines.       *)
PrintResults ==
  /\ pc = "idle"
  /\ pc' = "print" /\ opIndex' = 1
  /\ printed' = <<>> /\ shown' = results
  /\ UNCHANGED <<results, calls, sorted, csv, saved>>

\* std::sort on opResults, whose result is built here one size at a time,
\* smallest size first.
SortSize ==
  LET rows == OpResults(Operations[opIndex])
      left == {r.size : r \in ToSet(rows)} \ {r.size : r \in ToSet(sorted)}
      least == CHOOSE sz \in left : \A t \in left : sz <= t
  IN
  /\ pc = "print"
  /\ opIndex <= Len(Operations)
  /\ left # {}
  /\ \E o \in EqualSizeOrders(rows, least) : sorted' = sorted \o o
  /\ UNCHANGED <<results, calls, printed, shown, pc, opIndex, csv, saved>>

\* The pairing loop over the sorted rows, then the next operation.
PrintOperation ==
  LET op == Operations[opIndex] IN
  /\ pc = "print"
  /\ opIndex <= Len(Operations)
  /\ Len(sorted) = Len(OpResults(op))
  /\ printed' = printed \o Lines(op, sorted)
  /\ sorted' = <<>>
  /\ opIndex' = opIndex + 1
  /\ UNCHANGED <<results, calls, shown, pc, csv, saved>>

PrintDone ==
  /\ pc = "print"
  /\ opIndex > Len(Operations)
  /\ pc' = "idle"
  /\ UNCHANGED <<results, calls, printed, shown, opIndex, sorted, csv, saved>>

(* saveResultsToFile: std::ofstream truncates and opens the file; if it    *)
(* is not open, the message goes to std::cerr and the method returns,     *)
(* leaving whatever file was there.  Otherwise the header and one line    *)
(* per row of results_, in order, are written, and "Results saved to" is  *)
(* printed.  No write is checked: once the stream fails (a full disk),    *)
(* the later writes are dropped, so the file holds the first k rows, and  *)
(* the message is printed all the same.  The header and the number        *)
(* formatting are not modelled.                                            *)
SaveResultsToFile ==
  /\ pc = "idle"
  /\ \/ \E k \in 0 .. Len(results) :
          csv' = [file |-> "written", rows |-> SubSeq(results, 1, k)]
        /\ saved' = TRUE
     \/ saved' = FALSE /\ UNCHANGED csv
  /\ UNCHANGED <<results, calls, printed, shown, pc, opIndex, sorted>>

Init ==
  /\ results = <<>>
  /\ calls = 0
  /\ printed = <<>>
  /\ shown = <<>>
  /\ pc = "idle"
  /\ opIndex = 1
  /\ sorted = <<>>
  /\ csv \in {[file |-> "none", rows |-> <<>>], [file |-> "earlier", rows |-> <<>>]}
  /\ saved = FALSE

Next ==
  \/ \E r \in MatrixRanges : BenchmarkMatrixMultiplication(r)
  \/ \E n \in VectorSizes : BenchmarkActivationFunctions(n)
  \/ \E s \in LayerShapes : BenchmarkNeuralLayer(s)
  \/ PrintResults
  \/ SortSize
  \/ PrintOperation
  \/ PrintDone
  \/ SaveResultsToFile

Spec == Init /\ [][Next]_vars

-----------------------------------------------------------------------------
(* Every line printResults prints compares like with like: its CPU and    *)
(* GPU rows are of the same operation and the same size, and every row of *)
(* results_ is printed on some line.  It rests on every benchmark method  *)
(* appending its rows in same-size pairs, so that each size group of the  *)
(* sorted table has even length and the lines never straddle two sizes.   *)
LinesCompareSameSize ==
  /\ \A x \in DOMAIN printed : printed[x].cpu.size = printed[x].gpu.size
  /\ pc = "idle" /\ printed # <<>> =>
       ToBag(shown) = ToBag([x \in DOMAIN printed |-> printed[x].cpu])
                        (+) ToBag([x \in DOMAIN printed |-> printed[x].gpu])

(* Every printed line puts a CPU measurement in the CPU column and a GPU   *)
(* measurement in the GPU column, whatever order std::sort leaves rows of *)
(* equal size in.                                                          *)
LinesPairCpuWithGpu ==
  \A x \in DOMAIN printed :
    printed[x].cpu.impl = "CPU" /\ printed[x].gpu.impl = "GPU"

=============================================================================
