----------------------------- MODULE MatrixCPU -----------------------------
(***************************************************************************)
(* MatrixOps::multiplyCPU (src/matrix_ops.cpp), the reference every GPU    *)
(* multiply is compared with.  The three nested loops are modelled step    *)
(* by step: one action per loop test and per loop body, with the row-major *)
(* index arithmetic of the code.  Floats are abstracted to small integers, *)
(* so the reference product below is exact; rounding is not modelled.     *)
(***************************************************************************)
EXTENDS Integers, FiniteSets

CONSTANTS
    Dims,       \* the values rowsA, colsA, colsB may take
    Vals        \* the values an entry of A or B may take

VARIABLES
    rowsA, colsA, colsB,   \* the dimension arguments
    A, B,                  \* the operand vectors, indexed from 0
    C,                     \* the result vector
    i, j, k, sum,          \* the loop variables and the accumulator
    pc                     \* "i", "j", "k" (loop tests) or "done"

vars == <<rowsA, colsA, colsB, A, B, C, i, j, k, sum, pc>>

\* std::vector<T>(n) of the code: a function on 0 .. n-1.
Vector(n, S) == [0 .. n-1 -> S]

-----------------------------------------------------------------------------
(* int rowsC = rowsA; int colsC = colsB;                                   *)
(* std::vector<float> C(rowsC * colsC, 0.0f);                              *)
rowsC == rowsA
colsC == colsB

\* Mutant: C allocated with colsA columns instead of colsC.
InitWrongSize ==
    /\ rowsA \in Dims /\ colsA \in Dims /\ colsB \in Dims
    /\ A \in Vector(rowsA * colsA, Vals)
    /\ B \in Vector(colsA * colsB, Vals)
    /\ C = [x \in 0 .. rowsA * colsA - 1 |-> 0]
    /\ i = 0 /\ j = 0 /\ k = 0 /\ sum = 0 /\ pc = "i"

Init ==
    /\ rowsA \in Dims /\ colsA \in Dims /\ colsB \in Dims
    /\ A \in Vector(rowsA * colsA, Vals)
    /\ B \in Vector(colsA * colsB, Vals)
    /\ C = [x \in 0 .. rowsC * colsC - 1 |-> 0]
    /\ i = 0 /\ j = 0 /\ k = 0 /\ sum = 0 /\ pc = "i"

(* for (int i = 0; i < rowsA; i++): the test of the outer loop.            *)
RowLoop ==
    /\ pc = "i"
    /\ \/ i < rowsA /\ pc' = "j" /\ j' = 0
       \/ i >= rowsA /\ pc' = "done" /\ UNCHANGED j
    /\ UNCHANGED <<rowsA, colsA, colsB, A, B, C, i, k, sum>>

\* Mutant: the accumulator is not reset for each output element.
ColLoopNoReset ==
    /\ pc = "j"
    /\ \/ /\ j < colsB
          /\ pc' = "k" /\ k' = 0
          /\ UNCHANGED <<i, sum>>
       \/ /\ j >= colsB
          /\ pc' = "i" /\ i' = i + 1
          /\ UNCHANGED <<k, sum>>
    /\ UNCHANGED <<rowsA, colsA, colsB, A, B, C, j>>

(* for (int j = 0; j < colsB; j++) { float sum = 0.0f; ...                 *)
(* leaving the loop increments i.                                          *)
ColLoop ==
    /\ pc = "j"
    /\ \/ /\ j < colsB
          /\ pc' = "k" /\ k' = 0 /\ sum' = 0
          /\ UNCHANGED i
       \/ /\ j >= colsB
          /\ pc' = "i" /\ i' = i + 1
          /\ UNCHANGED <<k, sum>>
    /\ UNCHANGED <<rowsA, colsA, colsB, A, B, C, j>>

(* for (int k = 0; k < colsA; k++) sum += A[i*colsA + k] * B[k*colsB + j]; *)
DotStep ==
    /\ pc = "k"
    /\ k < colsA
    /\ sum' = sum + A[i * colsA + k] * B[k * colsB + j]
    /\ k' = k + 1
    /\ UNCHANGED <<rowsA, colsA, colsB, A, B, C, i, j, pc>>

(* After the k loop: C[i * colsC + j] = sum; then j++.                     *)
Store ==
    /\ pc = "k"
    /\ k >= colsA
    /\ C' = [C EXCEPT ![i * colsC + j] = sum]
    /\ j' = j + 1 /\ pc' = "j"
    /\ UNCHANGED <<rowsA, colsA, colsB, A, B, i, k, sum>>

Done == pc = "done" /\ UNCHANGED vars

Next == RowLoop \/ ColLoop \/ DotStep \/ Store \/ Done

Spec == Init /\ [][Next]_vars /\ WF_vars(Next)

-----------------------------------------------------------------------------
(* Reference definition: the matrix product of the row-major decodings.    *)

Entry(v, cols, r, c) == v[r * cols + c]

RECURSIVE DotProduct(_, _, _)
\* Sum of f[x] for x in 0 .. n-1.
DotProduct(f, n, acc) ==
    IF n = 0 THEN acc ELSE DotProduct(f, n - 1, acc + f[n - 1])

Product(r, c) ==
    DotProduct([x \in 0 .. colsA - 1 |->
                   Entry(A, colsA, r, x) * Entry(B, colsB, x, c)], colsA, 0)

\* Position of output element (r, c) in the row-major traversal of the loops.
Order(r, c) == r * colsB + c

\* The element the loops are at; at the row test j still holds colsB of the
\* previous row, so the position is the start of row i.
Cursor == IF pc = "i" THEN Order(i, 0) ELSE Order(i, j)

TypeOK ==
    /\ C \in Vector(rowsA * colsB, Int)
    /\ pc \in {"i", "j", "k", "done"}
    /\ i \in 0 .. rowsA /\ j \in 0 .. colsB /\ k \in 0 .. colsA

(* multiplyCPU computes the rowsA x colsB product of A and B, row-major,   *)
(* filling C in the order of its loops: at every step the elements before  *)
(* (i, j) hold the dot product of row r of A and column c of B and those   *)
(* after it still hold the 0.0f of the allocation; when the loops are done *)
(* every element holds its product.  It rests on the reset of sum for each *)
(* element and on the three index formulas of the loop body.               *)
FilledInOrder ==
    \A r \in 0 .. rowsA - 1, c \in 0 .. colsB - 1 :
        /\ Order(r, c) < Cursor => C[Order(r, c)] = Product(r, c)
        /\ Order(r, c) > Cursor => C[Order(r, c)] = 0
=============================================================================
