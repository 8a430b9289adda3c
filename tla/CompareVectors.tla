--------------------------- MODULE CompareVectors ---------------------------
(***************************************************************************)
(* MatrixOps::compareMatrices (src/matrix_ops.cpp) and                     *)
(* ActivationFunctions::compareVectors (fix_activation_functions.cpp): the *)
(* two have the same body, and every CPU/GPU check of main.cpp ends in one *)
(* of them.  The loop with its two early returns is modelled step by step. *)
(* Floats are abstracted to small integers plus the model value NaN; the   *)
(* comparison std::abs(a - b) > tolerance is modelled as IEEE evaluates    *)
(* it: every ordered comparison with a NaN operand is false.               *)
(***************************************************************************)
EXTENDS Integers, FiniteSets

CONSTANTS
    Lens,       \* the sizes the two vectors may have
    Floats,     \* the values an element may take
    NaN,        \* the IEEE not-a-number, a model value
    Tol         \* the tolerance argument

VARIABLES
    A, B,       \* the two vectors, indexed from 0
    i,          \* the loop index
    ret,        \* the returned bool, None while running
    pc          \* "size", "loop" or "done"

vars == <<A, B, i, ret, pc>>

None == "none"

Vector(n) == [0 .. n-1 -> Floats]

Abs(x) == IF x < 0 THEN -x ELSE x

\* Mutant: the tolerance is treated as exclusive (>= instead of >).
ExceedsAtTolerance(a, b) == a # NaN /\ b # NaN /\ Abs(a - b) >= Tol

\* std::abs(A[i] - B[i]) > tolerance, on IEEE floats.
Exceeds(a, b) == a # NaN /\ b # NaN /\ Abs(a - b) > Tol

Size(v) == Cardinality(DOMAIN v)

Init ==
    /\ \E m, n \in Lens : A \in Vector(m) /\ B \in Vector(n)
    /\ i = 0 /\ ret = None /\ pc = "size"

(* if (A.size() != B.size()) return false;                                 *)
SizeCheck ==
    /\ pc = "size"
    /\ \/ Size(A) # Size(B) /\ ret' = FALSE /\ pc' = "done"
       \/ Size(A) = Size(B) /\ pc' = "loop" /\ UNCHANGED ret
    /\ UNCHANGED <<A, B, i>>

(* for (size_t i = 0; i < A.size(); i++)                                   *)
(*     if (std::abs(A[i] - B[i]) > tolerance) return false;                *)
LoopStep ==
    /\ pc = "loop"
    /\ i < Size(A)
    /\ \/ Exceeds(A[i], B[i]) /\ ret' = FALSE /\ pc' = "done" /\ UNCHANGED i
       \/ ~Exceeds(A[i], B[i]) /\ i' = i + 1 /\ UNCHANGED <<ret, pc>>
    /\ UNCHANGED <<A, B>>

(* return true; after the loop.                                            *)
LoopEnd ==
    /\ pc = "loop"
    /\ i >= Size(A)
    /\ ret' = TRUE /\ pc' = "done"
    /\ UNCHANGED <<A, B, i>>

Done == pc = "done" /\ UNCHANGED vars

Next == SizeCheck \/ LoopStep \/ LoopEnd \/ Done

Spec == Init /\ [][Next]_vars /\ WF_vars(Next)

-----------------------------------------------------------------------------
\* The mathematical |a - b| <= tol of spec section 4.4, which no NaN meets.
Within(a, b) == a # NaN /\ b # NaN /\ Abs(a - b) <= Tol

\* What spec sections 4.4 and 8 say the comparison returns.
Matches == Size(A) = Size(B) /\ \A x \in DOMAIN A : Within(A[x], B[x])

(* compareMatrices/compareVectors return true exactly when the sizes are   *)
(* equal and every element pair is within the tolerance: false on a size   *)
(* mismatch, false as soon as one pair exceeds it (spec section 8), with   *)
(* the tolerance itself still accepted.  Holds once the function returns.  *)
ReturnsMatch == pc = "done" => ret = Matches

=============================================================================
