------------------------------ MODULE GpuCall ------------------------------
(***************************************************************************)
(* What one xxxGPU method of MatrixOps / ActivationFunctions promises its  *)
(* caller, with the queue, the buffers and the kernel objects hidden: a    *)
(* call, once made, eventually returns, and it either returns what the CPU *)
(* reference computes for it or throws.  Calls do not overlap: the host    *)
(* thread makes one at a time (spec section 5).                            *)
(***************************************************************************)
EXTENDS Naturals

CONSTANTS
  Calls,       \* the calls a client may make: records [k, dims]
  Ref(_),      \* the CPU reference result of a numbered call
  MaxCalls,    \* bound: the calls the client makes
  None         \* no value

VARIABLES
  busy,        \* a call is in progress
  current,     \* the call in progress: [k, dims, no]
  count,       \* calls made so far
  outcome      \* the most recent return: [no, k, dims, ok, result], or None

vars == <<busy, current, count, outcome>>

Init ==
  /\ busy = FALSE
  /\ current = [k |-> None, dims |-> <<>>, no |-> 0]
  /\ count = 0
  /\ outcome = None

Begin(c) ==
  /\ ~busy
  /\ count < MaxCalls
  /\ current' = [k |-> c.k, dims |-> c.dims, no |-> count + 1]
  /\ count' = count + 1
  /\ busy' = TRUE
  /\ UNCHANGED outcome

Finish(ok) ==
  [no |-> current.no, k |-> current.k, dims |-> current.dims, ok |-> ok,
   result |-> IF ok THEN Ref(current) ELSE None]

Succeed ==
  /\ busy
  /\ busy' = FALSE
  /\ outcome' = Finish(TRUE)
  /\ UNCHANGED <<current, count>>

Fail ==
  /\ busy
  /\ busy' = FALSE
  /\ outcome' = Finish(FALSE)
  /\ UNCHANGED <<current, count>>

Next == (\E c \in Calls : Begin(c)) \/ Succeed \/ Fail

\* A call in progress eventually returns or throws; the client need not
\* make another.
Spec == Init /\ [][Next]_vars /\ WF_vars(Succeed \/ Fail)
=============================================================================
