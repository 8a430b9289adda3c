\* Finite floats only: every pair of vectors of size 0..2 over {0,1,2},
\* with a tolerance of 1 so that a difference equal to it occurs.
CONSTANTS
    Lens = {0, 1, 2}
    Floats = {0, 1, 2}
    NaN = NaN
    Tol = 1
SPECIFICATION Spec
INVARIANT ReturnsMatch
