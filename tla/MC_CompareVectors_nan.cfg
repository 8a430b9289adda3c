\* A NaN among the values: what a GPU result read back from a kernel that
\* produced NaN, or from memory it never wrote, can hold.
CONSTANTS
    Lens = {1}
    Floats = {0, NaN}
    NaN = NaN
    Tol = 1
SPECIFICATION Spec
INVARIANT ReturnsMatch
