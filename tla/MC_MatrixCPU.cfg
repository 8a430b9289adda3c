\* multiplyCPU on every 1x1 .. 2x2 operand pair with entries in {0,1,2}.
CONSTANTS
    Dims = {1, 2}
    Vals = {0, 1, 2}
SPECIFICATION Spec
INVARIANT TypeOK
INVARIANT FilledInOrder
