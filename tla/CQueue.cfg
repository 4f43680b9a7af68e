SPECIFICATION Spec
CONSTANTS
    n_elems = 3
    Elems = {a, b}
    MaxBatch = 4
INVARIANT TypeOK
PROPERTY ImplementsFifo
