SPECIFICATION Spec
CONSTANTS
    ListSize = 3
    MaxBatch = 3
    MaxHeight = 7
INVARIANT BlockHashRight
