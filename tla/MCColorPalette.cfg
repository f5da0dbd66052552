CONSTANTS
    Indices <- MCIndices
    Debug = FALSE
    Abort = Abort
    Undefined = Undefined
    OutOfRange = OutOfRange

SPECIFICATION Spec
INVARIANTS
    AccessorsReadTheirRegion
