\* Three requests at a time; everything may fail.
SPECIFICATION Spec
CONSTANTS
    Requests = {r1, r2, r3}
    Keys = {k1, k2, k3, k4}
    None = None
SYMMETRY Symmetry
INVARIANTS KeyHasFile UploadKept NothingLeft
CHECK_DEADLOCK FALSE
