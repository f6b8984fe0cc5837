\* A file that cannot be removed.
SPECIFICATION Spec
CONSTANTS
    Requests = {r1}
    Keys = {k1, k2}
    None = None
SYMMETRY Symmetry
INVARIANT PhotoThere
CHECK_DEADLOCK FALSE
