\* A setting of a closed branch is stored and answered as not found.
SPECIFICATION Spec
CONSTANTS
    Categories = {k1, k2}
    Services = {s1}
    Branches = {b1}
    Prices = {5, 7}
    Overrides = {0}
    Requests = {r1, r2}
    None = None
SYMMETRY Symmetry
INVARIANT NeverDenied
