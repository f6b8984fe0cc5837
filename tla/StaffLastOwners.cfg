\* Two owners, two requests at a time.
SPECIFICATION Spec
CONSTANTS
    Members = {ann, bea}
    Requests = {r1, r2}
    Founder = ann
SYMMETRY Symmetry
INVARIANT SomeOwner
