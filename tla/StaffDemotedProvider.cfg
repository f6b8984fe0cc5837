\* One request at a time.
SPECIFICATION Spec
CONSTANTS
    Members = {ann, bea}
    Requests = {r1}
    Founder = ann
SYMMETRY Symmetry
INVARIANT ProfileOnProvider
