\* Two requests at a time about three people; a salon that two owners have
\* left together stops, so deadlock is not checked.
SPECIFICATION Spec
CONSTANTS
    Members = {ann, bea, cid}
    Requests = {r1, r2}
    Founder = ann
SYMMETRY Symmetry
INVARIANT ActiveOwner
PROPERTY RoleKept
CHECK_DEADLOCK FALSE
