\* An invitation is accepted while it is redirected.
SPECIFICATION Spec
CONSTANTS
    Invites = {i1, i2}
    Seats = {s1}
    Users = {u1, u2}
    TenantOf <- OneSalon
    Requests = {r1, r2}
    NULL = NULL
    glow = glow
SYMMETRY Symmetry
INVARIANT HolderAccepted
