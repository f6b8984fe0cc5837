\* Two requests at a time about one membership.
SPECIFICATION Spec
CONSTANTS
    Invites = {i1, i2, i3}
    Seats = {s1}
    Users = {u1, u2}
    TenantOf <- OneSalon
    Requests = {r1, r2}
    NULL = NULL
    glow = glow
SYMMETRY Symmetry
INVARIANTS TypeOK OneOutstanding KeyIffOpen AcceptedStays OpenForHolder
PROPERTIES DecidedOnce PasswordKept
