\* A replay is swept while the good token of its family is rotated.
SPECIFICATION Spec
CONSTANTS
    Requests = {r1, r2}
    Sessions = {s1, s2, s3}
    Families = {f1, f2}
    Users = {u1}
    SuperAdmins = {}
    Tenants = {t1}
    None = None
    CanCrash = FALSE
SYMMETRY Symmetry
PROPERTY ReuseAlwaysEnds
CHECK_DEADLOCK FALSE
