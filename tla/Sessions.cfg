\* Two requests at a time that may crash; a platform user who is also a member.
SPECIFICATION Spec
CONSTANTS
    Requests = {r1, r2}
    Sessions = {s1, s2, s3}
    Families = {f1, f2}
    Users = {u1}
    SuperAdmins = {u1}
    Tenants = {t1}
    None = None
    CanCrash = TRUE
SYMMETRY Symmetry
INVARIANTS OneLive Lineage SuspendedOut
PROPERTIES FamilySpec SweepsEnd
CHECK_DEADLOCK FALSE
