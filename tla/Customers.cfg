\* Two requests at a time about three customers of two salons.
SPECIFICATION CustomersSpec
CONSTANTS
    c1 = c1  c2 = c2  c3 = c3  glow = glow  zen = zen  None = None
    Ids = {c1, c2, c3}
    Phones = {n1, n2}
    TenantOf <- TwoSalons
    Slots = {r1, r2}
SYMMETRY Symmetry
INVARIANTS PhoneUnique CheckSuffices
