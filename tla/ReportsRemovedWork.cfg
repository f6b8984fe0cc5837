\* A treatment of yesterday is removed today.
SPECIFICATION Spec
CONSTANTS
    Day = 2
    v1 = v1  v2 = v2  v3 = v3  b1 = b1  p1 = p1  p2 = p2
    Branches = {b1}
    Visits = {v1, v2, v3}
    NameOf <- MCNameOf
    Earlier <- MCEarlier
    Providers = {p1, p2}
    Limit = 1
    Zones <- MCZones
    Dates <- MCDates
    Requests = {r1, r2}
    Horizon = 1
    None = None
SYMMETRY Symmetry
PROPERTY TreatmentsSettled
