\* Two requests at a time about one treatment of two categories at one branch.
SPECIFICATION Spec
CONSTANTS
    Categories = {k1, k2}
    Services = {s1}
    Branches = {b1}
    Prices = {5, 7}
    Overrides = {0}
    Requests = {r1, r2}
    None = None
SYMMETRY Symmetry
INVARIANTS TypeOK QuoteShown
PROPERTIES TrailTrue AnswerTrue
