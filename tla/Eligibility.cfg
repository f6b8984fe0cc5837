\* Two requests at a time, and changes of one step between any two queries.
CONSTANTS
    Services = {s1}
    Categories = {c1, c2}
    Providers = {p1}
    Requests = {r1, r2}
SPECIFICATION Spec
SYMMETRY Symmetry
INVARIANT TypeOK
PROPERTIES AnswerExact AsAsked
