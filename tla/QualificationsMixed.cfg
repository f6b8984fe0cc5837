\* Two replacements of providers' qualifications at a time.
CONSTANTS
    Services = {s1, s2}
    Categories = {c1}
    Providers = {p1}
    Requests = {r1, r2}
SPECIFICATION WatchSpec
INVARIANT OneOfTheAnswered
