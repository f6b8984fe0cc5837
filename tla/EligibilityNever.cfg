\* Can an answer name a provider who was eligible at no instant of the question?
CONSTANTS
    Services = {s1}
    Categories = {c1}
    Providers = {p1}
    Requests = {r1}
SPECIFICATION WatchSpec
INVARIANT OnceEligible
