SPECIFICATION Spec
CONSTANTS
    Profiles = {p1}
    Jobs = {j1}
    Clients = {c1}
    p1 = p1
    j1 = j1
    c1 = c1
    Defs = {d1, d2}
    d1 = d1
    d2 = d2
    Repos = {r1, r2}
    r1 = r1
    r2 = r2
    RepoOf <- TwoRepos
    Permits = 1
    Faults = {"before", "after", "bulk", "secrets", "panic", "crash"}
    Nobody = Nobody
INVARIANT TypeOK
INVARIANT InitFlagHonest
INVARIANT CoverageHonest
PROPERTY NoResurrection
