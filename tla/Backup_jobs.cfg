SPECIFICATION LiveSpec
CONSTANTS
    Profiles = {p1, p2}
    Jobs = {j1, j2}
    Clients = {}
    p1 = p1
    p2 = p2
    j1 = j1
    j2 = j2
    Defs = {d1}
    d1 = d1
    Repos = {r1, r2}
    r1 = r1
    r2 = r2
    RepoOf <- TwoRepos
    Permits = 1
    Faults = {"panic"}
    Nobody = Nobody
INVARIANT NoOverlap
INVARIANT MarkerHonest
PROPERTY JobsEnd
