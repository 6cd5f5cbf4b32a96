SPECIFICATION LiveSpec
CONSTANTS
    Shares = {s1}
    s1 = s1
    Slots = {r1, r2}
    r1 = r1
    r2 = r2
    None = None
    Caps = {None, 1}
    Expiries = {None, 1}
    MaxClock = 1
    MaxCount = 1
    GrantTtl = 1
    Permits <- OnePermit
INVARIANT CapKept
INVARIANT PermitsConserved
PROPERTY RevokeFinal
PROPERTY WorkEnds
