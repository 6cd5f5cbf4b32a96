SPECIFICATION LiveSpec
CONSTANTS
    Handlers = {h1, h2}
    h1 = h1
    h2 = h2
    Pollers = {p1}
    p1 = p1
    Cancels = {c1}
    c1 = c1
    MaxRuns = 2
    MaxClock = 2
    MaxCrashes = 1
    Faults = {"drop", "write"}
INVARIANT TypeOK
INVARIANT OneOwner
PROPERTY InterruptedIsDead
PROPERTY CompletionKept
PROPERTY RunResolved
CHECK_DEADLOCK FALSE
