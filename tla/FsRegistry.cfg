SPECIFICATION Spec
CONSTANTS
    Task = {t1, t2}
    UserName = {a, b}
    Dev = {d1, d2}
    MaxUuid = 2
    MaxEvents = 3
    NoTask = NoTask
    NoName = NoName
SYMMETRY Symmetry
INVARIANT DestructionExact
 
INVARIANT FlagHonest
PROPERTY EntryKept
CHECK_DEADLOCK FALSE
