SPECIFICATION LiveSpec
CONSTANTS
    Profiles = {p1}
    p1 = p1
    Hourly = {1, 2, 3, 4}
    Daily = {2, 4}
    Schedules <- TwoSchedules
    MaxTime = 4
    MaxOther = 2
    MaxCrashes = 1
    Never = Never
INVARIANT TypeOK
PROPERTY NoCatchUp
PROPERTY NoDoubleFire
PROPERTY NoLostRun
