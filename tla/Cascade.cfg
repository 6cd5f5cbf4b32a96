SPECIFICATION Spec
CONSTANTS
    Task = {t1, t2}
    App = {a1, a2}
    Vm = {v1}
    Smb = {s1}
    Nfs = {}
    NoVm = NoVm
    MaxEvents = 2
INVARIANT SwapQuiet
INVARIANT UndoPoint
INVARIANT AllBack
INVARIANT NeverWedged
SYMMETRY Symmetry
CHECK_DEADLOCK FALSE
