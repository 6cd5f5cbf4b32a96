SPECIFICATION Spec
CONSTANTS
    Configs = {base, cfgA, cfgB, cfgLoop}
    Malformed = {cfgB}
    Invalid = {cfgLoop}
    VfConfigs = {cfgA}
    DefaultCfg = base
    base = base
    cfgA = cfgA
    cfgB = cfgB
    cfgLoop = cfgLoop
    Handlers = {h1, h2}
    TxnIds = {t1, t2}
    h1 = h1
    h2 = h2
    t1 = t1
    t2 = t2
    Requests = {"update", "confirm", "nm_apply"}
    Faults = {"write", "apply", "unlink", "drop", "timeout", "garble"}
    MaxCrashes = 2
    NoFile = NoFile
    Garbage = Garbage
    Mixed = Mixed
    Nobody = Nobody
SYMMETRY Symmetry
INVARIANT TypeOK
INVARIANT Recoverable
INVARIANT ConfirmWins
INVARIANT SingleTransaction
INVARIANT RolledBackLive
PROPERTY PromiseKept
