SPECIFICATION LiveSpec
CONSTANTS
    Configs = {base, cfgA}
    Malformed = {}
    Invalid = {}
    VfConfigs = {}
    DefaultCfg = base
    base = base
    cfgA = cfgA
    Handlers = {h1, h2}
    TxnIds = {t1, t2}
    h1 = h1
    h2 = h2
    t1 = t1
    t2 = t2
    Requests = {"update", "confirm"}
    Faults = {"apply", "unlink"}
    MaxCrashes = 1
    NoFile = NoFile
    Garbage = Garbage
    Mixed = Mixed
    Nobody = Nobody
PROPERTY TransactionSettles
PROPERTY RequestsAnswered
