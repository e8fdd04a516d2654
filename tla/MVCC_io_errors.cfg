SPECIFICATION Spec
CONSTANTS
    Keys = {k1, k2}
    Values = {v1}
    Txs = {t1, t2}
    Delete = Delete
    None = None
    MaxRecordOps = 2
    Faults = {"write", "sync", "tmp", "close", "rename", "reopen"}
    MaxVersion = 2
    MaxFrames = 2
SYMMETRY Symmetry
INVARIANT MemoryConsistent
PROPERTY SnapshotStable
