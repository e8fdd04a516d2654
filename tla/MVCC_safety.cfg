SPECIFICATION Spec
CONSTANTS
    Keys = {k1, k2}
    Values = {v1}
    Txs = {t1, t2}
    Delete = Delete
    None = None
    MaxRecordOps = 2
    Faults = {"tmp", "close", "rename", "reopen"}
    MaxVersion = 3
    MaxFrames = 3
SYMMETRY Symmetry
INVARIANTS TypeOK RecoverableStore RewriteFaithful
