SPECIFICATION Spec
CONSTANTS
    Keys = {k1, k2}
    Values = {v1}
    Txs = {t1, t2}
    Delete = Delete
    None = None
    MaxRecordOps = 1
    Faults = {}
    MaxVersion = 2
    MaxFrames = 2
SYMMETRY Symmetry
INVARIANT RewriteFaithful
