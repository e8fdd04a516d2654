SPECIFICATION Spec
CONSTANTS
    Closers = {c1, c2}
    CheckpointEveryCommit = 2
    CheckpointMinBytes = 2
    CompactMayFail = TRUE
    MaxCommits = 3
CHECK_DEADLOCK FALSE
PROPERTY CloseStopsWorker
