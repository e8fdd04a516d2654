SPECIFICATION Spec
CONSTANTS
    Closers = {c1, c2}
    CheckpointEveryCommit = 2
    CheckpointMinBytes = 2
    CompactMayFail = TRUE
    MaxCommits = 5
CHECK_DEADLOCK FALSE
INVARIANTS TypeOK QuietAfterClose
PROPERTY NoCompactionAfterClose CloseReturns DueIsServed
